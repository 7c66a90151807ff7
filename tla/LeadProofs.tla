----------------------------- MODULE LeadProofs -----------------------------
(***************************************************************************)
(* Proofs about LeadConversion, for any members, companies and commands,   *)
(* and any number of requests.                                             *)
(*                                                                         *)
(* Three locks carry everything: the lead's, the review's and the          *)
(* workspace's.  Knows says that a request that has passed one of them in  *)
(* its plan holds it, and that what it read with it is still in the table, *)
(* because whoever writes those rows holds the same lock at its commit.    *)
(***************************************************************************)
EXTENDS LeadConversion, FiniteSetTheorems, TLAPS

Reviewed == {"hold", "resolve", "convert"}

\* Where in its plan an operation takes the three locks, and how long it is.
LeadAt(op) == IF op \in Reviewed THEN 3 ELSE 2
ReviewAt(op) == IF op = "convert" THEN 5 ELSE 4
ActorAt(op) == CASE op = "convert" -> 2
                 [] op = "resolve" -> 6
                 [] op = "hold"    -> 5
                 [] OTHER          -> 3
Length(op) == IF op = "convert" THEN 7 ELSE ActorAt(op)

SeenRows == [receipt : BOOLEAN, lead : LeadRows, review : ReviewRows, member : MemberRows,
             company : CompanyRows, candidates : SUBSET [id : Companies, version : Nat]]

RowsTyped ==
    /\ lead \in LeadRows /\ review \in ReviewRows
    /\ recorded \subseteq [id : Companies, version : Nat]
    /\ company \in [Companies -> CompanyRows] /\ member \in [Members -> MemberRows]
    /\ deals \subseteq [company : Companies, owner : Members, source : Nat, by : Members]
    /\ receipts \subseteq Keys
    /\ sent \in [Keys -> Commands \cup {NoCommand}]
    /\ effects \in [Keys -> 0 .. 1]

LocalTyped ==
    /\ request \in [Requests -> Keys \cup {None}]
    /\ step \in [Requests -> 0 .. 8]
    /\ held = [r \in Requests |-> held[r]]
    /\ seen \in [Requests -> SeenRows]
    /\ \A r \in Requests : ~Running(r) => held[r] = {} /\ seen[r] = NothingSeen

OneHolder == \A r, q \in Requests : r # q => held[r] \cap held[q] = {}

\* What request r has read and is still so.
Knows(r) ==
    Running(r) =>
      LET in == Cmd(r) IN
      /\ in # NoCommand /\ step[r] > 0
      /\ step[r] > LeadAt(in.op) => <<"lead">> \in held[r] /\ seen[r].lead = lead
      /\ in.op \in Reviewed /\ step[r] > ReviewAt(in.op)
           => <<"review">> \in held[r] /\ seen[r].review = review
      /\ step[r] > ActorAt(in.op)
           => <<"workspace">> \in held[r] /\ seen[r].member = member[in.actor]
      /\ in.op = "resolve" /\ step[r] > 6 => seen[r].candidates = Candidates
      /\ in.op = "convert" /\ step[r] > 6 => seen[r].company = Customer(r)

\* A conversion comes after the review, and there is one.
ReviewedFirst == deals # {} => review.state = "resolved"
OneDeal == deals = {} \/ \E d \in deals : deals = {d}

\* What took effect shows in the version of the lead or of the review.
EffectsTell ==
    \A k \in Keys : effects[k] = 1 =>
        /\ sent[k] # NoCommand
        /\ \/ lead.version > sent[k].version
           \/ sent[k].op = "hold" /\ review.version > sent[k].review

Facts == ReviewedFirst /\ OneDeal /\ EffectsTell
           /\ (lead.lifecycle = "converted" <=> deals # {})
           /\ \A d \in deals : d.company = lead.company /\ d.company = review.company

LocalInv == LocalTyped /\ OneHolder /\ \A r \in Requests : Knows(r)
IInv == RowsTyped /\ LocalInv /\ Facts
-----------------------------------------------------------------------------
(* Commands and their plans. *)

LEMMA CommandParts ==
    ASSUME NEW in \in Commands
    PROVE  /\ in.op \in {"lifecycle", "edit", "stage", "hold", "resolve", "convert"}
           /\ in.actor \in Members /\ in.version \in Nat
           /\ in.op = "lifecycle" => in.to \in Lifecycles \ {"converted"}
           /\ in.op = "edit" => in.owner \in Owners
           /\ in.op \in Reviewed => in.review \in Nat
           /\ in.op = "resolve" => in.choice \in Companies \cup {"create", "dismiss"}
           /\ in.op = "convert" => in.company \in Companies /\ in.companyVersion \in Nat
  BY DEF Commands, Reviewed, Versions

LEMMA OfferedParts ==
    ASSUME RowsTyped, NEW op \in Operations, NEW m \in Members, NEW in \in Offered(op, m)
    PROVE  in \in Commands
<1>1. /\ lead.version \in Nat /\ lead.lifecycle \in Lifecycles /\ lead.owner \in Owners
      /\ lead.company \in Companies \cup {None} /\ review.version \in Nat
      /\ \A c \in Companies : company[c].version \in Nat
      /\ recorded \subseteq [id : Companies, version : Nat]
  BY DEF RowsTyped, LeadRows, ReviewRows, CompanyRows
<1>2. \A from \in Lifecycles : Successors[from] \subseteq Lifecycles
  BY DEF Successors, Lifecycles
<1>3. op \in {"lifecycle", "edit", "stage", "hold", "resolve", "convert"}
  BY LeadAssumption
<1>4. CASE op = "lifecycle"
  BY <1>1, <1>2, <1>4 DEF Offered, Commands, Versions
<1>5. CASE op = "edit"
  BY <1>1, <1>5 DEF Offered, Commands, Versions
<1>6. CASE op = "stage"
  BY <1>1, <1>6 DEF Offered, Commands, Versions
<1>7. CASE op = "hold"
  BY <1>1, <1>7 DEF Offered, Commands, Versions
<1>8. CASE op = "resolve"
  BY <1>1, <1>8 DEF Offered, Commands, Versions
<1>9. CASE op = "convert"
  BY <1>1, <1>9 DEF Offered, Commands, Versions
<1> QED BY <1>3, <1>4, <1>5, <1>6, <1>7, <1>8, <1>9

LEMMA PlanParts ==
    ASSUME NEW op \in {"lifecycle", "edit", "stage", "hold", "resolve", "convert"}
    PROVE  /\ Len(Plan(op)) = Length(op)
           /\ Length(op) \in 3 .. 7 /\ LeadAt(op) \in 2 .. 3 /\ LeadAt(op) < Length(op)
           /\ ActorAt(op) \in 2 .. 6 /\ ActorAt(op) <= Length(op)
           /\ op \in Reviewed => ReviewAt(op) \in 4 .. 5 /\ ReviewAt(op) < Length(op)
           /\ Plan(op)[LeadAt(op)] = "lead"
           /\ op \in Reviewed => Plan(op)[ReviewAt(op)] = "review"
           /\ Plan(op)[ActorAt(op)] = "actor" /\ Plan(op)[Length(op)] = "actor"
           /\ op = "convert" => Plan(op)[6] = "company"
           /\ op = "resolve" => Plan(op)[6] = "actor"
<1>1. CASE op \in {"lifecycle", "edit", "stage"}
  <2>1. Plan(op) = <<"key", "lead", "actor">>
    BY <1>1 DEF Plan
  <2> QED BY <1>1, <2>1 DEF Length, LeadAt, ReviewAt, ActorAt, Reviewed
<1>2. CASE op = "hold"
  <2>1. Plan(op) = <<"key", "intake", "lead", "review", "actor">>
    BY <1>2 DEF Plan
  <2> QED BY <1>2, <2>1 DEF Length, LeadAt, ReviewAt, ActorAt, Reviewed
<1>3. CASE op = "resolve"
  <2>1. Plan(op) = <<"key", "intake", "lead", "review", "company", "actor">>
    BY <1>3 DEF Plan
  <2> QED BY <1>3, <2>1 DEF Length, LeadAt, ReviewAt, ActorAt, Reviewed
<1>4. CASE op = "convert"
  <2>1. Plan(op) = <<"key", "actor", "lead", "intake", "review", "company", "actor">>
    BY <1>4 DEF Plan
  <2> QED BY <1>4, <2>1 DEF Length, LeadAt, ReviewAt, ActorAt, Reviewed
<1> QED BY <1>1, <1>2, <1>3, <1>4

LEMMA Busy ==
    ASSUME IInv, NEW r \in Requests, Running(r)
    PROVE  /\ request[r] \in Keys /\ Cmd(r) \in Commands /\ Cmd(r) # NoCommand
           /\ step[r] \in 1 .. 8
           /\ Done(r) <=> step[r] > Length(Cmd(r).op)
<1>1. /\ request[r] \in Keys /\ Cmd(r) \in Commands /\ Cmd(r) # NoCommand
      /\ step[r] \in 1 .. 8
  BY DEF IInv, LocalInv, RowsTyped, LocalTyped, Knows, Running, Cmd
<1> QED BY <1>1, CommandParts, PlanParts DEF Done

\* What a request that is at its commit has seen is so.
LEMMA AtCommit ==
    ASSUME IInv, NEW r \in Requests, Done(r)
    PROVE  LET in == Cmd(r) IN
           /\ request[r] \in Keys /\ in \in Commands
           /\ <<"lead">> \in held[r] /\ seen[r].lead = lead
           /\ in.op \in Reviewed => <<"review">> \in held[r] /\ seen[r].review = review
           /\ <<"workspace">> \in held[r] /\ seen[r].member = member[in.actor]
           /\ in.op = "resolve" => seen[r].candidates = Candidates
           /\ in.op = "convert" => seen[r].company = Customer(r)
<1> DEFINE in == Cmd(r)
<1>1. /\ Running(r) /\ request[r] \in Keys /\ in \in Commands
      /\ step[r] \in 1 .. 8 /\ step[r] > Length(in.op)
  BY Busy DEF Done
<1>2. in.op \in {"lifecycle", "edit", "stage", "hold", "resolve", "convert"}
  BY <1>1, CommandParts
<1>3. /\ step[r] > LeadAt(in.op) /\ step[r] > ActorAt(in.op)
      /\ in.op \in Reviewed => step[r] > ReviewAt(in.op)
  <2>1. /\ Length(in.op) \in 3 .. 7 /\ LeadAt(in.op) \in 2 .. 3 /\ ActorAt(in.op) \in 2 .. 6
        /\ LeadAt(in.op) < Length(in.op) /\ ActorAt(in.op) <= Length(in.op)
    BY <1>2, PlanParts
  <2>2. in.op \in Reviewed => ReviewAt(in.op) \in 4 .. 5 /\ ReviewAt(in.op) < Length(in.op)
    BY <1>2, PlanParts
  <2> QED BY <1>1, <2>1, <2>2
<1>4. in.op \in {"resolve", "convert"} => step[r] > 6
  BY <1>1 DEF Length, ActorAt
<1>5. Knows(r)
  BY DEF IInv, LocalInv
<1> HIDE DEF in
<1> QED BY <1>1, <1>3, <1>4, <1>5 DEF Knows, in
-----------------------------------------------------------------------------
(* The steps that write no rows. *)

\* Nothing of request q changes.
Same(q) == /\ request'[q] = request[q] /\ step'[q] = step[q]
           /\ held'[q] = held[q] /\ seen'[q] = seen[q]

\* What a request knows stays so while nobody writes what it has locked.
LEMMA KnowsKept ==
    ASSUME NEW q \in Requests, step[q] \in Nat, Knows(q), Same(q),
           Running(q) => sent'[request[q]] = sent[request[q]],
           <<"lead">> \in held[q] => lead' = lead,
           <<"review">> \in held[q] => review' = review,
           <<"workspace">> \in held[q] => member' = member /\ company' = company
    PROVE  Knows(q)'
<1>1. CASE ~Running(q)
  BY <1>1 DEF Knows, Running, Same
<1>2. CASE Running(q)
  <2> DEFINE in == Cmd(q)
  <2>1. Cmd(q)' = in /\ Running(q)'
    BY <1>2 DEF Same, Cmd, Running
  <2>2. /\ in # NoCommand /\ step[q] > 0
        /\ step[q] > LeadAt(in.op) => <<"lead">> \in held[q] /\ seen[q].lead = lead
        /\ in.op \in Reviewed /\ step[q] > ReviewAt(in.op)
             => <<"review">> \in held[q] /\ seen[q].review = review
        /\ step[q] > ActorAt(in.op)
             => <<"workspace">> \in held[q] /\ seen[q].member = member[in.actor]
        /\ in.op = "resolve" /\ step[q] > 6 => seen[q].candidates = Candidates
        /\ in.op = "convert" /\ step[q] > 6 => seen[q].company = Customer(q)
    BY <1>2 DEF Knows
  <2>3. <<"workspace">> \in held[q] =>
           /\ Candidates' = Candidates /\ Customer(q)' = Customer(q)
    BY DEF Candidates, Customer, Same
  <2>4. /\ in.op = "resolve" => ActorAt(in.op) = 6
        /\ in.op = "convert" => ActorAt(in.op) = 2
    BY DEF ActorAt
  <2> HIDE DEF in
  <2>5. in.op \in {"resolve", "convert"} /\ step[q] > 6 => <<"workspace">> \in held[q]
    BY <2>2, <2>4
  <2> QED BY <2>1, <2>2, <2>3, <2>5 DEF Knows, Same
<1> QED BY <1>1, <1>2

\* Nothing is written but the requests' own state and the commands sent.
LEMMA NoRowsWritten ==
    ASSUME IInv, UNCHANGED <<rows, effects>>, LocalInv',
           sent' \in [Keys -> Commands \cup {NoCommand}],
           \A k \in Keys : sent'[k] = sent[k] \/ sent[k] = NoCommand
    PROVE  IInv'
<1>1. RowsTyped'
  BY DEF IInv, RowsTyped, rows
<1>2. EffectsTell'
  <2> SUFFICES ASSUME NEW k \in Keys, effects'[k] = 1
               PROVE  /\ sent'[k] # NoCommand
                      /\ \/ lead'.version > sent'[k].version
                         \/ sent'[k].op = "hold" /\ review'.version > sent'[k].review
    BY DEF EffectsTell
  <2>1. effects[k] = 1 /\ lead' = lead /\ review' = review
    BY DEF rows
  <2>2. sent'[k] = sent[k]
    BY <2>1 DEF IInv, Facts, EffectsTell
  <2> QED BY <2>1, <2>2 DEF IInv, Facts, EffectsTell
<1>3. ReviewedFirst' /\ OneDeal'
  BY DEF IInv, Facts, ReviewedFirst, OneDeal, rows
<1>4. Facts'
  BY <1>2, <1>3 DEF IInv, Facts, rows
<1> QED BY <1>1, <1>4 DEF IInv

LEMMA Closed ==
    ASSUME IInv, NEW r \in Requests, Close(r)
    PROVE  /\ LocalTyped' /\ OneHolder' /\ Knows(r)'
           /\ \A q \in Requests \ {r} : Same(q) /\ step[q] \in Nat
<1>1. /\ request' = [request EXCEPT ![r] = None] /\ step' = [step EXCEPT ![r] = 0]
      /\ held' = [held EXCEPT ![r] = {}] /\ seen' = [seen EXCEPT ![r] = NothingSeen]
  BY DEF Close
<1>2. LocalTyped /\ OneHolder
  BY DEF IInv, LocalInv
<1>3. NothingSeen \in SeenRows
  BY DEF NothingSeen, SeenRows, LeadRows, ReviewRows, CompanyRows, MemberRows, Lifecycles, Owners
<1>4. /\ request'[r] = None /\ held'[r] = {} /\ seen'[r] = NothingSeen
      /\ \A q \in Requests \ {r} : Same(q) /\ step[q] \in Nat
  BY <1>1, <1>2 DEF LocalTyped, Same
<1>5. LocalTyped'
  <2>1. /\ request' \in [Requests -> Keys \cup {None}] /\ step' \in [Requests -> 0 .. 8]
        /\ seen' \in [Requests -> SeenRows]
    BY <1>1, <1>2, <1>3 DEF LocalTyped
  <2>2. held' = [q \in Requests |-> held'[q]]
    <3>1. held = [q \in Requests |-> held[q]]
      BY <1>2 DEF LocalTyped
    <3>2. held' = [q \in Requests |-> IF q = r THEN {} ELSE held[q]]
      BY <1>1, <3>1
    <3> QED BY <3>2
  <2>3. ASSUME NEW q \in Requests, request'[q] = None
        PROVE  held'[q] = {} /\ seen'[q] = NothingSeen
    BY <1>2, <1>4, <2>3 DEF LocalTyped, Running, Same
  <2> QED BY <2>1, <2>2, <2>3 DEF LocalTyped, Running
<1>6. OneHolder'
  BY <1>2, <1>4 DEF OneHolder, Same
<1>7. Knows(r)'
  BY <1>4 DEF Knows, Running
<1> QED BY <1>4, <1>5, <1>6, <1>7

LEMMA CloseStep ==
    ASSUME IInv, NEW r \in Requests, Close(r), UNCHANGED <<rows, sent, effects>>
    PROVE  IInv'
<1>1. ASSUME NEW q \in Requests, q # r
      PROVE  Knows(q)'
  BY <1>1, Closed, KnowsKept DEF IInv, LocalInv, rows
<1>2. LocalInv'
  BY <1>1, Closed DEF LocalInv
<1> QED BY <1>2, NoRowsWritten DEF IInv, RowsTyped

\* A request starts with a command that was made now or before.
LEMMA StartStep ==
    ASSUME IInv, NEW r \in Requests, NEW k \in Keys, request[r] = None,
           request' = [request EXCEPT ![r] = k], step' = [step EXCEPT ![r] = 1],
           UNCHANGED <<rows, held, seen, effects>>,
           sent' \in [Keys -> Commands \cup {NoCommand}], sent'[k] # NoCommand,
           \A j \in Keys : sent'[j] = sent[j] \/ sent[j] = NoCommand
    PROVE  IInv'
<1>1. LocalTyped /\ OneHolder
  BY DEF IInv, LocalInv
<1>2. held[r] = {} /\ seen[r] = NothingSeen
  BY <1>1 DEF LocalTyped, Running
<1>3. LocalTyped'
  <2>1. /\ request' \in [Requests -> Keys \cup {None}] /\ step' \in [Requests -> 0 .. 8]
        /\ held' = [q \in Requests |-> held'[q]] /\ seen' \in [Requests -> SeenRows]
    BY <1>1 DEF LocalTyped
  <2>2. \A q \in Requests : request'[q] = None => held'[q] = {} /\ seen'[q] = NothingSeen
    BY <1>1, <1>2, LeadAssumption DEF LocalTyped, Running
  <2> QED BY <2>1, <2>2 DEF LocalTyped, Running
<1>4. Knows(r)'
  <2>1. request'[r] = k /\ step'[r] = 1
    BY <1>1 DEF LocalTyped
  <2>2. Cmd(r)' # NoCommand
    BY <2>1 DEF Cmd
  <2>3. \A op : /\ LeadAt(op) \in 2 .. 3 /\ ReviewAt(op) \in 4 .. 5
                /\ ActorAt(op) \in 2 .. 6
    BY DEF LeadAt, ReviewAt, ActorAt
  <2> QED BY <2>1, <2>2, <2>3 DEF Knows
<1>5. ASSUME NEW q \in Requests, q # r
      PROVE  Knows(q)'
  <2>1. Same(q) /\ step[q] \in Nat
    BY <1>1, <1>5 DEF LocalTyped, Same
  <2>2. Running(q) => sent'[request[q]] = sent[request[q]]
    BY Busy DEF Cmd
  <2> QED BY <2>1, <2>2, KnowsKept DEF IInv, LocalInv, rows
<1>6. LocalInv'
  BY <1>1, <1>3, <1>4, <1>5 DEF LocalInv, OneHolder
<1> QED BY <1>6, NoRowsWritten

LEMMA SubmitStep ==
    ASSUME IInv, NEW r \in Requests, Submit(r) \/ Repeat(r)
    PROVE  IInv'
<1>1. RowsTyped /\ sent \in [Keys -> Commands \cup {NoCommand}]
  BY DEF IInv, RowsTyped
<1>2. CASE Submit(r)
  <2>1. PICK k \in Keys, op \in Operations :
           \E in \in Offered(op, Client[k]) : /\ sent[k] = NoCommand
                                              /\ sent' = [sent EXCEPT ![k] = in]
                                              /\ request' = [request EXCEPT ![r] = k]
    BY <1>2 DEF Submit
  <2>2. PICK in \in Offered(op, Client[k]) : /\ sent[k] = NoCommand
                                             /\ sent' = [sent EXCEPT ![k] = in]
                                             /\ request' = [request EXCEPT ![r] = k]
    BY <2>1
  <2>3. in \in Commands
    BY <1>1, OfferedParts, LeadAssumption
  <2>4. in # NoCommand
    BY <2>3, CommandParts DEF NoCommand
  <2>5. /\ sent' \in [Keys -> Commands \cup {NoCommand}] /\ sent'[k] = in
        /\ \A j \in Keys : sent'[j] = sent[j] \/ j = k
    BY <1>1, <2>2, <2>3
  <2> QED BY <1>2, <2>2, <2>4, <2>5, StartStep DEF Submit
<1>3. CASE Repeat(r)
  <2>1. PICK k \in Keys : sent[k] # NoCommand /\ request' = [request EXCEPT ![r] = k]
    BY <1>3 DEF Repeat
  <2> QED BY <1>1, <1>3, <2>1, StartStep DEF Repeat
<1> QED BY <1>2, <1>3

\* What a request reads with a lock is what the tables say.
LEMMA ReadingParts ==
    ASSUME IInv, NEW r \in Requests, Running(r), ~Done(r)
    PROVE  LET got == Reading(r)
               old == seen[r]
               lock == NextLock(r) IN
           /\ got \in SeenRows
           /\ got.lead = IF lock = "lead" THEN lead ELSE old.lead
           /\ got.review = IF lock = "review" THEN review ELSE old.review
           /\ got.member = IF lock = "actor" THEN member[Cmd(r).actor] ELSE old.member
           /\ got.company = IF lock = "company" /\ Cmd(r).op = "convert" THEN Customer(r)
                            ELSE old.company
           /\ lock = "actor" /\ Cmd(r).op = "resolve" => got.candidates = Candidates
           /\ lock = "lead" => <<"lead">> \in Wanted(r)
           /\ lock = "review" => <<"review">> \in Wanted(r)
           /\ lock = "actor" => <<"workspace">> \in Wanted(r)
<1> DEFINE got == Reading(r)
           old == seen[r]
           lock == NextLock(r)
<1>1. /\ old \in SeenRows /\ lead \in LeadRows /\ review \in ReviewRows
      /\ company \in [Companies -> CompanyRows]
      /\ Cmd(r) \in Commands
  BY Busy DEF IInv, LocalInv, LocalTyped, RowsTyped
<1>2. member[Cmd(r).actor] \in MemberRows
  BY <1>1, CommandParts DEF IInv, RowsTyped
<1>3. Candidates \in SUBSET [id : Companies, version : Nat]
  BY <1>1 DEF Candidates, CompanyRows
<1>4. Customer(r) \in CompanyRows
  <2>1. old.lead.company \in Companies \cup {None}
    BY <1>1 DEF SeenRows, LeadRows
  <2>2. NothingSeen.company \in CompanyRows
    BY DEF NothingSeen, CompanyRows
  <2> QED BY <1>1, <2>1, <2>2 DEF Customer
<1>5. CASE lock = "key"
  <2> DEFINE stored == request[r] \in receipts
  <2>1. stored \in BOOLEAN /\ got = [old EXCEPT !.receipt = stored]
    BY <1>5 DEF Reading
  <2> HIDE DEF stored
  <2> QED BY <1>1, <1>5, <2>1 DEF SeenRows
<1>6. CASE lock = "lead"
  <2>1. got = [old EXCEPT !.lead = lead] /\ Wanted(r) = {<<"lead">>}
    BY <1>6 DEF Reading, Wanted
  <2> QED BY <1>1, <1>6, <2>1 DEF SeenRows
<1>7. CASE lock = "review"
  <2>1. got = [old EXCEPT !.review = review] /\ Wanted(r) = {<<"review">>}
    BY <1>7 DEF Reading, Wanted
  <2> QED BY <1>1, <1>7, <2>1 DEF SeenRows
<1>8. CASE lock = "company"
  <2>1. CASE Cmd(r).op = "convert"
    <3>1. got = [old EXCEPT !.company = Customer(r)]
      BY <1>8, <2>1 DEF Reading
    <3> QED BY <1>1, <1>4, <1>8, <2>1, <3>1 DEF SeenRows
  <2>2. CASE Cmd(r).op # "convert"
    <3>1. got = [old EXCEPT !.candidates = Candidates]
      BY <1>8, <2>2 DEF Reading
    <3> QED BY <1>1, <1>3, <1>8, <2>2, <3>1 DEF SeenRows
  <2> QED BY <2>1, <2>2
<1>9. CASE lock = "actor"
  <2> DEFINE found == IF Cmd(r).op = "resolve" THEN Candidates ELSE old.candidates
  <2>1. got = [old EXCEPT !.member = member[Cmd(r).actor], !.candidates = found]
    BY <1>9 DEF Reading, FinalCandidates
  <2>2. found \in SUBSET [id : Companies, version : Nat]
    BY <1>1, <1>3 DEF SeenRows
  <2>3. <<"workspace">> \in Wanted(r)
    BY <1>9 DEF Wanted, ActorLocks
  <2> HIDE DEF found
  <2>4. /\ got \in SeenRows /\ got.lead = old.lead /\ got.review = old.review
        /\ got.company = old.company /\ got.member = member[Cmd(r).actor]
        /\ got.candidates = found
    BY <1>1, <1>2, <2>1, <2>2 DEF SeenRows
  <2> QED BY <1>9, <2>3, <2>4 DEF found
<1>10. CASE lock \notin {"key", "lead", "review", "company", "actor"}
  <2>1. got = old
    BY <1>10 DEF Reading
  <2> QED BY <1>1, <1>10, <2>1
<1> QED BY <1>5, <1>6, <1>7, <1>8, <1>9, <1>10

\* The lock that is next, where the request stands.
LEMMA NextLocks ==
    ASSUME IInv, NEW r \in Requests, Running(r), ~Done(r)
    PROVE  LET op == Cmd(r).op
               n == step[r] IN
           /\ n \in 1 .. 7 /\ n <= Length(op)
           /\ op \in {"lifecycle", "edit", "stage", "hold", "resolve", "convert"}
           /\ n = LeadAt(op) <=> NextLock(r) = "lead"
           /\ op \in Reviewed => (n = ReviewAt(op) <=> NextLock(r) = "review")
           /\ n = ActorAt(op) => NextLock(r) = "actor"
           /\ NextLock(r) = "actor" => n = ActorAt(op) \/ (op = "convert" /\ n = 7)
           /\ op = "convert" => (n = 6 <=> NextLock(r) = "company")
<1> DEFINE op == Cmd(r).op
           n == step[r]
<1>1. n \in 1 .. 8 /\ ~(n > Length(op)) /\ Cmd(r) \in Commands
  BY Busy
<1>2. op \in {"lifecycle", "edit", "stage", "hold", "resolve", "convert"}
  BY <1>1, CommandParts
<1>3. NextLock(r) = Plan(op)[n]
  BY DEF NextLock
<1> HIDE DEF op, n
<1>4. CASE op \in {"lifecycle", "edit", "stage"}
  <2>1. Plan(op) = <<"key", "lead", "actor">> /\ n \in 1 .. 3
    BY <1>1, <1>4 DEF Plan, Length, ActorAt
  <2> QED BY <1>3, <1>4, <2>1 DEF n, op, Length, LeadAt, ReviewAt, ActorAt, Reviewed
<1>5. CASE op = "hold"
  <2>1. Plan(op) = <<"key", "intake", "lead", "review", "actor">> /\ n \in 1 .. 5
    BY <1>1, <1>5 DEF Plan, Length, ActorAt
  <2> QED BY <1>3, <1>5, <2>1 DEF n, op, Length, LeadAt, ReviewAt, ActorAt, Reviewed
<1>6. CASE op = "resolve"
  <2>1. Plan(op) = <<"key", "intake", "lead", "review", "company", "actor">> /\ n \in 1 .. 6
    BY <1>1, <1>6 DEF Plan, Length, ActorAt
  <2> QED BY <1>3, <1>6, <2>1 DEF n, op, Length, LeadAt, ReviewAt, ActorAt, Reviewed
<1>7. CASE op = "convert"
  <2>1. /\ Plan(op) = <<"key", "actor", "lead", "intake", "review", "company", "actor">>
        /\ n \in 1 .. 7
    BY <1>1, <1>7 DEF Plan, Length, ActorAt
  <2> QED BY <1>3, <1>7, <2>1 DEF n, op, Length, LeadAt, ReviewAt, ActorAt, Reviewed
<1> QED BY <1>2, <1>4, <1>5, <1>6, <1>7

\* A lock is granted to one request, which then knows one thing more.
LEMMA TakeStep ==
    ASSUME IInv, NEW r \in Requests, Take(r)
    PROVE  IInv'
<1> DEFINE in == Cmd(r)
           n == step[r]
           got == Reading(r)
           lock == NextLock(r)
<1>1. /\ Running(r) /\ ~Done(r) /\ \A q \in Requests : ~WaitsFor(r, q)
      /\ held' = [held EXCEPT ![r] = @ \cup Wanted(r)]
      /\ seen' = [seen EXCEPT ![r] = got]
      /\ step' = [step EXCEPT ![r] = n + 1]
      /\ UNCHANGED <<rows, sent, request, effects>>
  BY DEF Take
<1>2. LocalTyped /\ OneHolder /\ Knows(r)
  BY DEF IInv, LocalInv
<1>3. n \in 1 .. 7 /\ request[r] \in Keys /\ in \in Commands /\ got \in SeenRows
  BY <1>1, Busy, NextLocks, ReadingParts
<1>4. /\ held'[r] = held[r] \cup Wanted(r) /\ seen'[r] = got /\ step'[r] = n + 1
      /\ request'[r] = request[r]
      /\ \A q \in Requests \ {r} : Same(q) /\ step[q] \in Nat
  BY <1>1, <1>2 DEF LocalTyped, Same
<1>5. LocalTyped'
  <2>1. /\ request' \in [Requests -> Keys \cup {None}] /\ step' \in [Requests -> 0 .. 8]
        /\ seen' \in [Requests -> SeenRows]
    BY <1>1, <1>2, <1>3 DEF LocalTyped
  <2>2. held' = [q \in Requests |-> held'[q]]
    <3>1. held = [q \in Requests |-> held[q]]
      BY <1>2 DEF LocalTyped
    <3>2. held' = [q \in Requests |-> IF q = r THEN held[r] \cup Wanted(r) ELSE held[q]]
      BY <1>1, <3>1
    <3> QED BY <3>2
  <2>3. ASSUME NEW q \in Requests, request'[q] = None
        PROVE  held'[q] = {} /\ seen'[q] = NothingSeen
    <3>1. q # r
      BY <1>1, <2>3 DEF Running
    <3> QED BY <1>2, <1>4, <2>3, <3>1 DEF LocalTyped, Running, Same
  <2> QED BY <2>1, <2>2, <2>3 DEF LocalTyped, Running
<1>6. OneHolder'
  <2>1. ASSUME NEW q \in Requests, q # r
        PROVE  Wanted(r) \cap held[q] = {}
    <3>1. CASE Running(q)
      BY <1>1, <2>1, <3>1 DEF WaitsFor
    <3>2. CASE ~Running(q)
      BY <1>2, <3>2 DEF LocalTyped
    <3> QED BY <3>1, <3>2
  <2>2. \A q \in Requests : held'[q] = IF q = r THEN held[r] \cup Wanted(r) ELSE held[q]
    BY <1>4 DEF Same
  <2> QED BY <1>2, <2>1, <2>2 DEF OneHolder
<1>7. Knows(r)'
  <2>1. Cmd(r)' = in /\ UNCHANGED <<lead, review, member, company>>
    BY <1>1, <1>4 DEF Cmd, rows
  <2>2. /\ in # NoCommand
        /\ n > LeadAt(in.op) => <<"lead">> \in held[r] /\ seen[r].lead = lead
        /\ in.op \in Reviewed /\ n > ReviewAt(in.op)
             => <<"review">> \in held[r] /\ seen[r].review = review
        /\ n > ActorAt(in.op)
             => <<"workspace">> \in held[r] /\ seen[r].member = member[in.actor]
        /\ in.op = "convert" /\ n > 6 => seen[r].company = Customer(r)
    BY <1>1, <1>2 DEF Knows
  <2>3. /\ got.lead = IF lock = "lead" THEN lead ELSE seen[r].lead
        /\ got.review = IF lock = "review" THEN review ELSE seen[r].review
        /\ got.member = IF lock = "actor" THEN member[in.actor] ELSE seen[r].member
        /\ got.company = IF lock = "company" /\ in.op = "convert" THEN Customer(r)
                         ELSE seen[r].company
        /\ lock = "actor" /\ in.op = "resolve" => got.candidates = Candidates
        /\ lock = "lead" => <<"lead">> \in Wanted(r)
        /\ lock = "review" => <<"review">> \in Wanted(r)
        /\ lock = "actor" => <<"workspace">> \in Wanted(r)
    BY <1>1, ReadingParts
  <2>4. /\ n \in 1 .. 7 /\ n <= Length(in.op)
        /\ in.op \in {"lifecycle", "edit", "stage", "hold", "resolve", "convert"}
        /\ n = LeadAt(in.op) <=> lock = "lead"
        /\ in.op \in Reviewed => (n = ReviewAt(in.op) <=> lock = "review")
        /\ n = ActorAt(in.op) => lock = "actor"
        /\ in.op = "convert" => (n = 6 <=> lock = "company")
    BY <1>1, NextLocks
  <2>5. /\ LeadAt(in.op) \in 2 .. 3 /\ ReviewAt(in.op) \in 4 .. 5 /\ ActorAt(in.op) \in 2 .. 6
        /\ in.op = "resolve" => ActorAt(in.op) = 6 /\ Length(in.op) = 6
        /\ in.op = "convert" => LeadAt(in.op) = 3
    BY DEF LeadAt, ReviewAt, ActorAt, Length, Reviewed
  <2>6. Customer(r)' = IF got.lead.company = None THEN NothingSeen.company
                       ELSE company[got.lead.company]
    BY <1>4, <2>1 DEF Customer
  <2>7. Candidates' = Candidates
    BY <2>1 DEF Candidates
  <2> HIDE DEF n, got, lock, in
  <2>8. n + 1 > LeadAt(in.op) => <<"lead">> \in held'[r] /\ got.lead = lead
    BY <1>4, <2>2, <2>3, <2>4, <2>5
  <2>9. in.op \in Reviewed /\ n + 1 > ReviewAt(in.op)
          => <<"review">> \in held'[r] /\ got.review = review
    BY <1>4, <2>2, <2>3, <2>4, <2>5
  <2>10. n + 1 > ActorAt(in.op)
           => <<"workspace">> \in held'[r] /\ got.member = member[in.actor]
    BY <1>4, <2>2, <2>3, <2>4, <2>5
  <2>11. in.op = "resolve" /\ n + 1 > 6 => got.candidates = Candidates
    BY <2>3, <2>4, <2>5
  <2>12. in.op = "convert" /\ n + 1 > 6 => got.company = Customer(r)'
    <3> SUFFICES ASSUME in.op = "convert", n + 1 > 6
                 PROVE  got.company = Customer(r)'
      OBVIOUS
    <3>1. lock # "lead"
      BY <2>4, <2>5
    <3>2. Customer(r)' = Customer(r)
      BY <2>3, <2>6, <3>1 DEF Customer
    <3>3. CASE n = 6
      BY <2>3, <2>4, <3>2, <3>3
    <3>4. CASE n = 7
      BY <2>2, <2>3, <2>4, <3>2, <3>4
    <3> QED BY <2>4, <3>3, <3>4
  <2>13. step'[r] = n + 1 /\ seen'[r] = got /\ n \in Nat
    BY <1>4, <2>4
  <2> QED BY <2>1, <2>2, <2>7, <2>8, <2>9, <2>10, <2>11, <2>12, <2>13 DEF Knows
<1>8. ASSUME NEW q \in Requests, q # r
      PROVE  Knows(q)'
  BY <1>1, <1>4, <1>8, KnowsKept DEF IInv, LocalInv, rows
<1>9. LocalInv'
  BY <1>5, <1>6, <1>7, <1>8 DEF LocalInv
<1> QED BY <1>1, <1>9, NoRowsWritten DEF IInv, RowsTyped
-----------------------------------------------------------------------------
(* The commits. *)

\* Nobody else has locked what a commit writes.
LEMMA CommitKeeps ==
    ASSUME IInv, NEW r \in Requests, Done(r), Close(r), sent' = sent, member' = member,
           Cmd(r).op \notin Reviewed => review' = review
    PROVE  LocalInv'
<1>1. ASSUME NEW q \in Requests, q # r
      PROVE  Knows(q)'
  <2>1. held[r] \cap held[q] = {}
    BY <1>1 DEF IInv, LocalInv, OneHolder
  <2>2. /\ <<"lead">> \notin held[q] /\ <<"workspace">> \notin held[q]
        /\ <<"review">> \in held[q] => review' = review
    BY <2>1, AtCommit
  <2> QED BY <1>1, <2>2, Closed, KnowsKept DEF IInv, LocalInv
<1> QED BY <1>1, Closed DEF LocalInv

\* A command that takes effect has not done so, and shows in the versions.
LEMMA FirstTime ==
    ASSUME IInv, NEW r \in Requests, Done(r), VersionMatches(r),
           Cmd(r).op = "hold" => Cmd(r).review = review.version,
           \/ lead'.version = lead.version + 1 /\ review'.version >= review.version
           \/ /\ Cmd(r).op = "hold" /\ lead'.version = lead.version
              /\ review'.version = review.version + 1,
           review'.version \in Nat, sent' = sent, Counted(r)
    PROVE  EffectsTell' /\ effects' \in [Keys -> 0 .. 1]
<1> DEFINE k == request[r]
<1>1. /\ k \in Keys /\ sent[k] \in Commands /\ Running(r) /\ sent[k] # NoCommand
      /\ lead.version \in Nat /\ review.version \in Nat
      /\ effects \in [Keys -> 0 .. 1] /\ sent \in [Keys -> Commands \cup {NoCommand}]
  BY Busy DEF Done, Cmd, IInv, RowsTyped, LeadRows, ReviewRows
<1>2. sent[k].version = lead.version /\ (sent[k].op = "hold" => sent[k].review = review.version)
  BY DEF VersionMatches, Cmd
<1>3. effects[k] = 0
  <2>1. effects[k] # 1
    BY <1>1, <1>2 DEF IInv, Facts, EffectsTell
  <2> QED BY <1>1, <2>1
<1>4. effects' = [effects EXCEPT ![k] = effects[k] + 1]
  BY DEF Counted
<1> HIDE DEF k
<1>5. effects'[k] = 1 /\ \A j \in Keys \ {k} : effects'[j] = effects[j]
  BY <1>1, <1>3, <1>4
<1>6. effects' \in [Keys -> 0 .. 1]
  BY <1>1, <1>3, <1>4
<1>7. ASSUME NEW j \in Keys, effects'[j] = 1
      PROVE  /\ sent[j] # NoCommand
             /\ \/ lead'.version > sent[j].version
                \/ sent[j].op = "hold" /\ review'.version > sent[j].review
  <2>1. CASE j = k
    BY <1>1, <1>2, <2>1 DEF Cmd, k
  <2>2. CASE j # k
    <3>1. /\ sent[j] # NoCommand /\ sent[j] \in Commands
          /\ \/ lead.version > sent[j].version
             \/ sent[j].op = "hold" /\ review.version > sent[j].review
      BY <1>1, <1>5, <1>7, <2>2 DEF IInv, Facts, EffectsTell
    <3>2. sent[j].version \in Nat /\ (sent[j].op = "hold" => sent[j].review \in Nat)
      BY <3>1, CommandParts DEF Reviewed
    <3>3. /\ lead'.version \in Nat /\ lead'.version >= lead.version
          /\ review'.version >= review.version
      BY <1>1
    <3> QED BY <1>1, <3>1, <3>2, <3>3
  <2> QED BY <2>1, <2>2
<1> QED BY <1>6, <1>7 DEF EffectsTell

\* What a commit needs was so when it was read, and still is.
LEMMA AllowedParts ==
    ASSUME IInv, NEW r \in Requests, NEW op, Commit(r, op)
    PROVE  /\ Done(r) /\ Close(r) /\ Cmd(r).op = op /\ Allowed(r)
           /\ receipts' \subseteq Keys
           /\ sent' = sent /\ recorded' = recorded /\ member' = member
  BY AtCommit DEF Commit, IInv, RowsTyped

LEMMA LifecycleWritten ==
    ASSUME lead \in LeadRows, NEW to \in Lifecycles,
           lead' = [lead EXCEPT !.lifecycle = to, !.version = lead.version + 1]
    PROVE  /\ lead' \in LeadRows /\ lead'.version = lead.version + 1
           /\ lead'.company = lead.company /\ lead'.lifecycle = to
<1>1. lead.version \in Nat
  BY DEF LeadRows
<1>2. PICK n \in Nat : n = lead.version + 1
  BY <1>1
<1>3. lead' = [lead EXCEPT !.lifecycle = to, !.version = n]
  BY <1>2
<1>4. lead' \in LeadRows
  BY <1>3 DEF LeadRows
<1> QED BY <1>2, <1>3, <1>4 DEF LeadRows

LEMMA OwnerWritten ==
    ASSUME lead \in LeadRows, NEW o \in Owners,
           lead' = [lead EXCEPT !.owner = o, !.version = lead.version + 1]
    PROVE  /\ lead' \in LeadRows /\ lead'.version = lead.version + 1
           /\ lead'.company = lead.company /\ lead'.lifecycle = lead.lifecycle
<1>1. lead.version \in Nat
  BY DEF LeadRows
<1>2. PICK n \in Nat : n = lead.version + 1
  BY <1>1
<1>3. lead' = [lead EXCEPT !.owner = o, !.version = n]
  BY <1>2
<1>4. lead' \in LeadRows
  BY <1>3 DEF LeadRows
<1> QED BY <1>2, <1>3, <1>4 DEF LeadRows

LEMMA CompanyWritten ==
    ASSUME lead \in LeadRows, NEW c \in Companies \cup {None},
           lead' = [lead EXCEPT !.company = c, !.version = lead.version + 1]
    PROVE  /\ lead' \in LeadRows /\ lead'.version = lead.version + 1
           /\ lead'.lifecycle = lead.lifecycle
<1>1. lead.version \in Nat
  BY DEF LeadRows
<1>2. PICK n \in Nat : n = lead.version + 1
  BY <1>1
<1>3. lead' = [lead EXCEPT !.company = c, !.version = n]
  BY <1>2
<1>4. lead' \in LeadRows
  BY <1>3 DEF LeadRows
<1> QED BY <1>2, <1>3, <1>4 DEF LeadRows

\* A commit that writes the lead alone.
LEMMA LeadWritten ==
    ASSUME IInv, NEW r \in Requests, NEW op, Commit(r, op), VersionMatches(r), op # "hold",
           lead' \in LeadRows, lead'.version = lead.version + 1,
           lead'.company = lead.company,
           lead'.lifecycle = "converted" <=> lead.lifecycle = "converted",
           UNCHANGED <<review, company, deals>>, Counted(r)
    PROVE  IInv'
<1>1. /\ Done(r) /\ Close(r) /\ Cmd(r).op # "hold" /\ receipts' \subseteq Keys
      /\ sent' = sent /\ recorded' = recorded /\ member' = member
  BY AllowedParts
<1>2. LocalInv'
  BY <1>1, CommitKeeps
<1>3. EffectsTell' /\ effects' \in [Keys -> 0 .. 1]
  BY <1>1, FirstTime DEF IInv, RowsTyped, ReviewRows
<1>4. RowsTyped'
  BY <1>1, <1>3 DEF IInv, RowsTyped
<1>5. Facts'
  <2>1. ReviewedFirst' /\ OneDeal'
    BY DEF IInv, Facts, ReviewedFirst, OneDeal
  <2> QED BY <1>3, <2>1 DEF IInv, Facts
<1> QED BY <1>2, <1>4, <1>5 DEF IInv

\* A commit that keeps all rows.
LEMMA NothingWritten ==
    ASSUME IInv, NEW r \in Requests, NEW op, Commit(r, op),
           UNCHANGED <<lead, review, company, deals, effects>>
    PROVE  IInv'
<1>1. /\ Done(r) /\ Close(r) /\ receipts' \subseteq Keys
      /\ sent' = sent /\ recorded' = recorded /\ member' = member
  BY AllowedParts
<1>2. LocalInv'
  BY <1>1, CommitKeeps
<1>3. RowsTyped'
  BY <1>1 DEF IInv, RowsTyped
<1>4. ReviewedFirst' /\ OneDeal' /\ EffectsTell'
  BY <1>1 DEF IInv, Facts, ReviewedFirst, OneDeal, EffectsTell
<1>5. Facts'
  BY <1>4 DEF IInv, Facts
<1> QED BY <1>2, <1>3, <1>5 DEF IInv

LEMMA MoveStep ==
    ASSUME IInv, NEW r \in Requests,
           MoveLifecycle(r) \/ KeepLifecycle(r) \/ EditOperational(r) \/ MoveStage(r)
    PROVE  IInv'
<1>1. CASE MoveLifecycle(r)
  <2>1. /\ Commit(r, "lifecycle") /\ Done(r) /\ Allowed(r) /\ Cmd(r).op = "lifecycle"
        /\ ~SameLifecycle(r)
        /\ lead' = [lead EXCEPT !.lifecycle = Cmd(r).to, !.version = lead.version + 1]
    BY <1>1, AllowedParts DEF MoveLifecycle
  <2>2. seen[r].lead = lead /\ Cmd(r) \in Commands
    BY <2>1, AtCommit
  <2>3. Cmd(r).to \in Lifecycles \ {"converted"} /\ lead \in LeadRows
    BY <2>1, <2>2, CommandParts DEF IInv, RowsTyped
  <2>4. MayMove(r)
    BY <2>1 DEF Allowed
  <2>5. Cmd(r).to \in Successors[lead.lifecycle] /\ VersionMatches(r)
    BY <2>1, <2>2, <2>4 DEF MayMove
  <2>6. lead.lifecycle # "converted"
    BY <2>5 DEF Successors
  <2>7. /\ lead' \in LeadRows /\ lead'.version = lead.version + 1
        /\ lead'.company = lead.company /\ lead'.lifecycle # "converted"
    BY <2>1, <2>3, LifecycleWritten
  <2> QED BY <1>1, <2>5, <2>6, <2>7, LeadWritten DEF MoveLifecycle
<1>2. CASE KeepLifecycle(r)
  BY <1>2, NothingWritten DEF KeepLifecycle
<1>3. CASE EditOperational(r)
  <2>1. /\ Commit(r, "edit") /\ Done(r) /\ Allowed(r) /\ Cmd(r).op = "edit"
        /\ lead' = [lead EXCEPT !.owner = Cmd(r).owner, !.version = lead.version + 1]
    BY <1>3, AllowedParts DEF EditOperational
  <2>2. Cmd(r).owner \in Owners /\ lead \in LeadRows
    BY <2>1, AtCommit, CommandParts DEF IInv, RowsTyped
  <2>3. VersionMatches(r)
    BY <2>1 DEF Allowed, MayEdit
  <2>4. /\ lead' \in LeadRows /\ lead'.version = lead.version + 1
        /\ lead'.company = lead.company /\ lead'.lifecycle = lead.lifecycle
    BY <2>1, <2>2, OwnerWritten
  <2> QED BY <1>3, <2>3, <2>4, LeadWritten DEF EditOperational
<1>4. CASE MoveStage(r)
  <2>1. Commit(r, "stage") /\ Allowed(r) /\ Cmd(r).op = "stage" /\ lead \in LeadRows
    BY <1>4, AllowedParts DEF MoveStage, IInv, RowsTyped
  <2>2. VersionMatches(r)
    BY <2>1 DEF Allowed
  <2>3. CASE lead' = [lead EXCEPT !.version = lead.version + 1] /\ Counted(r)
    <3>1. /\ lead' \in LeadRows /\ lead'.version = lead.version + 1
          /\ lead'.company = lead.company /\ lead'.lifecycle = lead.lifecycle
      BY <2>1, <2>3 DEF LeadRows
    <3> QED BY <1>4, <2>2, <2>3, <3>1, LeadWritten DEF MoveStage
  <2>4. CASE UNCHANGED <<lead, effects>>
    BY <1>4, <2>4, NothingWritten DEF MoveStage
  <2> QED BY <1>4, <2>3, <2>4 DEF MoveStage
<1> QED BY <1>1, <1>2, <1>3, <1>4

LEMMA HoldStep ==
    ASSUME IInv, NEW r \in Requests, Hold(r)
    PROVE  IInv'
<1>1. /\ Commit(r, "hold") /\ Done(r) /\ Close(r) /\ Allowed(r) /\ Cmd(r).op = "hold"
      /\ receipts' \subseteq Keys
      /\ sent' = sent /\ recorded' = recorded /\ member' = member
      /\ review' = [review EXCEPT !.version = review.version + 1]
      /\ Counted(r) /\ UNCHANGED <<lead, company, deals>>
  BY AllowedParts DEF Hold
<1>2. VersionMatches(r) /\ Cmd(r).review = review.version
  BY <1>1 DEF Allowed, MayDecide
<1>3. /\ review' \in ReviewRows /\ review'.version = review.version + 1
      /\ review'.version \in Nat
      /\ review'.state = review.state /\ review'.company = review.company
  BY <1>1 DEF IInv, RowsTyped, ReviewRows
<1>4. LocalInv'
  BY <1>1, CommitKeeps DEF Reviewed
<1>5. EffectsTell' /\ effects' \in [Keys -> 0 .. 1]
  BY <1>1, <1>2, <1>3, FirstTime
<1>6. RowsTyped'
  BY <1>1, <1>3, <1>5 DEF IInv, RowsTyped
<1>7. ReviewedFirst' /\ OneDeal'
  BY <1>1, <1>3 DEF IInv, Facts, ReviewedFirst, OneDeal
<1>8. Facts'
  BY <1>1, <1>3, <1>5, <1>7 DEF IInv, Facts
<1> QED BY <1>4, <1>6, <1>8 DEF IInv

LEMMA ResolveStep ==
    ASSUME IInv, NEW r \in Requests, Resolve(r)
    PROVE  IInv'
<1>1. /\ Commit(r, "resolve") /\ Done(r) /\ Close(r) /\ Allowed(r) /\ Cmd(r).op = "resolve"
      /\ receipts' \subseteq Keys
      /\ sent' = sent /\ recorded' = recorded /\ member' = member
      /\ Counted(r) /\ deals' = deals
  BY AllowedParts DEF Resolve
<1>2. PICK c \in Companies \cup {None} :
         /\ company' = [d \in Companies |->
              IF d = c /\ Cmd(r).choice = "create" THEN [status |-> "active", version |-> 1]
              ELSE company[d]]
         /\ lead' = [lead EXCEPT !.company = c, !.version = lead.version + 1]
         /\ review' = [state |-> "resolved", version |-> review.version + 1, company |-> c]
  BY DEF Resolve
<1>3. VersionMatches(r) /\ seen[r].review.state = "pending"
  BY <1>1 DEF Allowed, MayResolve, MayDecide
<1>4. review.state = "pending"
  BY <1>1, <1>3, AtCommit DEF Reviewed
<1>5. deals = {}
  BY <1>4 DEF IInv, Facts, ReviewedFirst
<1>6. /\ lead' \in LeadRows /\ lead'.version = lead.version + 1
      /\ lead'.lifecycle = lead.lifecycle
  BY <1>2, CompanyWritten DEF IInv, RowsTyped
<1>7. /\ review' \in ReviewRows /\ review'.version \in Nat
      /\ review'.version >= review.version
  BY <1>2 DEF IInv, RowsTyped, ReviewRows
<1>8. company' \in [Companies -> CompanyRows]
  BY <1>2 DEF IInv, RowsTyped, CompanyRows
<1>9. LocalInv'
  BY <1>1, CommitKeeps DEF Reviewed
<1>10. EffectsTell' /\ effects' \in [Keys -> 0 .. 1]
  BY <1>1, <1>3, <1>6, <1>7, FirstTime
<1>11. RowsTyped'
  BY <1>1, <1>6, <1>7, <1>8, <1>10 DEF IInv, RowsTyped
<1>12. Facts'
  BY <1>1, <1>5, <1>6, <1>10 DEF IInv, Facts, ReviewedFirst, OneDeal
<1> QED BY <1>9, <1>11, <1>12 DEF IInv

LEMMA ConvertStep ==
    ASSUME IInv, NEW r \in Requests, Convert(r)
    PROVE  IInv'
<1> DEFINE in == Cmd(r)
           new == [company |-> in.company, owner |-> in.owner,
                   source |-> in.version, by |-> in.actor]
<1>1. /\ Commit(r, "convert") /\ Done(r) /\ Close(r) /\ Allowed(r) /\ in.op = "convert"
      /\ receipts' \subseteq Keys
      /\ sent' = sent /\ recorded' = recorded /\ member' = member
      /\ lead' = [lead EXCEPT !.lifecycle = "converted", !.version = lead.version + 1]
      /\ deals' = deals \cup {new}
      /\ Counted(r) /\ UNCHANGED <<review, company>>
  BY AllowedParts DEF Convert, ConvertedLead
<1>2. Eligible(r) /\ SamePreview(r)
  BY <1>1 DEF Allowed, MayConvert
<1>3. seen[r].lead = lead /\ seen[r].review = review /\ in \in Commands
  BY <1>1, AtCommit DEF Reviewed
<1>4. /\ deals = {} /\ review.state = "resolved" /\ review.company = lead.company
      /\ lead.owner # None
  BY <1>2, <1>3 DEF Eligible
<1>5. /\ VersionMatches(r) /\ in.company = lead.company /\ in.owner = lead.owner
  BY <1>2, <1>3 DEF SamePreview, SameCompany
<1>6. in.company \in Companies /\ in.version \in Nat /\ in.actor \in Members
  BY <1>1, <1>3, CommandParts
<1>7. in.owner \in Members
  BY <1>4, <1>5 DEF IInv, RowsTyped, LeadRows, Owners
<1>8. deals' = {new} /\ new.company = lead.company
  BY <1>1, <1>4, <1>5
<1>9. new \in [company : Companies, owner : Members, source : Nat, by : Members]
  BY <1>6, <1>7
<1> HIDE DEF new
<1>10. /\ lead' \in LeadRows /\ lead'.version = lead.version + 1
       /\ lead'.company = lead.company /\ lead'.lifecycle = "converted"
  BY <1>1, LifecycleWritten DEF IInv, RowsTyped, Lifecycles
<1>11. LocalInv'
  BY <1>1, CommitKeeps DEF Reviewed
<1>12. EffectsTell' /\ effects' \in [Keys -> 0 .. 1]
  BY <1>1, <1>5, <1>10, FirstTime DEF IInv, RowsTyped, ReviewRows
<1>13. RowsTyped'
  BY <1>1, <1>8, <1>9, <1>10, <1>12 DEF IInv, RowsTyped
<1>14. ReviewedFirst' /\ OneDeal'
  BY <1>1, <1>4, <1>8 DEF ReviewedFirst, OneDeal
<1>15. Facts'
  BY <1>1, <1>4, <1>8, <1>10, <1>12, <1>14 DEF Facts
<1> QED BY <1>11, <1>13, <1>15 DEF IInv
-----------------------------------------------------------------------------
(* The surroundings. *)

LEMMA SurroundingsStep ==
    ASSUME IInv,
           \/ \E m \in Members : MembershipChanges(m)
           \/ \E c \in Companies : CompanyChanges(c)
           \/ \E k \in Keys : ReceiptExpires(k)
    PROVE  IInv'
<1>1. /\ UNCHANGED <<lead, review, recorded, deals, sent, local, effects>>
      /\ \/ UNCHANGED <<member, company>>
         \/ \A q \in Requests : <<"workspace">> \notin held[q]
  BY DEF MembershipChanges, CompanyChanges, ReceiptExpires, Free
<1>2. member' \in [Members -> MemberRows]
  BY LeadAssumption DEF MembershipChanges, CompanyChanges, ReceiptExpires, IInv, RowsTyped
<1>3. company' \in [Companies -> CompanyRows]
  <2>1. CASE \E c \in Companies : CompanyChanges(c)
    <3>1. PICK c \in Companies, status \in {"active", "archived"} :
             company' = [company EXCEPT ![c] = [status |-> status,
                                                version |-> company[c].version + 1]]
      BY <2>1 DEF CompanyChanges
    <3> QED BY <3>1 DEF IInv, RowsTyped, CompanyRows
  <2>2. CASE company' = company
    BY <2>2 DEF IInv, RowsTyped
  <2> QED BY <2>1, <2>2 DEF MembershipChanges, ReceiptExpires
<1>4. receipts' \subseteq Keys
  BY DEF MembershipChanges, CompanyChanges, ReceiptExpires, IInv, RowsTyped
<1>5. RowsTyped'
  BY <1>1, <1>2, <1>3, <1>4 DEF IInv, RowsTyped
<1>6. LocalTyped' /\ OneHolder'
  BY <1>1 DEF IInv, LocalInv, LocalTyped, OneHolder, Running, local
<1>7. ASSUME NEW q \in Requests PROVE Knows(q)'
  <2>1. Same(q) /\ step[q] \in Nat
    BY <1>1 DEF Same, local, IInv, LocalInv, LocalTyped
  <2> QED BY <1>1, <2>1, KnowsKept DEF IInv, LocalInv
<1>8. ReviewedFirst' /\ OneDeal' /\ EffectsTell'
  BY <1>1 DEF IInv, Facts, ReviewedFirst, OneDeal, EffectsTell
<1>9. Facts'
  BY <1>1, <1>8 DEF IInv, Facts
<1> QED BY <1>5, <1>6, <1>7, <1>9 DEF IInv, LocalInv
-----------------------------------------------------------------------------
(* The theorems. *)

LEMMA InitInv == Init => IInv
<1> SUFFICES ASSUME Init PROVE IInv
  OBVIOUS
<1>1. /\ lead \in LeadRows /\ review \in ReviewRows /\ lead.lifecycle # "converted"
      /\ company \in [Companies -> CompanyRows]
  BY LeadAssumption DEF Init
<1>2. /\ recorded = Candidates /\ deals = {} /\ receipts = {}
      /\ member = [m \in Members |->
                     [active |-> TRUE, role |-> IF m = Owner THEN "owner" ELSE "member"]]
      /\ sent = [k \in Keys |-> NoCommand] /\ effects = [k \in Keys |-> 0]
      /\ request = [r \in Requests |-> None] /\ step = [r \in Requests |-> 0]
      /\ held = [r \in Requests |-> {}] /\ seen = [r \in Requests |-> NothingSeen]
  BY DEF Init
<1>3. RowsTyped
  <2>1. Candidates \subseteq [id : Companies, version : Nat]
    BY <1>1 DEF Candidates, CompanyRows
  <2>2. member \in [Members -> MemberRows]
    BY <1>2 DEF MemberRows
  <2> QED BY <1>1, <1>2, <2>1, <2>2 DEF RowsTyped
<1>4. NothingSeen \in SeenRows
  BY DEF NothingSeen, SeenRows, LeadRows, ReviewRows, CompanyRows, MemberRows, Lifecycles, Owners
<1>5. LocalInv
  BY <1>2, <1>4 DEF LocalInv, LocalTyped, OneHolder, Knows, Running
<1>6. Facts
  BY <1>1, <1>2 DEF Facts, ReviewedFirst, OneDeal, EffectsTell
<1> QED BY <1>3, <1>5, <1>6 DEF IInv

LEMMA NextInv == IInv /\ [Next]_vars => IInv'
<1> SUFFICES ASSUME IInv, [Next]_vars PROVE IInv'
  OBVIOUS
<1>1. CASE UNCHANGED vars
  <2>1. LocalTyped' /\ OneHolder'
    BY <1>1 DEF vars, local, IInv, LocalInv, LocalTyped, Running, OneHolder
  <2>2. ASSUME NEW q \in Requests PROVE Knows(q)'
    <3>1. Same(q) /\ step[q] \in Nat
      BY <1>1 DEF vars, local, Same, IInv, LocalInv, LocalTyped
    <3> QED BY <1>1, <3>1, KnowsKept DEF vars, rows, IInv, LocalInv
  <2>3. UNCHANGED <<rows, effects>> /\ LocalInv' /\ sent' = sent
    BY <1>1, <2>1, <2>2 DEF vars, LocalInv
  <2> QED BY <2>3, NoRowsWritten DEF IInv, RowsTyped
<1>2. ASSUME NEW r \in Requests, Submit(r) \/ Repeat(r)
      PROVE  IInv'
  BY <1>2, SubmitStep
<1>3. ASSUME NEW r \in Requests, Take(r)
      PROVE  IInv'
  BY <1>3, TakeStep
<1>4. ASSUME NEW r \in Requests, Answer(r) \/ Abandon(r) \/ BreakDeadlock(r)
      PROVE  IInv'
  BY <1>4, CloseStep DEF Answer, Abandon, BreakDeadlock
<1>5. ASSUME NEW r \in Requests, Effect(r)
      PROVE  IInv'
  BY <1>5, MoveStep, HoldStep, ResolveStep, ConvertStep DEF Effect
<1> QED BY <1>1, <1>2, <1>3, <1>4, <1>5, SurroundingsStep DEF Next

LEMMA AlwaysInv == Spec => []IInv
  BY InitInv, NextInv, PTL DEF Spec

\* Type correctness; and a command takes effect once at most, however often it
\* is sent and whether or not its stored outcome has expired.
THEOREM TypeCorrect == Spec => []TypeOK
<1>1. IInv => TypeOK
  <2> SUFFICES ASSUME IInv PROVE TypeOK
    OBVIOUS
  <2>1. RowsTyped /\ LocalTyped
    BY DEF IInv, LocalInv
  <2>2. \A r \in Requests : /\ seen[r].lead \in LeadRows /\ seen[r].review \in ReviewRows
                            /\ seen[r].member \in MemberRows /\ seen[r].company \in CompanyRows
    BY <2>1 DEF LocalTyped, SeenRows
  <2> QED BY <2>1, <2>2 DEF TypeOK, RowsTyped, LocalTyped
<1> QED BY <1>1, AlwaysInv, PTL

\* A lead is converted exactly if there is a deal made from it, there is only
\* one, and it names the company that the review chose and the lead links.
THEOREM ConvertedOnce == Spec => []DealMatchesLead
<1>1. IInv => DealMatchesLead
  <2> SUFFICES ASSUME IInv PROVE DealMatchesLead
    OBVIOUS
  <2>1. Cardinality(deals) <= 1
    <3>1. CASE deals = {}
      BY <3>1, FS_EmptySet
    <3>2. ASSUME NEW d \in deals, deals = {d}
          PROVE  Cardinality(deals) <= 1
      BY <3>2, FS_Singleton
    <3> QED BY <3>1, <3>2 DEF IInv, Facts, OneDeal
  <2> QED BY <2>1 DEF IInv, Facts, DealMatchesLead
<1> QED BY <1>1, AlwaysInv, PTL

\* Every change rests on facts that hold at its commit: its member is active
\* and has the right to it, an identity is decided with every candidate on the
\* table, and a deal is made of what its user saw in the preview.
THEOREM CommitsAreCurrent == Spec => ChangesAreCurrent
<1> DEFINE Current ==
      \A r \in Requests :
         LET in == Cmd(r)
             m == member[in.actor] IN
         /\ Effect(r) =>
              /\ m.active
              /\ Privileged(m) \/ (in.op # "edit" /\ lead.owner = in.actor)
              /\ lead.lifecycle = "disqualified" /\ lead'.lifecycle = "working" => Privileged(m)
              /\ in.op = "resolve" /\ in.choice \in Companies => Privileged(m)
         /\ Resolve(r) => Candidates = recorded
         /\ Convert(r) =>
              /\ in.version = lead.version /\ in.owner = lead.owner
              /\ in.review = review.version /\ in.company = lead.company
              /\ company[in.company] = [status |-> "active", version |-> in.companyVersion]
<1>1. ASSUME IInv, NEW r \in Requests, Effect(r)
      PROVE  LET in == Cmd(r)
                 m == member[in.actor] IN
             /\ m.active
             /\ Privileged(m) \/ (in.op # "edit" /\ lead.owner = in.actor)
             /\ lead.lifecycle = "disqualified" /\ lead'.lifecycle = "working" => Privileged(m)
             /\ in.op = "resolve" /\ in.choice \in Companies => Privileged(m)
  <2> DEFINE in == Cmd(r)
             m == member[in.actor]
  <2>1. Done(r) /\ Allowed(r)
    BY <1>1 DEF Effect, MoveLifecycle, KeepLifecycle, EditOperational, MoveStage, Hold,
                Resolve, Convert, Commit
  <2>2. /\ seen[r].lead = lead /\ seen[r].member = m /\ in \in Commands
    BY <1>1, <2>1, AtCommit
  <2>3. in.op \in {"lifecycle", "edit", "stage", "hold", "resolve", "convert"}
    BY <2>2, CommandParts
  <2>4. CASE in.op = "lifecycle"
    <3>1. MayMove(r)
      BY <2>1, <2>4 DEF Allowed
    <3>2. MoveLifecycle(r) \/ KeepLifecycle(r)
      BY <1>1, <2>4 DEF Effect, EditOperational, MoveStage, Hold, Resolve, Convert, Commit
    <3> QED BY <2>2, <2>4, <3>1 DEF MayMove, MayAct
  <2>5. CASE in.op = "edit"
    <3>1. EditOperational(r) /\ MayEdit(r)
      BY <1>1, <2>1, <2>5 DEF Allowed, Effect, MoveLifecycle, KeepLifecycle, MoveStage, Hold,
                              Resolve, Convert, Commit
    <3> QED BY <2>2, <2>5, <3>1 DEF MayEdit
  <2>6. CASE in.op \in {"stage", "hold", "resolve", "convert"}
    <3>1. MayAct(r)
      BY <2>1, <2>6 DEF Allowed, MayDecide, MayResolve, MayConvert
    <3>2. in.op = "resolve" /\ in.choice \in Companies => Privileged(m)
      BY <2>1, <2>2 DEF Allowed, MayResolve
    <3>3. lead'.lifecycle = lead.lifecycle \/ lead'.lifecycle = "converted"
      <4>1. MoveStage(r) \/ Hold(r) \/ Resolve(r) \/ Convert(r)
        BY <1>1, <2>6 DEF Effect, MoveLifecycle, KeepLifecycle, EditOperational, Commit
      <4>2. lead \in LeadRows
        BY <1>1 DEF IInv, RowsTyped
      <4> QED BY <4>1, <4>2 DEF MoveStage, Hold, Resolve, Convert, ConvertedLead, LeadRows
    <3> QED BY <2>2, <2>6, <3>1, <3>2, <3>3 DEF MayAct
  <2> QED BY <2>3, <2>4, <2>5, <2>6
<1>2. ASSUME IInv, NEW r \in Requests, Resolve(r)
      PROVE  Candidates = recorded
  <2>1. Done(r) /\ Cmd(r).op = "resolve" /\ Allowed(r)
    BY <1>2 DEF Resolve, Commit
  <2> QED BY <1>2, <2>1, AtCommit DEF Allowed, MayResolve
<1>3. ASSUME IInv, NEW r \in Requests, Convert(r)
      PROVE  LET in == Cmd(r) IN
             /\ in.version = lead.version /\ in.owner = lead.owner
             /\ in.review = review.version /\ in.company = lead.company
             /\ company[in.company] = [status |-> "active", version |-> in.companyVersion]
  <2>1. Done(r) /\ Cmd(r).op = "convert" /\ Allowed(r)
    BY <1>3 DEF Convert, Commit
  <2>2. Eligible(r) /\ SamePreview(r)
    BY <2>1 DEF Allowed, MayConvert
  <2>3. /\ seen[r].lead = lead /\ seen[r].review = review /\ seen[r].company = Customer(r)
        /\ Cmd(r) \in Commands
    BY <1>3, <2>1, AtCommit DEF Reviewed
  <2>4. /\ lead.company # None /\ Cmd(r).company = lead.company
        /\ seen[r].company.status = "active" /\ Cmd(r).companyVersion = seen[r].company.version
    BY <2>2, <2>3 DEF Eligible, SamePreview, SameCompany
  <2>5. seen[r].company = company[lead.company] /\ company[lead.company] \in CompanyRows
    BY <1>3, <2>3, <2>4 DEF Customer, IInv, RowsTyped, LeadRows
  <2> QED BY <2>2, <2>3, <2>4, <2>5 DEF SamePreview, VersionMatches, CompanyRows
<1>4. IInv => Current
  BY <1>1, <1>2, <1>3
<1>5. IInv /\ [Next]_vars => [Current]_vars
  BY <1>4
<1> HIDE DEF Current
<1>6. Spec => [][Current]_vars
  BY <1>5, AlwaysInv, PTL DEF Spec
<1> QED BY <1>6 DEF Current, ChangesAreCurrent
=============================================================================
