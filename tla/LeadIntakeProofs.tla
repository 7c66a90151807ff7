-------------------------- MODULE LeadIntakeProofs --------------------------
(***************************************************************************)
(* Proofs about LeadIntake, for any members, contacts, leads, marks,       *)
(* commands and requests, and in the second part about the form its        *)
(* commands are written in, ScreenForm.                                    *)
(*                                                                         *)
(* Knows says what a request that got so far in its plan has read and is   *)
(* still so, because it holds the locks: that its key has made nothing     *)
(* yet, the lead and its review, the member, the company and the contact.  *)
(* A search is different, since no lock covers the rows it does not find:  *)
(* what it has found contains all contacts that decisions have made with   *)
(* the marks that were searched, because whoever makes one holds the locks *)
(* of its marks.                                                           *)
(*                                                                         *)
(* Of the form, FormInv says what its page may rely on while its requests  *)
(* are under way: what each may still answer, that one of them settles an  *)
(* unsettled option, that a text it merely showed still belongs to its     *)
(* version, and that the last body submitted is the one under its last     *)
(* key.                                                                    *)
(***************************************************************************)
EXTENDS LeadIntake, FiniteSetTheorems, NaturalsInduction, WellFoundedInduction, TLAPS

\* Commands of the clients, whatever the contents.
Commands ==
    {in \in [op : Ops, actor : Members, lead : Leads \cup {None}, leadVersion : Nat,
             reviewVersion : Nat, marks : SUBSET Marks, companyVersion : Nat,
             responsible : Members \cup {None}, action : {None, "link", "create", "dismiss"},
             target : Contacts \cup {None}, targetVersion : Nat] :
       /\ in.op \in {"edit", "hold", "resolve"} => in.lead \in Leads
       /\ in.action # None => in.op = "resolve"
       /\ in.action = "link" <=> in.target # None}

SeenRows == [receipt : BOOLEAN, lead : LeadRows, review : ReviewRows,
             found : SUBSET Candidates, fresh : BOOLEAN, final : BOOLEAN,
             assigned : BOOLEAN, company : BOOLEAN, member : MemberRows]

RowsTyped ==
    /\ contact \in [Contacts -> ContactRows]
    /\ company \in [active : BOOLEAN, version : Nat]
    /\ lead \in [Leads -> LeadRows]
    /\ review \in [Leads -> ReviewRows]
    /\ head \in [Leads -> Decisions]
    /\ decided \subseteq Keys /\ receipts \subseteq Keys
    /\ member \in [Members -> MemberRows]

LocalTyped ==
    /\ request \in [Requests -> Keys \cup {None}]
    /\ step \in [Requests -> 0 .. 7]
    /\ held = [r \in Requests |-> held[r]]
    /\ seen \in [Requests -> SeenRows]
    /\ \A r \in Requests : ~Running(r) => held[r] = {} /\ seen[r] = NothingSeen

OneHolder == \A r, q \in Requests : r # q => held[r] \cap held[q] = {}

\* Commands about a lead name one that is there.
SentSound ==
    /\ sent \in [Keys -> Commands \cup {NoCommand}]
    /\ \A k \in Keys : sent[k] # NoCommand /\ sent[k].op \in {"edit", "hold", "resolve"}
                         => lead[sent[k].lead].made # None

\* The columns of lead x, its review v and the decision h.
Agree(x, v, h) ==
    /\ x.made = None => x = NoLead /\ v = NoReview
    /\ x.form => x.query = {}
    /\ x.made # None =>
         /\ x.status = "pending" <=> v.state = "pending"
         /\ v.state = "pending" => v.offered # {}
         /\ v.state = "resolved" => h = [outcome |-> "resolve", contact |-> x.contact]
         /\ v.state = "pending" /\ ~x.form => x.query = x.marks /\ h.outcome = "hold"

LeadsAgree == \A l \in Leads : Agree(lead[l], review[l], head[l])

\* A key makes one lead and one contact.
OncePerKey ==
    /\ \A k \in Keys : \A l, m \in Leads : lead[l].made = k /\ lead[m].made = k => l = m
    /\ \A k \in Keys : \A c, d \in Contacts : contact[c].by = k /\ contact[d].by = k => c = d

ContactsSound == \A c \in Contacts :
    /\ contact[c].by # None => contact[c].by \in decided
    /\ contact[c].life # "absent" => contact[c].version > 0

\* Contacts with one of the marks as a decision has made them.
Made(marks) == {f \in Found(marks) : contact[f.contact].by # None /\ f.version = 1}

MadeWith(k) == {l \in Leads : lead[l].made = k}

HoldsMarks(r, marks) == \A x \in marks : <<"mark", x>> \in held[r]

HasKey(r) == step[r] > 1 =>
    /\ <<"key", request[r]>> \in held[r]
    /\ Cmd(r).op = "inquiry" => (seen[r].receipt <=> MadeWith(request[r]) # {})
    /\ Decides(r) /\ ~seen[r].receipt => request[r] \notin decided

HasLead(r) == (Decides(r) \/ (Cmd(r).op = "edit" /\ ~seen[r].receipt)) /\ step[r] > 2 =>
    /\ <<"lead", Cmd(r).lead>> \in held[r]
    /\ seen[r].lead = lead[Cmd(r).lead]

HasReview(r) == Decides(r) /\ step[r] > 3 =>
    /\ <<"review", Cmd(r).lead>> \in held[r]
    /\ seen[r].review = review[Cmd(r).lead]

Resolves(r) == Cmd(r).op = "resolve" /\ ~seen[r].receipt

HasMember(r) == Decides(r) /\ step[r] > 4 /\ (Resolves(r) => step[r] > 6) =>
    /\ <<"member", Cmd(r).actor>> \in held[r]
    /\ seen[r].member = member[Cmd(r).actor]

\* The search has found what decisions have made.
HasMarks(r) ==
    /\ Cmd(r).op = "inquiry" /\ ~seen[r].receipt /\ step[r] > 2 =>
         HoldsMarks(r, Cmd(r).marks) /\ Made(Cmd(r).marks) \subseteq seen[r].found
    /\ Resolves(r) /\ Cmd(r).action = "create" /\ step[r] > 4 =>
         HoldsMarks(r, seen[r].lead.query) /\ Made(seen[r].lead.query) \subseteq seen[r].found

HasContacts(r) == Resolves(r) /\ step[r] > 5 /\ seen[r].fresh =>
    /\ seen[r].found = seen[r].review.offered
    /\ Cmd(r).target # None => /\ <<"contact", Cmd(r).target>> \in held[r]
                               /\ Current(Cmd(r).target, Cmd(r).targetVersion)

HasCompany(r) == Cmd(r).op \in {"create", "edit"} /\ ~seen[r].receipt
                 /\ step[r] > (IF Cmd(r).op = "create" THEN 3 ELSE 4) /\ seen[r].company =>
    /\ <<"company">> \in held[r]
    /\ company = [active |-> TRUE, version |-> Cmd(r).companyVersion]

\* What request r has read and is still so.
Knows(r) == Running(r) =>
    /\ Cmd(r) # NoCommand /\ step[r] > 0
    /\ HasKey(r) /\ HasLead(r) /\ HasReview(r) /\ HasMember(r)
    /\ HasMarks(r) /\ HasContacts(r) /\ HasCompany(r)

IInv == /\ RowsTyped /\ LocalTyped /\ OneHolder
        /\ SentSound
        /\ LeadsAgree /\ OncePerKey /\ ContactsSound
        /\ \A r \in Requests : Knows(r)
-----------------------------------------------------------------------------
(* Commands and their plans. *)

LEMMA CommandParts ==
    ASSUME NEW in \in Commands
    PROVE  /\ in.op \in Ops /\ in.actor \in Members /\ in.lead \in Leads \cup {None}
           /\ in.marks \in SUBSET Marks /\ in.responsible \in Members \cup {None}
           /\ in.action \in {None, "link", "create", "dismiss"}
           /\ in.target \in Contacts \cup {None} /\ in.targetVersion \in Nat
           /\ in.companyVersion \in Nat
           /\ in.op \in {"edit", "hold", "resolve"} => in.lead \in Leads
           /\ in.action # None => in.op = "resolve"
           /\ in.action = "link" <=> in.target # None
  BY DEF Commands

LEMMA RowParts ==
    ASSUME RowsTyped, NEW l \in Leads
    PROVE  /\ lead[l] \in LeadRows /\ lead[l].version \in Nat
           /\ review[l] \in ReviewRows /\ review[l].version \in Nat
           /\ review[l].offered \subseteq Candidates
  BY DEF RowsTyped, LeadRows, ReviewRows

\* A review that is pending is one of a lead that is there.
LEMMA PendingMeansMade ==
    ASSUME LeadsAgree, NEW l \in Leads, review[l].state = "pending"
    PROVE  lead[l].made # None
<1>1. lead[l].made = None => review[l] = NoReview
  BY DEF LeadsAgree, Agree
<1>2. NoReview.state = "none"
  BY DEF NoReview
<1> QED BY <1>1, <1>2

LEMMA AboutParts ==
    ASSUME NEW op, NEW m, NEW l
    PROVE  About(op, m, l) =
             [op |-> op, actor |-> m, lead |-> l, leadVersion |-> lead[l].version,
              reviewVersion |-> review[l].version, marks |-> {}, companyVersion |-> 0,
              responsible |-> None, action |-> None, target |-> None, targetVersion |-> 0]
<1> DEFINE full == [op |-> op, actor |-> m, lead |-> l, leadVersion |-> lead[l].version,
                    reviewVersion |-> review[l].version, marks |-> {}, companyVersion |-> 0,
                    responsible |-> None, action |-> None, target |-> None,
                    targetVersion |-> 0]
           all == [op : {op}, actor : {m}, lead : {l}, leadVersion : {lead[l].version},
                   reviewVersion : {review[l].version}, marks : {{}}, companyVersion : {0},
                   responsible : {None}, action : {None}, target : {None},
                   targetVersion : {0}]
<1>1. About(op, m, l) \in all
  BY DEF About, NewCommand
<1> HIDE DEF About
<1>2. full \in all
  OBVIOUS
<1> QED BY <1>1, <1>2

LEMMA OfferedParts ==
    ASSUME RowsTyped, LeadsAgree, NEW op \in Ops, NEW m \in Members, NEW in \in Offered(op, m)
    PROVE  /\ in \in Commands
           /\ in.op \in {"edit", "hold", "resolve"} => lead[in.lead].made # None
<1> USE IntakeAssumption
<1>1. CASE op = "inquiry"
  <2>1. PICK p \in Persons : in \in Asked(NewCommand(op, m), p)
    BY <1>1 DEF Offered
  <2>2. PICK x \in Assigned : in = [NewCommand(op, m) EXCEPT !.marks = p, !.responsible = x]
    BY <2>1 DEF Asked
  <2>3. in = [op |-> op, actor |-> m, lead |-> None, leadVersion |-> 0, reviewVersion |-> 0,
              marks |-> p, companyVersion |-> 0, responsible |-> x, action |-> None,
              target |-> None, targetVersion |-> 0]
    BY <2>2 DEF NewCommand
  <2> QED BY <1>1, <2>3 DEF Commands, Ops, None
<1>2. CASE op = "create"
  <2>1. PICK p \in Persons : in \in Filled(NewCommand(op, m), p)
    BY <1>2 DEF Offered
  <2>2. PICK x \in Assigned : in = [NewCommand(op, m) EXCEPT !.marks = p,
                                      !.companyVersion = company.version, !.responsible = x]
    BY <2>1 DEF Filled
  <2>3. in = [op |-> op, actor |-> m, lead |-> None, leadVersion |-> 0, reviewVersion |-> 0,
              marks |-> p, companyVersion |-> company.version, responsible |-> x,
              action |-> None, target |-> None, targetVersion |-> 0]
    BY <2>2 DEF NewCommand
  <2>4. company.version \in Nat
    BY DEF RowsTyped
  <2> QED BY <1>2, <2>3, <2>4 DEF Commands, Ops, None
<1>3. CASE op = "edit"
  <2>1. PICK l \in {x \in Leads : lead[x].made # None}, p \in Persons :
          in \in Filled(About(op, m, l), p)
    BY <1>3 DEF Offered
  <2>2. PICK x \in Assigned : in = [About(op, m, l) EXCEPT !.marks = p,
                                      !.companyVersion = company.version, !.responsible = x]
    BY <2>1 DEF Filled
  <2>3. in = [op |-> op, actor |-> m, lead |-> l, leadVersion |-> lead[l].version,
              reviewVersion |-> review[l].version, marks |-> p,
              companyVersion |-> company.version, responsible |-> x,
              action |-> None, target |-> None, targetVersion |-> 0]
    BY <2>2, AboutParts
  <2>4. company.version \in Nat
    BY DEF RowsTyped
  <2> QED BY <1>3, <2>1, <2>3, <2>4, RowParts DEF Commands, Ops, None
<1>4. CASE op = "hold"
  <2>1. PICK l \in Queue(m) : in = About(op, m, l)
    BY <1>4 DEF Offered
  <2>2. l \in Leads /\ lead[l].made # None
    BY <2>1, PendingMeansMade DEF Queue
  <2> QED BY <1>4, <2>1, <2>2, AboutParts, RowParts DEF Commands, Ops, None
<1>5. CASE op = "resolve"
  <2>1. PICK l \in Queue(m) : in \in Resolutions(m, l)
    BY <1>5 DEF Offered
  <2>2. l \in Leads /\ lead[l].made # None
    BY <2>1, PendingMeansMade DEF Queue
  <2>3. CASE \E a \in {"create", "dismiss"} : in = [About("resolve", m, l) EXCEPT !.action = a]
    <3>1. PICK a \in {"create", "dismiss"} : in = [About("resolve", m, l) EXCEPT !.action = a]
      BY <2>3
    <3>2. in = [op |-> op, actor |-> m, lead |-> l, leadVersion |-> lead[l].version,
                reviewVersion |-> review[l].version, marks |-> {}, companyVersion |-> 0,
                responsible |-> None, action |-> a, target |-> None, targetVersion |-> 0]
      BY <1>5, <3>1, AboutParts
    <3> QED BY <1>5, <2>2, <3>1, <3>2, RowParts DEF Commands, Ops, None
  <2>4. CASE \E f \in Presented(l) : in = [About("resolve", m, l) EXCEPT !.action = "link",
                                             !.target = f.contact, !.targetVersion = f.version]
    <3>1. PICK f \in Presented(l) : in = [About("resolve", m, l) EXCEPT !.action = "link",
                                            !.target = f.contact, !.targetVersion = f.version]
      BY <2>4
    <3>2. in = [op |-> op, actor |-> m, lead |-> l, leadVersion |-> lead[l].version,
                reviewVersion |-> review[l].version, marks |-> {}, companyVersion |-> 0,
                responsible |-> None, action |-> "link", target |-> f.contact,
                targetVersion |-> f.version]
      BY <1>5, <3>1, AboutParts
    <3>3. f \in Candidates
      BY <2>2, <3>1, RowParts DEF Presented
    <3>4. f.contact \in Contacts /\ f.version \in Nat
      BY <3>3 DEF Candidates
    <3> QED BY <1>5, <2>2, <3>2, <3>4, RowParts DEF Commands, Ops, None
  <2> QED BY <2>1, <2>3, <2>4 DEF Resolutions
<1> QED BY <1>1, <1>2, <1>3, <1>4, <1>5 DEF Ops

\* A running request has a command of its key.
LEMMA Busy ==
    ASSUME LocalTyped, SentSound, NEW r \in Requests, Running(r), Knows(r)
    PROVE  /\ request[r] \in Keys /\ Cmd(r) \in Commands /\ step[r] \in 1 .. 7
           /\ seen[r] \in SeenRows
           /\ Cmd(r).op \in {"edit", "hold", "resolve"} =>
                Cmd(r).lead \in Leads /\ lead[Cmd(r).lead].made # None
<1>1. request[r] \in Keys /\ step[r] \in 1 .. 7 /\ seen[r] \in SeenRows
  BY DEF LocalTyped, Running, Knows
<1>2. Cmd(r) # NoCommand /\ Cmd(r) = sent[request[r]]
  BY DEF Knows, Cmd
<1> QED BY <1>1, <1>2, CommandParts DEF SentSound

LockNames == {"key", "lead", "review", "marks", "contacts", "assignment", "company", "actor"}

\* The lock that comes next, by the step.
LEMMA NextLocks ==
    ASSUME NEW r \in Requests, Cmd(r) \in Commands, step[r] \in 1 .. 7, Running(r), ~Done(r)
    PROVE  /\ step[r] <= 6 /\ NextLock(r) \in LockNames
           /\ NextLock(r) = "key" <=> step[r] = 1
           /\ step[r] > 1 /\ seen[r].receipt => ~(Cmd(r).op \in {"create", "edit"})
           /\ Cmd(r).op = "inquiry" /\ step[r] = 2 =>
                NextLock(r) = IF seen[r].receipt THEN "lead" ELSE "marks"
           /\ Decides(r) =>
                /\ step[r] = 2 <=> NextLock(r) = "lead"
                /\ step[r] = 3 <=> NextLock(r) = "review"
                /\ NextLock(r) = "actor" <=> step[r] = IF Resolves(r) THEN 6 ELSE 4
                /\ step[r] = 4 /\ Resolves(r) => NextLock(r) = "marks"
                /\ step[r] = 5 => NextLock(r) = "contacts" /\ Resolves(r)
           /\ Cmd(r).op = "edit" => (step[r] = 2 <=> NextLock(r) = "lead")
           /\ Cmd(r).op \in {"create", "edit"} =>
                (step[r] = (IF Cmd(r).op = "create" THEN 3 ELSE 4) <=> NextLock(r) = "company")
           /\ NextLock(r) = "company" => Cmd(r).op \in {"create", "edit"}
           /\ NextLock(r) = "lead" => Cmd(r).op # "create"
                /\ (Cmd(r).op = "inquiry" => seen[r].receipt /\ step[r] > 1)
           /\ NextLock(r) = "review" => Cmd(r).op \in {"edit", "hold", "resolve"}
           /\ NextLock(r) = "marks" => ~seen[r].receipt /\
                ((Cmd(r).op = "inquiry" /\ step[r] = 2) \/ (Resolves(r) /\ step[r] = 4))
           /\ NextLock(r) = "contacts" => (Resolves(r) /\ step[r] = 5)
                \/ Cmd(r).op \in {"inquiry", "create"}
<1> DEFINE op == Cmd(r).op
           p == Plan(r)
           n == step[r]
<1>1. op \in Ops
  BY CommandParts
<1>2. n \in 1 .. Len(p) /\ NextLock(r) = p[n] /\ (Decides(r) <=> op \in {"hold", "resolve"})
      /\ (Resolves(r) <=> op = "resolve" /\ ~seen[r].receipt)
  <2>1. ~(n > Len(p))
    BY DEF Done
  <2>2. Len(p) \in Nat
    BY <1>1 DEF Plan, Ops
  <2> QED BY <2>1, <2>2 DEF NextLock, Decides, Resolves
<1> DEFINE lock == NextLock(r)
<1>3. CASE seen[r].receipt /\ op \in {"create", "edit"}
  <2>1. p = <<"key">>
    BY <1>3 DEF Plan
  <2>2. n = 1 /\ lock = "key"
    BY <1>2, <2>1
  <2> QED BY <1>2, <1>3, <2>2 DEF LockNames
<1>4. CASE seen[r].receipt /\ op = "inquiry"
  <2>1. p = <<"key", "lead", "actor">>
    BY <1>4 DEF Plan
  <2>2. n \in 1 .. 3 /\ lock = <<"key", "lead", "actor">>[n]
    BY <1>2, <2>1
  <2> QED BY <1>2, <1>4, <2>2 DEF LockNames
<1>5. CASE seen[r].receipt /\ op \in {"hold", "resolve"}
  <2>1. p = <<"key", "lead", "review", "actor">>
    BY <1>5 DEF Plan
  <2>2. n \in 1 .. 4 /\ lock = <<"key", "lead", "review", "actor">>[n]
    BY <1>2, <2>1
  <2> QED BY <1>2, <1>5, <2>2 DEF LockNames
<1>6. CASE ~seen[r].receipt /\ op = "inquiry"
  <2>1. p = <<"key", "marks", "contacts", "actor">>
    BY <1>6 DEF Plan
  <2>2. n \in 1 .. 4 /\ lock = <<"key", "marks", "contacts", "actor">>[n]
    BY <1>2, <2>1
  <2> QED BY <1>2, <1>6, <2>2 DEF LockNames
<1>7. CASE ~seen[r].receipt /\ op = "create"
  <2>1. p = <<"key", "assignment", "company", "contacts", "actor">>
    BY <1>7 DEF Plan
  <2>2. n \in 1 .. 5 /\ lock = <<"key", "assignment", "company", "contacts", "actor">>[n]
    BY <1>2, <2>1
  <2> QED BY <1>2, <1>7, <2>2 DEF LockNames
<1>8. CASE ~seen[r].receipt /\ op = "edit"
  <2>1. p = <<"key", "lead", "assignment", "company", "actor", "review">>
    BY <1>8 DEF Plan
  <2>2. n \in 1 .. 6 /\ lock = <<"key", "lead", "assignment", "company", "actor", "review">>[n]
    BY <1>2, <2>1
  <2> QED BY <1>2, <1>8, <2>2 DEF LockNames
<1>9. CASE ~seen[r].receipt /\ op = "hold"
  <2>1. p = <<"key", "lead", "review", "actor">>
    BY <1>9 DEF Plan
  <2>2. n \in 1 .. 4 /\ lock = <<"key", "lead", "review", "actor">>[n]
    BY <1>2, <2>1
  <2> QED BY <1>2, <1>9, <2>2 DEF LockNames
<1>10. CASE ~seen[r].receipt /\ op = "resolve"
  <2>1. p = <<"key", "lead", "review", "marks", "contacts", "actor">>
    BY <1>10 DEF Plan
  <2>2. n \in 1 .. 6 /\ lock = <<"key", "lead", "review", "marks", "contacts", "actor">>[n]
    BY <1>2, <2>1
  <2> QED BY <1>2, <1>10, <2>2 DEF LockNames
<1> QED BY <1>1, <1>3, <1>4, <1>5, <1>6, <1>7, <1>8, <1>9, <1>10 DEF Ops
-----------------------------------------------------------------------------
(* Steps of others leave alone what a request knows. *)

\* The locks of request q protect what they stand for.
Spares(q) ==
    /\ <<"key", request[q]>> \in held[q] =>
         /\ {l \in Leads : lead'[l].made = request[q]} = MadeWith(request[q])
         /\ request[q] \in decided' <=> request[q] \in decided
    /\ \A l \in Leads : lead[l].made # None =>
         /\ <<"lead", l>> \in held[q] => lead'[l] = lead[l]
         /\ <<"review", l>> \in held[q] => review'[l] = review[l]
    /\ \A m \in Members : <<"member", m>> \in held[q] => member'[m] = member[m]
    /\ <<"company">> \in held[q] => company' = company
    /\ \A c \in Contacts : <<"contact", c>> \in held[q] /\ contact[c].life # "absent"
                             => contact'[c] = contact[c]
    /\ \A S \in SUBSET Marks : HoldsMarks(q, S) => Made(S)' \subseteq Made(S)

Same(q) == /\ request'[q] = request[q] /\ step'[q] = step[q]
           /\ held'[q] = held[q] /\ seen'[q] = seen[q]
           /\ sent'[request[q]] = sent[request[q]]

LEMMA KnowsKept ==
    ASSUME RowsTyped, LocalTyped, SentSound, NEW q \in Requests, Knows(q), Same(q), Spares(q)
    PROVE  Knows(q)'
<1> SUFFICES ASSUME Running(q)
             PROVE  /\ Cmd(q)' # NoCommand /\ step'[q] > 0
                    /\ HasKey(q)' /\ HasLead(q)' /\ HasReview(q)' /\ HasMember(q)'
                    /\ HasMarks(q)' /\ HasContacts(q)' /\ HasCompany(q)'
  BY DEF Same, Running, Knows
<1> DEFINE in == Cmd(q)
<1>1. /\ request[q] \in Keys /\ in \in Commands /\ seen[q] \in SeenRows
      /\ in.op \in {"edit", "hold", "resolve"} => in.lead \in Leads /\ lead[in.lead].made # None
  BY Busy
<1>2. Cmd(q)' = in /\ (Decides(q)' <=> Decides(q)) /\ (Resolves(q)' <=> Resolves(q))
  BY DEF Same, Cmd, Decides, Resolves
<1>3. /\ in.actor \in Members /\ in.target \in Contacts \cup {None} /\ in.marks \in SUBSET Marks
  BY <1>1, CommandParts
<1>4. seen[q].lead.query \in SUBSET Marks
  BY <1>1 DEF SeenRows, LeadRows
<1>5. /\ in # NoCommand /\ step[q] > 0
      /\ HasKey(q) /\ HasLead(q) /\ HasReview(q) /\ HasMember(q)
      /\ HasMarks(q) /\ HasContacts(q) /\ HasCompany(q)
  BY DEF Knows
<1>6. /\ Decides(q) <=> in.op \in {"hold", "resolve"}
      /\ Resolves(q) <=> in.op = "resolve" /\ ~seen[q].receipt
  BY DEF Decides, Resolves
<1> HIDE DEF in
<1>7. HasKey(q)'
  BY <1>2, <1>5 DEF HasKey, Same, Spares, MadeWith, in
<1>8. HasLead(q)'
  BY <1>1, <1>2, <1>5, <1>6 DEF HasLead, Same, Spares, in
<1>9. HasReview(q)'
  BY <1>1, <1>2, <1>5, <1>6 DEF HasReview, Same, Spares, in
<1>10. HasMember(q)'
  BY <1>2, <1>3, <1>5 DEF HasMember, Same, Spares, in
<1>11. HasMarks(q)'
  <2>1. \A S \in SUBSET Marks : HoldsMarks(q, S) =>
          \A f : f \in Made(S)' => f \in Made(S)
    BY DEF Spares
  <2>2. \A S : HoldsMarks(q, S) <=> HoldsMarks(q, S)'
    BY DEF HoldsMarks, Same
  <2> DEFINE A == in.marks
             B == seen[q].lead.query
  <2>3. /\ Made(Cmd(q).marks)' = Made(A)' /\ Made(seen[q].lead.query)' = Made(B)'
        /\ HoldsMarks(q, Cmd(q).marks)' = HoldsMarks(q, A)'
        /\ HoldsMarks(q, seen[q].lead.query)' = HoldsMarks(q, B)'
    BY <1>2 DEF Same, Made, Found, HoldsMarks, in
  <2> QED BY <1>2, <1>3, <1>4, <1>5, <2>1, <2>2, <2>3 DEF HasMarks, Same, in
<1>12. HasContacts(q)'
  BY <1>2, <1>3, <1>5 DEF HasContacts, Same, Spares, Current, in
<1>13. HasCompany(q)'
  BY <1>2, <1>5 DEF HasCompany, Same, Spares, in
<1> QED BY <1>2, <1>5, <1>7, <1>8, <1>9, <1>10, <1>11, <1>12, <1>13 DEF Same, in

RowsInv == RowsTyped /\ LeadsAgree /\ OncePerKey /\ ContactsSound

LocalInv == LocalTyped /\ OneHolder /\ \A q \in Requests : Knows(q)

LEMMA RowsUnchanged ==
    ASSUME RowsInv, UNCHANGED <<contact, company, lead, review, head, decided, receipts>>,
           member' \in [Members -> MemberRows]
    PROVE  RowsInv'
<1>1. RowsTyped'
  BY DEF RowsInv, RowsTyped
<1>2. LeadsAgree' /\ OncePerKey' /\ ContactsSound'
  BY DEF RowsInv, LeadsAgree, OncePerKey, ContactsSound
<1> QED BY <1>1, <1>2 DEF RowsInv

LEMMA TablesSpared ==
    ASSUME UNCHANGED tables, NEW q \in Requests
    PROVE  Spares(q)
<1>1. UNCHANGED <<contact, company, lead, review, head, decided, member>>
  BY DEF tables, graph
<1>2. \A S \in SUBSET Marks : Made(S)' = Made(S)
  BY <1>1 DEF Made, Found
<1> QED BY <1>1, <1>2 DEF Spares, MadeWith

\* Only the requests' own state and the commands sent change.
LEMMA LocalStep ==
    ASSUME IInv, UNCHANGED tables, LocalInv', SentSound'
    PROVE  IInv'
<1>1. RowsInv'
  BY RowsUnchanged DEF IInv, RowsInv, tables, graph, RowsTyped
<1> QED BY <1>1 DEF IInv, RowsInv, LocalInv

LEMMA NothingTyped == NothingSeen \in SeenRows
<1>1. NoLead \in LeadRows
  BY DEF NoLead, LeadRows
<1>2. NoReview \in ReviewRows
  BY DEF NoReview, ReviewRows
<1> QED BY <1>1, <1>2 DEF NothingSeen, SeenRows, MemberRows

LEMMA AfterClose ==
    ASSUME IInv, NEW r \in Requests, Close(r)
    PROVE  /\ LocalTyped' /\ OneHolder' /\ Knows(r)'
           /\ sent' = sent => \A q \in Requests \ {r} : Same(q)
<1>1. /\ request' = [request EXCEPT ![r] = None] /\ step' = [step EXCEPT ![r] = 0]
      /\ held' = [held EXCEPT ![r] = {}] /\ seen' = [seen EXCEPT ![r] = NothingSeen]
  BY DEF Close
<1>2. LocalTyped /\ OneHolder
  BY DEF IInv
<1>3. NothingSeen \in SeenRows
  BY NothingTyped
<1>4. /\ request'[r] = None /\ held'[r] = {} /\ seen'[r] = NothingSeen
      /\ \A q \in Requests \ {r} : /\ request'[q] = request[q] /\ step'[q] = step[q]
                                   /\ held'[q] = held[q] /\ seen'[q] = seen[q]
  BY <1>1, <1>2 DEF LocalTyped
<1>5. LocalTyped'
  <2>1. /\ request' \in [Requests -> Keys \cup {None}] /\ step' \in [Requests -> 0 .. 7]
        /\ seen' \in [Requests -> SeenRows]
    BY <1>1, <1>2, <1>3 DEF LocalTyped
  <2>2. held' = [q \in Requests |-> held'[q]]
    <3>1. held = [q \in Requests |-> held[q]]
      BY <1>2 DEF LocalTyped
    <3>2. held' = [q \in Requests |-> IF q = r THEN {} ELSE held[q]]
      BY <1>1, <3>1
    <3> QED BY <3>2
  <2>3. ASSUME NEW q \in Requests, request'[q] = None
        PROVE  held'[q] = {} /\ seen'[q] = NothingSeen
    BY <1>2, <1>4, <2>3 DEF LocalTyped, Running
  <2> QED BY <2>1, <2>2, <2>3 DEF LocalTyped, Running
<1>6. OneHolder'
  BY <1>2, <1>4 DEF OneHolder
<1>7. Knows(r)'
  BY <1>4 DEF Knows, Running
<1> QED BY <1>4, <1>5, <1>6, <1>7 DEF Same

LEMMA CloseStep ==
    ASSUME IInv, NEW r \in Requests, Close(r), UNCHANGED <<tables, sent>>
    PROVE  IInv'
<1>1. ASSUME NEW q \in Requests, q # r
      PROVE  Knows(q)'
  BY <1>1, AfterClose, TablesSpared, KnowsKept DEF IInv
<1>2. LocalInv'
  BY <1>1, AfterClose DEF LocalInv
<1>3. SentSound'
  BY DEF IInv, SentSound, tables
<1> QED BY <1>2, <1>3, LocalStep

\* A request starts with a command that was made now or before.
LEMMA StartStep ==
    ASSUME IInv, NEW r \in Requests, NEW k \in Keys, request[r] = None,
           request' = [request EXCEPT ![r] = k], step' = [step EXCEPT ![r] = 1],
           UNCHANGED <<tables, held, seen>>,
           SentSound', sent'[k] # NoCommand,
           \A j \in Keys : sent'[j] = sent[j] \/ sent[j] = NoCommand
    PROVE  IInv'
<1>1. LocalTyped /\ OneHolder
  BY DEF IInv
<1>2. held[r] = {} /\ seen[r] = NothingSeen
  BY <1>1 DEF LocalTyped, Running
<1>3. LocalTyped'
  <2>1. /\ request' \in [Requests -> Keys \cup {None}] /\ step' \in [Requests -> 0 .. 7]
        /\ held' = [q \in Requests |-> held'[q]] /\ seen' \in [Requests -> SeenRows]
    BY <1>1 DEF LocalTyped
  <2>2. \A q \in Requests : request'[q] = None => held'[q] = {} /\ seen'[q] = NothingSeen
    BY <1>1, <1>2 DEF LocalTyped, Running
  <2> QED BY <2>1, <2>2 DEF LocalTyped, Running
<1>4. Knows(r)'
  <2>1. request'[r] = k /\ step'[r] = 1
    BY <1>1 DEF LocalTyped
  <2>2. Cmd(r)' # NoCommand
    BY <2>1 DEF Cmd
  <2>3. HasKey(r)' /\ HasLead(r)' /\ HasReview(r)' /\ HasMember(r)'
    BY <2>1 DEF HasKey, HasLead, HasReview, HasMember
  <2>4. HasMarks(r)' /\ HasContacts(r)' /\ HasCompany(r)'
    BY <2>1 DEF HasMarks, HasContacts, HasCompany
  <2> QED BY <2>1, <2>2, <2>3, <2>4 DEF Knows
<1>5. ASSUME NEW q \in Requests, q # r
      PROVE  Knows(q)'
  <2>1. CASE Running(q)
    <3>1. sent[request[q]] # NoCommand /\ request[q] \in Keys
      BY <2>1, Busy DEF IInv, Knows, Cmd
    <3>2. Same(q)
      BY <1>1, <1>5, <3>1 DEF LocalTyped, Same
    <3> QED BY <3>2, TablesSpared, KnowsKept DEF IInv
  <2>2. CASE ~Running(q)
    BY <1>1, <1>5, <2>2 DEF LocalTyped, Running, Knows
  <2> QED BY <2>1, <2>2
<1>6. LocalInv'
  BY <1>1, <1>3, <1>4, <1>5 DEF LocalInv, OneHolder
<1> QED BY <1>6, LocalStep

LEMMA SubmitStep ==
    ASSUME IInv, NEW r \in Requests, Submit(r) \/ Repeat(r)
    PROVE  IInv'
<1>1. RowsTyped /\ SentSound /\ LeadsAgree
  BY DEF IInv
<1>2. CASE Submit(r)
  <2>1. PICK k \in Keys :
           \E op \in Operations[k] : \E in \in Offered(op, Client[k]) :
             /\ sent[k] = NoCommand
             /\ sent' = [sent EXCEPT ![k] = in]
             /\ request' = [request EXCEPT ![r] = k]
    BY <1>2 DEF Submit
  <2>2. PICK op \in Operations[k] : \E in \in Offered(op, Client[k]) :
             /\ sent[k] = NoCommand
             /\ sent' = [sent EXCEPT ![k] = in]
             /\ request' = [request EXCEPT ![r] = k]
    BY <2>1
  <2>3. PICK in \in Offered(op, Client[k]) : /\ sent[k] = NoCommand
                                             /\ sent' = [sent EXCEPT ![k] = in]
                                             /\ request' = [request EXCEPT ![r] = k]
    BY <2>2
  <2>4. op \in Ops /\ Client[k] \in Members
    BY IntakeAssumption
  <2>5. /\ in \in Commands
        /\ in.op \in {"edit", "hold", "resolve"} => lead[in.lead].made # None
    BY <1>1, <2>4, OfferedParts
  <2>6. in # NoCommand
    BY <2>5, CommandParts DEF NoCommand, Ops
  <2>7. /\ request[r] = None /\ step' = [step EXCEPT ![r] = 1]
        /\ UNCHANGED <<tables, held, seen>>
    BY <1>2 DEF Submit
  <2>8. SentSound' /\ sent'[k] = in /\ \A j \in Keys : sent'[j] = sent[j] \/ j = k
    BY <1>1, <2>3, <2>5, <2>7 DEF SentSound, tables
  <2> QED BY <2>3, <2>6, <2>7, <2>8, StartStep
<1>3. CASE Repeat(r)
  <2>1. PICK k \in Keys : sent[k] # NoCommand /\ request' = [request EXCEPT ![r] = k]
    BY <1>3 DEF Repeat
  <2>2. SentSound'
    BY <1>1, <1>3 DEF Repeat, SentSound, tables
  <2> QED BY <1>3, <2>1, <2>2, StartStep DEF Repeat
<1> QED BY <1>2, <1>3
-----------------------------------------------------------------------------
(* The next lock. *)

LEMMA FoundTyped ==
    ASSUME RowsTyped, NEW S
    PROVE  Found(S) \subseteq Candidates
  BY DEF RowsTyped, ContactRows, Found, Candidates

LEMMA TargetParts ==
    ASSUME IInv, NEW r \in Requests, Running(r), ~Done(r), NextLock(r) = "lead"
    PROVE  /\ Target(r) # {} /\ Target(r) \subseteq Leads
           /\ Cmd(r).op # "inquiry" => Target(r) = {Cmd(r).lead}
<1>1. /\ Cmd(r) \in Commands /\ step[r] \in 1 .. 7
      /\ Cmd(r).op \in {"edit", "hold", "resolve"} => Cmd(r).lead \in Leads
  BY Busy DEF IInv
<1>2. Cmd(r).op # "create" /\ (Cmd(r).op = "inquiry" => seen[r].receipt /\ step[r] > 1)
  BY <1>1, NextLocks
<1>3. HasKey(r)
  BY DEF IInv, Knows
<1>4. CASE Cmd(r).op = "inquiry"
  BY <1>2, <1>3, <1>4 DEF HasKey, Target, MadeWith
<1>5. CASE Cmd(r).op # "inquiry"
  <2>1. Cmd(r).op \in {"edit", "hold", "resolve"}
    BY <1>1, <1>2, <1>5, CommandParts DEF Ops
  <2> QED BY <1>1, <1>5, <2>1 DEF Target
<1> QED BY <1>4, <1>5

\* What a request reads with the next lock.
LEMMA ReadingParts ==
    ASSUME IInv, NEW r \in Requests, Running(r), ~Done(r),
           NEW got, got = Reading(r), NEW lock, lock = NextLock(r), NEW in, in = Cmd(r)
    PROVE  /\ got \in SeenRows
           /\ got.receipt <=> IF lock = "key" THEN HasReceipt(r) ELSE seen[r].receipt
           /\ lock # "lead" => got.lead = seen[r].lead
           /\ lock = "lead" /\ in.op # "inquiry" => got.lead = lead[in.lead]
           /\ got.review = IF lock = "review" THEN review[in.lead] ELSE seen[r].review
           /\ lock \notin {"marks", "company"} => got.found = seen[r].found
           /\ lock = "marks" => got.found = Found(Searched(r))
           /\ got.fresh <=> IF lock = "contacts" THEN Refreshed(r) ELSE seen[r].fresh
           /\ got.company <=> IF lock = "company"
                              THEN company = [active |-> TRUE, version |-> in.companyVersion]
                              ELSE seen[r].company
           /\ got.member = IF lock = "actor" THEN member[in.actor] ELSE seen[r].member
<1>1. /\ in \in Commands /\ step[r] \in 1 .. 7 /\ seen[r] \in SeenRows
      /\ in.op \in {"edit", "hold", "resolve"} => in.lead \in Leads
  BY Busy DEF IInv
<1>2. lock \in LockNames /\ (lock = "review" => in.op \in {"edit", "hold", "resolve"})
  BY <1>1, NextLocks
<1>3. RowsTyped /\ in.actor \in Members
  BY <1>1, CommandParts DEF IInv
<1>4. \A S : Found(S) \in SUBSET Candidates
  BY <1>3, FoundTyped
<1> DEFINE old == seen[r]
<1>5. CASE lock = "key"
  <2>1. got = [old EXCEPT !.receipt = HasReceipt(r)]
    BY <1>5 DEF Reading
  <2>2. HasReceipt(r) \in BOOLEAN
    <3>1. CASE in.op = "inquiry"
      BY <3>1 DEF HasReceipt
    <3>2. CASE in.op \in {"create", "edit"}
      BY <3>2 DEF HasReceipt
    <3>3. CASE in.op \in {"hold", "resolve"}
      <4>1. in.op # "inquiry" /\ in.op \notin {"create", "edit"}
        BY <3>3
      <4>2. HasReceipt(r) = (request[r] \in decided)
        BY <4>1 DEF HasReceipt
      <4> QED BY <4>2
    <3> QED BY <1>1, <3>1, <3>2, <3>3, CommandParts DEF Ops
  <2> QED BY <1>1, <1>5, <2>1, <2>2 DEF SeenRows
<1>6. CASE lock = "lead"
  <2>1. got = [old EXCEPT !.lead = lead[CHOOSE l \in Target(r) : TRUE]]
    BY <1>6 DEF Reading
  <2>2. (CHOOSE l \in Target(r) : TRUE) \in Target(r)
    BY <1>6, TargetParts
  <2>3. lead[CHOOSE l \in Target(r) : TRUE] \in LeadRows
    BY <1>3, <1>6, <2>2, TargetParts, RowParts
  <2>4. in.op # "inquiry" => (CHOOSE l \in Target(r) : TRUE) = in.lead
    BY <1>6, <2>2, TargetParts
  <2> DEFINE row == lead[CHOOSE l \in Target(r) : TRUE]
  <2>5. row \in LeadRows /\ got = [old EXCEPT !.lead = row]
        /\ (in.op # "inquiry" => row = lead[in.lead])
    BY <2>1, <2>3, <2>4
  <2> HIDE DEF row
  <2> QED BY <1>1, <1>6, <2>5 DEF SeenRows
<1>7. CASE lock = "review"
  <2>1. got = [old EXCEPT !.review = review[in.lead]]
    BY <1>7 DEF Reading
  <2>2. review[in.lead] \in ReviewRows
    BY <1>1, <1>2, <1>3, <1>7, RowParts
  <2> QED BY <1>1, <1>7, <2>1, <2>2 DEF SeenRows
<1>8. CASE lock = "marks"
  <2>1. got = [old EXCEPT !.found = Found(Searched(r))]
    BY <1>8 DEF Reading
  <2> QED BY <1>1, <1>4, <1>8, <2>1 DEF SeenRows
<1>9. CASE lock = "contacts"
  <2>1. got = [old EXCEPT !.fresh = Refreshed(r)]
    BY <1>9 DEF Reading
  <2>2. Refreshed(r) \in BOOLEAN
    BY DEF Refreshed
  <2> QED BY <1>1, <1>9, <2>1, <2>2 DEF SeenRows
<1>10. CASE lock = "assignment"
  <2>1. got = [old EXCEPT !.assigned = AssignedActive(r)]
    BY <1>10 DEF Reading
  <2>2. AssignedActive(r) \in BOOLEAN
    BY DEF AssignedActive
  <2> QED BY <1>1, <1>10, <2>1, <2>2 DEF SeenRows
<1>11. CASE lock = "company"
  <2> DEFINE same == company = [active |-> TRUE, version |-> in.companyVersion]
  <2>1. got = [old EXCEPT !.company = same, !.found = Found(in.marks)]
    BY <1>11 DEF Reading
  <2>2. same \in BOOLEAN /\ Found(in.marks) \in SUBSET Candidates
    BY <1>4
  <2> HIDE DEF same
  <2>3. /\ got \in SeenRows /\ (got.company <=> same)
        /\ got.receipt = old.receipt /\ got.lead = old.lead /\ got.review = old.review
        /\ got.fresh = old.fresh /\ got.member = old.member
    BY <1>1, <2>1, <2>2 DEF SeenRows
  <2> QED BY <1>11, <2>3 DEF same
<1>12. CASE lock = "actor"
  <2> DEFINE a == AssignedActive(r)
             f == Refreshed(r)
             m == member[in.actor]
  <2>1. got = [old EXCEPT !.member = m, !.assigned = a, !.final = f]
    BY <1>12 DEF Reading
  <2>2. a \in BOOLEAN /\ f \in BOOLEAN /\ m \in MemberRows
    BY <1>3 DEF AssignedActive, Refreshed, RowsTyped
  <2> HIDE DEF a, f, m
  <2>3. /\ got \in SeenRows /\ got.member = m
        /\ got.receipt = old.receipt /\ got.lead = old.lead /\ got.review = old.review
        /\ got.fresh = old.fresh /\ got.company = old.company /\ got.found = old.found
    BY <1>1, <2>1, <2>2 DEF SeenRows
  <2> QED BY <1>12, <2>3 DEF m
<1> QED BY <1>2, <1>5, <1>6, <1>7, <1>8, <1>9, <1>10, <1>11, <1>12 DEF LockNames

LEMMA ReceiptParts ==
    ASSUME NEW r \in Requests, Cmd(r).op \in Ops
    PROVE  /\ Cmd(r).op = "inquiry" => (HasReceipt(r) <=> MadeWith(request[r]) # {})
           /\ Decides(r) => (HasReceipt(r) <=> request[r] \in decided)
<1>1. Cmd(r).op = "inquiry" => (HasReceipt(r) <=> MadeWith(request[r]) # {})
  BY DEF HasReceipt, Target, MadeWith
<1>2. ASSUME Decides(r)
      PROVE  HasReceipt(r) <=> request[r] \in decided
  <2>1. Cmd(r).op \in {"hold", "resolve"}
    BY <1>2 DEF Decides
  <2> QED BY <2>1 DEF HasReceipt
<1> QED BY <1>1, <1>2

\* The locks that are waited for.
LEMMA WantedParts ==
    ASSUME NEW r \in Requests, Cmd(r) \in Commands,
           NEW lock, lock = NextLock(r), NEW in, in = Cmd(r)
    PROVE  /\ lock = "key" => <<"key", request[r]>> \in Wanted(r)
           /\ lock = "lead" /\ in.op # "inquiry" => <<"lead", in.lead>> \in Wanted(r)
           /\ lock = "review" /\ in.op # "inquiry" => <<"review", in.lead>> \in Wanted(r)
           /\ lock = "actor" => <<"member", in.actor>> \in Wanted(r)
           /\ lock = "company" => <<"company">> \in Wanted(r)
           /\ lock = "contacts" /\ in.target # None => <<"contact", in.target>> \in Wanted(r)
           /\ lock = "marks" /\ (in.op = "inquiry" \/ in.action = "create") =>
                \A x \in Searched(r) : <<"mark", x>> \in Wanted(r)
<1>1. lock = "key" => Wanted(r) = {<<"key", request[r]>>}
  BY DEF Wanted
<1>2. lock = "lead" => Wanted(r) = LeadLocks(r)
  BY DEF Wanted
<1>3. lock = "review" => Wanted(r) = {<<"review", l>> : l \in Target(r)}
  BY DEF Wanted
<1>4. lock = "actor" => Wanted(r) = ActorLocks(r)
  BY DEF Wanted
<1>5. lock = "company" => Wanted(r) = {<<"company">>}
  BY DEF Wanted
<1>6. lock = "contacts" => Wanted(r) = CandidateLocks(r)
  BY DEF Wanted
<1>7. lock = "marks" => Wanted(r) = IdentityLocks(r)
  BY DEF Wanted
<1>8. in.op # "inquiry" => Target(r) = {in.lead}
  BY DEF Target
<1>9. <<"member", in.actor>> \in ActorLocks(r)
  <2>1. in.actor \in Members /\ in.actor # None
    BY CommandParts, IntakeAssumption
  <2> QED BY <2>1 DEF ActorLocks
<1>10. in.target # None => <<"contact", in.target>> \in CandidateLocks(r)
  BY DEF CandidateLocks
<1>11. in.op = "inquiry" \/ in.action = "create" =>
         IdentityLocks(r) = {<<"mark", x>> : x \in Searched(r)}
  BY DEF IdentityLocks
<1> QED BY <1>1, <1>2, <1>3, <1>4, <1>5, <1>6, <1>7, <1>8, <1>9, <1>10, <1>11 DEF LeadLocks

LEMMA TakenLock ==
    ASSUME IInv, NEW r \in Requests, Take(r)
    PROVE  Knows(r)'
<1> DEFINE in == Cmd(r)
           n == step[r]
           old == seen[r]
           got == Reading(r)
           lock == NextLock(r)
           has == held[r]
           more == Wanted(r)
<1>1. /\ Running(r) /\ ~Done(r) /\ LocalTyped /\ Knows(r)
      /\ held' = [held EXCEPT ![r] = has \cup more]
      /\ seen' = [seen EXCEPT ![r] = got]
      /\ step' = [step EXCEPT ![r] = n + 1]
      /\ UNCHANGED <<tables, sent, request>>
  BY DEF Take, IInv
<1>2. n \in 1 .. 6 /\ in \in Commands /\ lock \in LockNames
  BY <1>1, Busy, NextLocks DEF IInv
<1>3. /\ held'[r] = has \cup more /\ seen'[r] = got /\ step'[r] = n + 1
      /\ request'[r] = request[r] /\ Cmd(r)' = in
  BY <1>1 DEF LocalTyped, Cmd
<1>4. UNCHANGED <<contact, company, lead, review, decided, member>>
  BY <1>1 DEF tables, graph
<1>5. /\ Decides(r) <=> in.op \in {"hold", "resolve"}
      /\ Resolves(r) <=> in.op = "resolve" /\ ~old.receipt
      /\ Decides(r)' <=> in.op \in {"hold", "resolve"}
      /\ Resolves(r)' <=> in.op = "resolve" /\ ~got.receipt
  BY <1>3 DEF Decides, Resolves
<1>6. /\ in # NoCommand
      /\ HasKey(r) /\ HasLead(r) /\ HasReview(r) /\ HasMember(r)
      /\ HasMarks(r) /\ HasContacts(r) /\ HasCompany(r)
  BY <1>1 DEF Knows
<1>7. /\ got.receipt <=> IF lock = "key" THEN HasReceipt(r) ELSE old.receipt
      /\ lock # "lead" => got.lead = old.lead
      /\ lock = "lead" /\ in.op # "inquiry" => got.lead = lead[in.lead]
      /\ got.review = IF lock = "review" THEN review[in.lead] ELSE old.review
      /\ lock \notin {"marks", "company"} => got.found = old.found
      /\ lock = "marks" => got.found = Found(Searched(r))
      /\ got.fresh <=> IF lock = "contacts" THEN Refreshed(r) ELSE old.fresh
      /\ got.company <=> IF lock = "company"
                         THEN company = [active |-> TRUE, version |-> in.companyVersion]
                         ELSE old.company
      /\ got.member = IF lock = "actor" THEN member[in.actor] ELSE old.member
  BY <1>1, ReadingParts
<1>8. /\ lock = "key" => <<"key", request[r]>> \in more
      /\ lock = "lead" /\ in.op # "inquiry" => <<"lead", in.lead>> \in more
      /\ lock = "review" /\ in.op # "inquiry" => <<"review", in.lead>> \in more
      /\ lock = "actor" => <<"member", in.actor>> \in more
      /\ lock = "company" => <<"company">> \in more
      /\ lock = "contacts" /\ in.target # None => <<"contact", in.target>> \in more
      /\ lock = "marks" /\ (in.op = "inquiry" \/ in.action = "create") =>
           \A x \in Searched(r) : <<"mark", x>> \in more
  BY <1>2, WantedParts
<1>9. /\ lock = "key" <=> n = 1
      /\ n > 1 /\ old.receipt => in.op \notin {"create", "edit"}
      /\ in.op = "inquiry" /\ n = 2 => lock = IF old.receipt THEN "lead" ELSE "marks"
      /\ Decides(r) =>
           /\ n = 2 <=> lock = "lead"
           /\ n = 3 <=> lock = "review"
           /\ lock = "actor" <=> n = IF Resolves(r) THEN 6 ELSE 4
           /\ n = 4 /\ Resolves(r) => lock = "marks"
           /\ n = 5 => lock = "contacts" /\ Resolves(r)
      /\ in.op = "edit" => (n = 2 <=> lock = "lead")
      /\ in.op \in {"create", "edit"} =>
           (n = (IF in.op = "create" THEN 3 ELSE 4) <=> lock = "company")
      /\ lock = "company" => in.op \in {"create", "edit"}
      /\ lock = "marks" =>
           ~old.receipt /\ ((in.op = "inquiry" /\ n = 2) \/ (Resolves(r) /\ n = 4))
      /\ lock = "contacts" => (Resolves(r) /\ n = 5) \/ in.op \in {"inquiry", "create"}
  BY <1>1, <1>2, NextLocks
<1>10. Searched(r) = IF Decides(r) THEN old.lead.query ELSE in.marks
  BY DEF Searched
<1>11. /\ in.op = "inquiry" => (HasReceipt(r) <=> MadeWith(request[r]) # {})
       /\ Decides(r) => (HasReceipt(r) <=> request[r] \in decided)
  BY <1>2, ReceiptParts, CommandParts
<1>12. HasKey(r)'
  <2>1. MadeWith(request[r])' = MadeWith(request[r])
    BY <1>3, <1>4 DEF MadeWith
  <2> HIDE DEF in, n, old, got, lock, has, more
  <2>2. CASE n = 1
    BY <1>3, <1>4, <1>5, <1>7, <1>8, <1>9, <1>11, <2>1, <2>2 DEF HasKey
  <2>3. CASE n > 1
    <3>1. lock # "key" /\ (got.receipt <=> old.receipt)
      BY <1>7, <1>9, <2>3
    <3>2. /\ <<"key", request[r]>> \in has
          /\ in.op = "inquiry" => (old.receipt <=> MadeWith(request[r]) # {})
          /\ Decides(r) /\ ~old.receipt => request[r] \notin decided
      BY <1>6, <2>3 DEF HasKey, in, n, old, has
    <3> QED BY <1>3, <1>4, <1>5, <2>1, <3>1, <3>2 DEF HasKey
  <2> QED BY <1>2, <2>2, <2>3 DEF n
<1>13. HasLead(r)'
  <2> SUFFICES ASSUME Decides(r) \/ (in.op = "edit" /\ ~got.receipt), n > 1
               PROVE  /\ <<"lead", in.lead>> \in has \cup more
                      /\ got.lead = lead[in.lead]
    BY <1>2, <1>3, <1>4, <1>5 DEF HasLead
  <2>1. in.op # "inquiry" /\ lock # "key" /\ (got.receipt <=> old.receipt)
    BY <1>5, <1>7, <1>9
  <2>2. CASE n = 2
    BY <1>7, <1>8, <1>9, <2>1, <2>2
  <2>3. CASE n > 2
    <3>1. <<"lead", in.lead>> \in has /\ old.lead = lead[in.lead]
      BY <1>6, <2>1, <2>3 DEF HasLead
    <3>2. lock # "lead"
      BY <1>9, <2>3
    <3> QED BY <1>7, <3>1, <3>2
  <2> QED BY <1>2, <2>2, <2>3
<1>14. HasReview(r)'
  <2> SUFFICES ASSUME Decides(r), n > 2
               PROVE  /\ <<"review", in.lead>> \in has \cup more
                      /\ got.review = review[in.lead]
    BY <1>2, <1>3, <1>4, <1>5 DEF HasReview
  <2>1. in.op # "inquiry"
    BY <1>5
  <2>2. CASE n = 3
    BY <1>7, <1>8, <1>9, <2>1, <2>2
  <2>3. CASE n > 3
    <3>1. <<"review", in.lead>> \in has /\ old.review = review[in.lead]
      BY <1>6, <2>1, <2>3 DEF HasReview
    <3>2. lock # "review"
      BY <1>9, <2>3
    <3> QED BY <1>7, <3>1, <3>2
  <2> QED BY <1>2, <2>2, <2>3
<1>15. HasMember(r)'
  <2> SUFFICES ASSUME Decides(r), n > 3, (in.op = "resolve" /\ ~got.receipt) => n > 5
               PROVE  /\ <<"member", in.actor>> \in has \cup more
                      /\ got.member = member[in.actor]
    BY <1>2, <1>3, <1>4, <1>5 DEF HasMember
  <2>1. got.receipt <=> old.receipt
    BY <1>7, <1>9
  <2>2. CASE lock = "actor"
    BY <1>7, <1>8, <2>2
  <2>3. CASE lock # "actor"
    <3>1. n > 4 /\ (Resolves(r) => n > 6)
      BY <1>2, <1>5, <1>9, <2>1, <2>3
    <3>2. <<"member", in.actor>> \in has /\ old.member = member[in.actor]
      BY <1>6, <3>1 DEF HasMember
    <3> QED BY <1>7, <2>3, <3>2
  <2> QED BY <2>2, <2>3
<1>16. HasMarks(r)'
  <2> DEFINE q == old.lead.query
  <2>1. \A S : Made(S)' = Made(S) /\ Made(S) \subseteq Found(S)
    BY <1>4 DEF Made, Found
  <2>2. \A S : HoldsMarks(r, S)' <=> \A x \in S : <<"mark", x>> \in has \cup more
    BY <1>3 DEF HoldsMarks
  <2>3. ASSUME in.op = "inquiry", ~got.receipt, n > 1
        PROVE  /\ \A x \in in.marks : <<"mark", x>> \in has \cup more
               /\ Made(in.marks) \subseteq got.found
    <3>1. ~old.receipt /\ ~Decides(r)
      BY <1>5, <1>7, <1>9, <2>3
    <3>2. CASE n = 2
      BY <1>7, <1>8, <1>9, <1>10, <2>1, <2>3, <3>1, <3>2
    <3>3. CASE n > 2
      <4>1. HoldsMarks(r, in.marks) /\ Made(in.marks) \subseteq old.found
        BY <1>6, <2>3, <3>1, <3>3 DEF HasMarks
      <4>2. lock \notin {"marks", "company"}
        BY <1>5, <1>9, <2>3, <3>3
      <4> QED BY <1>7, <4>1, <4>2 DEF HoldsMarks
    <3> QED BY <1>2, <2>3, <3>2, <3>3
  <2>4. ASSUME in.op = "resolve", ~got.receipt, in.action = "create", n > 3
        PROVE  /\ got.lead.query = q
               /\ \A x \in q : <<"mark", x>> \in has \cup more
               /\ Made(q) \subseteq got.found
    <3>1. ~old.receipt /\ Decides(r) /\ Resolves(r) /\ lock # "lead"
      BY <1>5, <1>7, <1>9, <2>4
    <3>2. CASE n = 4
      BY <1>7, <1>8, <1>9, <1>10, <2>1, <2>4, <3>1, <3>2
    <3>3. CASE n > 4
      <4>1. HoldsMarks(r, q) /\ Made(q) \subseteq old.found
        BY <1>6, <2>4, <3>1, <3>3 DEF HasMarks
      <4>2. lock \notin {"marks", "company"}
        BY <1>5, <1>9, <2>4, <3>3
      <4> QED BY <1>7, <3>1, <4>1, <4>2 DEF HoldsMarks
    <3> QED BY <1>2, <1>7, <2>4, <3>1, <3>2, <3>3
  <2> DEFINE A == in.marks
             B == got.lead.query
  <2>5. /\ Made(Cmd(r).marks)' = Made(A) /\ HoldsMarks(r, Cmd(r).marks)' = HoldsMarks(r, A)'
        /\ Made(seen[r].lead.query)' = Made(B)
        /\ HoldsMarks(r, seen[r].lead.query)' <=> \A x \in B : <<"mark", x>> \in has \cup more
    BY <1>3, <1>4 DEF Made, Found, HoldsMarks
  <2>6. HoldsMarks(r, Cmd(r).marks)' <=> \A x \in A : <<"mark", x>> \in has \cup more
    BY <1>3 DEF HoldsMarks
  <2> HIDE DEF in, n, old, got, lock, has, more, A, B
  <2>7. /\ Cmd(r).op' = in.op /\ seen[r].receipt' = got.receipt /\ step[r]' = n + 1
        /\ Cmd(r).action' = in.action /\ seen[r].found' = got.found
    BY <1>3
  <2>8. (n + 1 > 2 => n > 1) /\ (n + 1 > 4 => n > 3)
    BY <1>2 DEF n
  <2> QED BY <1>5, <2>3, <2>4, <2>5, <2>6, <2>7, <2>8 DEF HasMarks, A, B
<1>17. HasContacts(r)'
  <2> SUFFICES ASSUME in.op = "resolve", ~got.receipt, n > 4, got.fresh
               PROVE  /\ got.found = got.review.offered
                      /\ in.target # None => /\ <<"contact", in.target>> \in has \cup more
                                             /\ Current(in.target, in.targetVersion)
    BY <1>2, <1>3, <1>4, <1>5 DEF HasContacts, Current
  <2>1. /\ ~old.receipt /\ Decides(r) /\ Resolves(r)
        /\ lock \notin {"key", "review", "marks", "company"}
    BY <1>5, <1>7, <1>9
  <2>2. got.found = old.found /\ got.review = old.review
    BY <1>7, <2>1
  <2>3. CASE n = 5
    BY <1>7, <1>8, <1>9, <2>1, <2>2, <2>3 DEF Refreshed
  <2>4. CASE n > 5
    <3>1. lock # "contacts" /\ old.fresh
      BY <1>7, <1>9, <2>4
    <3>2. /\ old.found = old.review.offered
          /\ in.target # None => /\ <<"contact", in.target>> \in has
                                 /\ Current(in.target, in.targetVersion)
      BY <1>6, <2>1, <2>4, <3>1 DEF HasContacts
    <3> QED BY <2>2, <3>2
  <2> QED BY <1>2, <2>3, <2>4
<1>18. HasCompany(r)'
  <2> DEFINE at == IF in.op = "create" THEN 3 ELSE 4
  <2> SUFFICES ASSUME in.op \in {"create", "edit"}, ~got.receipt, n + 1 > at, got.company
               PROVE  /\ <<"company">> \in has \cup more
                      /\ company = [active |-> TRUE, version |-> in.companyVersion]
    BY <1>3, <1>4 DEF HasCompany
  <2>1. CASE n = at
    BY <1>7, <1>8, <1>9, <2>1
  <2>2. CASE n > at
    <3>1. lock # "company" /\ lock # "key"
      BY <1>9, <2>2
    <3>2. ~old.receipt /\ old.company
      BY <1>7, <3>1
    <3> QED BY <1>6, <2>2, <3>2 DEF HasCompany
  <2> QED BY <1>2, <2>1, <2>2
<1> QED BY <1>2, <1>3, <1>6, <1>12, <1>13, <1>14, <1>15, <1>16, <1>17, <1>18 DEF Knows

LEMMA TakeStep ==
    ASSUME IInv, NEW r \in Requests, Take(r)
    PROVE  IInv'
<1> DEFINE got == Reading(r)
<1>1. /\ Running(r) /\ ~Done(r) /\ \A q \in Requests : ~WaitsFor(r, q)
      /\ held' = [held EXCEPT ![r] = @ \cup Wanted(r)]
      /\ seen' = [seen EXCEPT ![r] = got]
      /\ step' = [step EXCEPT ![r] = @ + 1]
      /\ UNCHANGED <<tables, sent, request>>
  BY DEF Take
<1>2. LocalTyped /\ OneHolder /\ SentSound
  BY DEF IInv
<1>3. step[r] \in 1 .. 6 /\ got \in SeenRows
  <2>1. Cmd(r) \in Commands /\ step[r] \in 1 .. 7
    BY <1>1, Busy DEF IInv
  <2> QED BY <1>1, <2>1, NextLocks, ReadingParts
<1>4. /\ held'[r] = held[r] \cup Wanted(r) /\ request'[r] = request[r]
      /\ \A q \in Requests \ {r} : Same(q)
  BY <1>1, <1>2 DEF LocalTyped, Same
<1>5. LocalTyped'
  <2>1. /\ request' \in [Requests -> Keys \cup {None}] /\ step' \in [Requests -> 0 .. 7]
        /\ seen' \in [Requests -> SeenRows]
    BY <1>1, <1>2, <1>3 DEF LocalTyped
  <2>2. held' = [q \in Requests |-> held'[q]]
    <3>1. held = [q \in Requests |-> held[q]]
      BY <1>2 DEF LocalTyped
    <3>2. held' = [q \in Requests |-> IF q = r THEN held[r] \cup Wanted(r) ELSE held[q]]
      BY <1>1, <3>1
    <3> QED BY <3>2
  <2>3. ASSUME NEW q \in Requests, request'[q] = None
        PROVE  held'[q] = {} /\ seen'[q] = NothingSeen
    <3>1. q # r
      BY <1>1, <2>3 DEF Running
    <3> QED BY <1>2, <1>4, <2>3, <3>1 DEF LocalTyped, Running, Same
  <2> QED BY <2>1, <2>2, <2>3 DEF LocalTyped, Running
<1>6. OneHolder'
  <2>1. ASSUME NEW q \in Requests, q # r
        PROVE  Wanted(r) \cap held[q] = {}
    <3>1. CASE Running(q)
      BY <1>1, <2>1, <3>1 DEF WaitsFor
    <3>2. CASE ~Running(q)
      BY <1>2, <3>2 DEF LocalTyped
    <3> QED BY <3>1, <3>2
  <2>2. \A q \in Requests : held'[q] = IF q = r THEN held[r] \cup Wanted(r) ELSE held[q]
    BY <1>4 DEF Same
  <2> QED BY <1>2, <2>1, <2>2 DEF OneHolder
<1>7. ASSUME NEW q \in Requests, q # r
      PROVE  Knows(q)'
  BY <1>1, <1>4, <1>7, TablesSpared, KnowsKept DEF IInv
<1>8. LocalInv'
  BY <1>5, <1>6, <1>7, TakenLock DEF LocalInv
<1>9. SentSound'
  BY <1>1, <1>2 DEF SentSound, tables
<1> QED BY <1>1, <1>8, <1>9, LocalStep
-----------------------------------------------------------------------------
(* The commits. *)

\* How far a request is that has all its locks.
LEMMA AtTheEnd ==
    ASSUME IInv, NEW r \in Requests, Done(r)
    PROVE  /\ Running(r) /\ step[r] \in 1 .. 7 /\ step[r] > 1
           /\ ~seen[r].receipt => step[r] > 4
           /\ Decides(r) => step[r] > 4
           /\ ~seen[r].receipt /\ Cmd(r).op \in {"edit", "resolve"} => step[r] > 6
<1> DEFINE op == Cmd(r).op
           p == Plan(r)
           n == step[r]
<1>1. Running(r) /\ n > Len(p)
  BY DEF Done
<1>2. n \in 1 .. 7 /\ op \in Ops
  BY <1>1, Busy, CommandParts DEF IInv
<1>3. Decides(r) <=> op \in {"hold", "resolve"}
  BY DEF Decides
<1>4. CASE seen[r].receipt /\ op \in {"create", "edit"}
  <2>1. Len(p) = 1
    BY <1>4 DEF Plan
  <2> QED BY <1>1, <1>2, <1>3, <1>4, <2>1
<1>5. CASE seen[r].receipt /\ op = "inquiry"
  <2>1. Len(p) = 3
    BY <1>5 DEF Plan
  <2> QED BY <1>1, <1>2, <1>3, <1>5, <2>1
<1>6. CASE seen[r].receipt /\ op \in {"hold", "resolve"}
  <2>1. Len(p) = 4
    BY <1>6 DEF Plan
  <2> QED BY <1>1, <1>2, <1>3, <1>6, <2>1
<1>7. CASE ~seen[r].receipt /\ op \in {"inquiry", "hold"}
  <2>1. Len(p) = 4
    BY <1>7 DEF Plan
  <2> QED BY <1>1, <1>2, <1>3, <1>7, <2>1
<1>8. CASE ~seen[r].receipt /\ op = "create"
  <2>1. Len(p) = 5
    BY <1>8 DEF Plan
  <2> QED BY <1>1, <1>2, <1>3, <1>8, <2>1
<1>9. CASE ~seen[r].receipt /\ op \in {"edit", "resolve"}
  <2>1. Len(p) = 6
    BY <1>9 DEF Plan
  <2> QED BY <1>1, <1>2, <1>3, <1>9, <2>1
<1> QED BY <1>2, <1>4, <1>5, <1>6, <1>7, <1>8, <1>9 DEF Ops

\* What a request that decides has read of its lead is so when it ends.
LEMMA DecidesKnowing ==
    ASSUME IInv, NEW r \in Requests, Done(r), Decides(r)
    PROVE  /\ Cmd(r).lead \in Leads /\ lead[Cmd(r).lead].made # None
           /\ Cmd(r).actor \in Members
           /\ <<"lead", Cmd(r).lead>> \in held[r] /\ seen[r].lead = lead[Cmd(r).lead]
           /\ <<"review", Cmd(r).lead>> \in held[r] /\ seen[r].review = review[Cmd(r).lead]
           /\ seen[r].member = member[Cmd(r).actor]
           /\ ~seen[r].receipt => request[r] \notin decided
<1>1. Running(r) /\ step[r] > 4 /\ step[r] \in 1 .. 7 /\ Knows(r) /\ (Resolves(r) => step[r] > 6)
  BY AtTheEnd DEF IInv, Resolves
<1>2. Cmd(r) \in Commands /\ Cmd(r).op \in {"hold", "resolve"}
  BY <1>1, Busy DEF IInv, Decides
<1>3. Cmd(r).lead \in Leads /\ lead[Cmd(r).lead].made # None /\ Cmd(r).actor \in Members
  BY <1>1, <1>2, Busy, CommandParts DEF IInv
<1>4. HasKey(r) /\ HasLead(r) /\ HasReview(r) /\ HasMember(r)
  BY <1>1 DEF Knows
<1> QED BY <1>1, <1>3, <1>4 DEF HasKey, HasLead, HasReview, HasMember

LEMMA AtCommit ==
    ASSUME IInv, NEW r \in Requests, NEW op \in Ops, Commit(r, op)
    PROVE  /\ Running(r) /\ request[r] \in Keys /\ Cmd(r) \in Commands /\ Cmd(r).op = op
           /\ seen[r] \in SeenRows /\ Close(r) /\ UNCHANGED <<company, member, sent>>
           /\ <<"key", request[r]>> \in held[r]
           /\ op = "inquiry" => MadeWith(request[r]) = {}
<1>1. Running(r) /\ step[r] > 1 /\ Cmd(r).op = op /\ ~seen[r].receipt /\ Done(r)
      /\ Close(r) /\ UNCHANGED <<company, member, sent>>
  BY AtTheEnd DEF Commit
<1>2. HasKey(r)
  BY <1>1 DEF IInv, Knows
<1> QED BY <1>1, <1>2, Busy DEF IInv, HasKey

\* What a commit writes is locked, or was not there.
LEMMA SparesWhatIsLocked ==
    ASSUME IInv, NEW r \in Requests, NEW q \in Requests, q # r, Running(q),
           request[r] \in Keys, <<"key", request[r]>> \in held[r],
           UNCHANGED <<company, member>>,
           decided' \in {decided, decided \cup {request[r]}},
           NEW l \in Leads,
           \A x \in Leads \ {l} : lead'[x] = lead[x] /\ review'[x] = review[x],
           \/ lead[l].made = None /\ lead'[l].made = request[r]
           \/ /\ lead'[l].made = lead[l].made
              /\ lead'[l] = lead[l] \/ <<"lead", l>> \in held[r]
              /\ review'[l] = review[l] \/ <<"review", l>> \in held[r],
           \/ contact' = contact
           \/ \E c \in Contacts : /\ contact[c].life = "absent"
                                  /\ \A d \in Contacts \ {c} : contact'[d] = contact[d]
                                  /\ HoldsMarks(r, contact'[c].marks)
    PROVE  Spares(q)
<1>1. held[r] \cap held[q] = {} /\ request[q] \in Keys
  BY Busy DEF IInv, OneHolder
<1>2. ASSUME <<"key", request[q]>> \in held[q]
      PROVE  /\ {x \in Leads : lead'[x].made = request[q]} = MadeWith(request[q])
             /\ request[q] \in decided' <=> request[q] \in decided
  <2>1. request[q] # request[r] /\ request[q] # None
    BY <1>1, <1>2, IntakeAssumption
  <2>2. \A x \in Leads : lead'[x].made = request[q] <=> lead[x].made = request[q]
    BY <2>1
  <2> QED BY <2>1, <2>2 DEF MadeWith
<1>3. ASSUME NEW x \in Leads, lead[x].made # None
      PROVE  /\ <<"lead", x>> \in held[q] => lead'[x] = lead[x]
             /\ <<"review", x>> \in held[q] => review'[x] = review[x]
  BY <1>1, <1>3
<1>4. ASSUME NEW c \in Contacts, contact[c].life # "absent"
      PROVE  contact'[c] = contact[c]
  BY <1>4
<1>5. ASSUME NEW S \in SUBSET Marks, HoldsMarks(q, S)
      PROVE  Made(S)' \subseteq Made(S)
  <2>1. CASE contact' = contact
    BY <2>1 DEF Made, Found
  <2>2. ASSUME NEW c \in Contacts, contact[c].life = "absent",
               \A d \in Contacts \ {c} : contact'[d] = contact[d],
               HoldsMarks(r, contact'[c].marks)
        PROVE  Made(S)' \subseteq Made(S)
    <3>1. contact'[c].marks \cap S = {}
      BY <1>1, <1>5, <2>2 DEF HoldsMarks
    <3>2. Found(S)' \subseteq {f \in Found(S) : f.contact # c}
      BY <2>2, <3>1 DEF Found
    <3>3. \A f \in Found(S) : f.contact \in Contacts
      BY DEF Found
    <3> QED BY <2>2, <3>2, <3>3 DEF Made
  <2> QED BY <2>1, <2>2
<1> QED BY <1>2, <1>3, <1>4, <1>5 DEF Spares

LEMMA CommitStep ==
    ASSUME IInv, NEW r \in Requests, NEW op \in Ops, Commit(r, op), RowsInv',
           decided' \in {decided, decided \cup {request[r]}},
           NEW l \in Leads,
           \A x \in Leads \ {l} : lead'[x] = lead[x] /\ review'[x] = review[x],
           \/ lead[l].made = None /\ lead'[l].made = request[r]
           \/ /\ lead'[l].made = lead[l].made
              /\ lead'[l] = lead[l] \/ <<"lead", l>> \in held[r]
              /\ review'[l] = review[l] \/ <<"review", l>> \in held[r],
           \/ contact' = contact
           \/ \E c \in Contacts : /\ contact[c].life = "absent"
                                  /\ \A d \in Contacts \ {c} : contact'[d] = contact[d]
                                  /\ HoldsMarks(r, contact'[c].marks)
    PROVE  IInv'
<1>1. /\ request[r] \in Keys /\ <<"key", request[r]>> \in held[r] /\ Close(r)
      /\ UNCHANGED <<company, member, sent>>
  BY AtCommit
<1>2. ASSUME NEW q \in Requests, q # r, Running(q)
      PROVE  Spares(q)
  BY <1>1, <1>2, SparesWhatIsLocked
<1>3. ASSUME NEW q \in Requests, q # r
      PROVE  Knows(q)'
  <2>1. Same(q)
    BY <1>1, <1>3, AfterClose
  <2>2. CASE Running(q)
    BY <1>2, <1>3, <2>1, <2>2, KnowsKept DEF IInv
  <2>3. CASE ~Running(q)
    BY <2>1, <2>3 DEF Same, Running, Knows
  <2> QED BY <2>2, <2>3
<1>4. LocalInv'
  BY <1>1, <1>3, AfterClose DEF LocalInv
<1>5. SentSound'
  <2>1. request[r] # None
    BY <1>1, IntakeAssumption
  <2>2. \A x \in Leads : lead[x].made # None => lead'[x].made # None
    BY <2>1
  <2>3. \A k \in Keys : sent[k] # NoCommand /\ sent[k].op \in {"edit", "hold", "resolve"}
                          => sent[k].lead \in Leads
    BY CommandParts DEF IInv, SentSound
  <2> QED BY <1>1, <2>2, <2>3 DEF IInv, SentSound
<1> QED BY <1>4, <1>5 DEF IInv, RowsInv, LocalInv
-----------------------------------------------------------------------------
(* What the commits write. *)

\* One lead is written, with its review and decision, and one contact made.
LEMMA RowsWritten ==
    ASSUME RowsInv, NEW l \in Leads, NEW k,
           lead' \in [Leads -> LeadRows], review' \in [Leads -> ReviewRows],
           head' \in [Leads -> Decisions],
           \A x \in Leads \ {l} : /\ lead'[x] = lead[x] /\ review'[x] = review[x]
                                  /\ head'[x] = head[x],
           Agree(lead'[l], review'[l], head'[l]),
           lead'[l].made = k, lead[l].made = k \/ MadeWith(k) = {},
           UNCHANGED <<company, member>>,
           decided \subseteq decided', decided' \subseteq Keys, receipts' \subseteq Keys,
           \/ contact' = contact
           \/ \E c \in Contacts : /\ contact' \in [Contacts -> ContactRows]
                                  /\ \A d \in Contacts \ {c} : contact'[d] = contact[d]
                                  /\ contact'[c].by \in decided' \ decided
                                  /\ contact'[c].version > 0
    PROVE  RowsInv'
<1>1. RowsTyped /\ LeadsAgree /\ OncePerKey /\ ContactsSound
  BY DEF RowsInv
<1>2. RowsTyped'
  BY <1>1 DEF RowsTyped
<1>3. LeadsAgree'
  <2>1. ASSUME NEW x \in Leads
        PROVE  Agree(lead'[x], review'[x], head'[x])
    <3>1. CASE x = l
      BY <3>1
    <3>2. CASE x # l
      BY <1>1, <3>2 DEF LeadsAgree
    <3> QED BY <3>1, <3>2
  <2> QED BY <2>1 DEF LeadsAgree
<1>4. OncePerKey'
  <2>1. ASSUME NEW j \in Keys, NEW x \in Leads, NEW y \in Leads,
               lead'[x].made = j, lead'[y].made = j
        PROVE  x = y
    <3>1. \A u \in Leads \ {l} : lead'[u] = lead[u]
      OBVIOUS
    <3>2. \A u, v \in Leads : lead[u].made = j /\ lead[v].made = j => u = v
      BY <1>1 DEF OncePerKey
    <3>3. CASE lead[l].made = k
      <4>1. \A u \in Leads : lead'[u].made = lead[u].made
        BY <3>1, <3>3
      <4> QED BY <2>1, <3>2, <4>1
    <3>4. CASE MadeWith(k) = {}
      <4>1. \A u \in Leads : lead[u].made # k
        BY <3>4 DEF MadeWith
      <4> QED BY <2>1, <3>1, <3>2, <4>1
    <3> QED BY <3>3, <3>4
  <2>2. ASSUME NEW j \in Keys, NEW c \in Contacts, NEW d \in Contacts,
               contact'[c].by = j, contact'[d].by = j
        PROVE  c = d
    <3>1. \A u, v \in Contacts : contact[u].by = j /\ contact[v].by = j => u = v
      BY <1>1 DEF OncePerKey
    <3>2. CASE contact' = contact
      BY <2>2, <3>1, <3>2
    <3>3. ASSUME NEW e \in Contacts, \A u \in Contacts \ {e} : contact'[u] = contact[u],
                 contact'[e].by \in decided' \ decided
          PROVE  c = d
      <4>1. j # None
        BY IntakeAssumption
      <4>2. \A u \in Contacts : contact[u].by = j => j \in decided
        BY <1>1, <4>1 DEF ContactsSound
      <4> QED BY <2>2, <3>1, <3>3, <4>2
    <3> QED BY <3>2, <3>3
  <2> QED BY <2>1, <2>2 DEF OncePerKey
<1>5. ContactsSound'
  <2>1. CASE contact' = contact
    BY <1>1, <2>1 DEF ContactsSound
  <2>2. ASSUME NEW e \in Contacts, \A u \in Contacts \ {e} : contact'[u] = contact[u],
               contact'[e].by \in decided' \ decided, contact'[e].version > 0
        PROVE  ContactsSound'
    BY <1>1, <2>2 DEF ContactsSound
  <2> QED BY <2>1, <2>2
<1> QED BY <1>2, <1>3, <1>4, <1>5 DEF RowsInv

\* A new lead that is held for review when there are candidates.
LEMMA InquiryParts ==
    ASSUME NEW k \in Keys \cup {Earlier}, NEW marks \in SUBSET Marks,
           NEW found \in SUBSET Candidates, NEW m \in Members \cup {None},
           NEW x, x = Inquiry(k, marks, found, m)
    PROVE  /\ x \in LeadRows /\ x.made = k /\ x.made # None
           /\ NewReview(found) \in ReviewRows /\ Held(found) \in Decisions
           /\ Agree(x, NewReview(found), Held(found))
<1>1. /\ x = [made |-> k, form |-> FALSE, marks |-> marks, query |-> marks,
              status |-> IF found = {} THEN "not_required" ELSE "pending",
              version |-> 1, contact |-> None, responsible |-> m]
      /\ k # None
  BY IntakeAssumption DEF Inquiry, InquiryStatus, None, Earlier
<1>2. /\ NewReview(found) \in ReviewRows
      /\ NewReview(found).state = IF found = {} THEN "none" ELSE "pending"
      /\ found # {} => NewReview(found).offered = found
  BY DEF NewReview, NoReview, ReviewRows
<1>3. Held(found) \in Decisions /\ (found # {} => Held(found).outcome = "hold")
  BY DEF Held, NoDecision, Decisions
<1>4. x \in LeadRows
  BY <1>1 DEF LeadRows
<1>5. Agree(x, NewReview(found), Held(found))
  BY <1>1, <1>2, <1>3 DEF Agree
<1> QED BY <1>1, <1>2, <1>3, <1>4, <1>5

LEMMA InquireStep ==
    ASSUME IInv, NEW r \in Requests, Inquire(r)
    PROVE  IInv'
<1> DEFINE in == Cmd(r)
           found == seen[r].found
           k == request[r]
           new == Inquiry(k, in.marks, found, in.responsible)
<1>1. Commit(r, "inquiry") /\ UNCHANGED <<contact, decided, receipts>>
  BY DEF Inquire
<1>2. PICK l \in LeadRoom : /\ lead' = [lead EXCEPT ![l] = new]
                            /\ review' = [review EXCEPT ![l] = NewReview(found)]
                            /\ head' = [head EXCEPT ![l] = Held(found)]
  BY DEF Inquire
<1>3. "inquiry" \in Ops
  BY DEF Ops
<1>4. /\ k \in Keys /\ in \in Commands /\ seen[r] \in SeenRows /\ MadeWith(k) = {}
      /\ UNCHANGED <<company, member, sent>>
  BY <1>1, <1>3, AtCommit
<1>5. in.marks \in SUBSET Marks /\ in.responsible \in Members \cup {None}
      /\ found \in SUBSET Candidates
  BY <1>4, CommandParts DEF SeenRows
<1>6. l \in Leads /\ lead[l].made = None
  BY DEF LeadRoom
<1> HIDE DEF in, found, k
<1>7. /\ new \in LeadRows /\ new.made = k
      /\ NewReview(found) \in ReviewRows /\ Held(found) \in Decisions
      /\ Agree(new, NewReview(found), Held(found))
  BY <1>4, <1>5, InquiryParts
<1> HIDE DEF new
<1>8. RowsTyped
  BY DEF IInv
<1>9. /\ lead' \in [Leads -> LeadRows] /\ review' \in [Leads -> ReviewRows]
      /\ head' \in [Leads -> Decisions]
      /\ lead'[l] = new /\ review'[l] = NewReview(found) /\ head'[l] = Held(found)
      /\ \A x \in Leads \ {l} : lead'[x] = lead[x] /\ review'[x] = review[x] /\ head'[x] = head[x]
  BY <1>2, <1>6, <1>7, <1>8 DEF RowsTyped
<1>10. decided' \subseteq Keys /\ receipts' \subseteq Keys /\ decided \subseteq decided'
  BY <1>1, <1>8 DEF RowsTyped
<1>11. RowsInv'
  BY <1>1, <1>4, <1>6, <1>7, <1>9, <1>10, RowsWritten DEF IInv, RowsInv
<1> QED BY <1>1, <1>3, <1>6, <1>7, <1>9, <1>11, CommitStep DEF k

LEMMA CreateStep ==
    ASSUME IInv, NEW r \in Requests, Create(r)
    PROVE  IInv'
<1> DEFINE in == Cmd(r)
           found == seen[r].found
           k == request[r]
           plain == Inquiry(k, in.marks, found, in.responsible)
           status == IF found = {} THEN "resolved" ELSE "pending"
           new == [plain EXCEPT !.form = TRUE, !.query = {}, !.status = status]
<1>1. Commit(r, "create") /\ UNCHANGED <<contact, head, decided>>
      /\ receipts' = receipts \cup {k}
  BY DEF Create
<1>2. PICK l \in LeadRoom : /\ lead' = [lead EXCEPT ![l] = new]
                            /\ review' = [review EXCEPT ![l] = NewReview(found)]
  BY DEF Create
<1>3. "create" \in Ops
  BY DEF Ops
<1>4. /\ k \in Keys /\ in \in Commands /\ seen[r] \in SeenRows
      /\ UNCHANGED <<company, member, sent>>
  BY <1>1, <1>3, AtCommit
<1>5. in.marks \in SUBSET Marks /\ in.responsible \in Members \cup {None}
      /\ found \in SUBSET Candidates
  BY <1>4, CommandParts DEF SeenRows
<1>6. l \in Leads /\ lead[l].made = None
  BY DEF LeadRoom
<1>7. MadeWith(k) = {}
  <2>1. MayCreate(r)
    BY <1>1 DEF Commit, Allowed
  <2> QED BY <2>1 DEF MayCreate, IntakeUnused, MadeWith
<1> HIDE DEF in, found, k
<1>8. /\ plain \in LeadRows /\ plain.made = k /\ k # None
      /\ NewReview(found) \in ReviewRows
  BY <1>4, <1>5, InquiryParts, IntakeAssumption
<1>9. /\ NewReview(found).state = IF found = {} THEN "none" ELSE "pending"
      /\ found # {} => NewReview(found).offered = found
  BY DEF NewReview, NoReview
<1> HIDE DEF plain
<1>10. /\ new \in LeadRows /\ new.made = k /\ new.form /\ new.query = {}
       /\ new.status = IF found = {} THEN "resolved" ELSE "pending"
  BY <1>8 DEF LeadRows
<1> HIDE DEF new
<1>11. Agree(new, NewReview(found), head[l])
  BY <1>8, <1>9, <1>10 DEF Agree
<1>12. RowsTyped
  BY DEF IInv
<1>13. /\ lead' \in [Leads -> LeadRows] /\ review' \in [Leads -> ReviewRows]
       /\ head' \in [Leads -> Decisions]
       /\ lead'[l] = new /\ review'[l] = NewReview(found) /\ head'[l] = head[l]
       /\ \A x \in Leads \ {l} : lead'[x] = lead[x] /\ review'[x] = review[x] /\ head'[x] = head[x]
  BY <1>1, <1>2, <1>6, <1>8, <1>10, <1>12 DEF RowsTyped
<1>14. decided' \subseteq Keys /\ receipts' \subseteq Keys /\ decided \subseteq decided'
  BY <1>1, <1>4, <1>12 DEF RowsTyped
<1>15. RowsInv'
  BY <1>1, <1>4, <1>6, <1>7, <1>10, <1>11, <1>13, <1>14, RowsWritten DEF IInv, RowsInv
<1> QED BY <1>1, <1>3, <1>6, <1>10, <1>13, <1>15, CommitStep DEF k

LEMMA EditStep ==
    ASSUME IInv, NEW r \in Requests, Edit(r)
    PROVE  IInv'
<1> DEFINE in == Cmd(r)
           l == in.lead
           k == request[r]
<1>1. Commit(r, "edit") /\ UNCHANGED <<contact, review, head, decided>>
      /\ receipts' = receipts \cup {k}
      /\ lead' = [lead EXCEPT ![l].marks = in.marks, ![l].responsible = in.responsible,
                              ![l].version = @ + 1]
  BY DEF Edit
<1>2. "edit" \in Ops
  BY DEF Ops
<1>3. /\ k \in Keys /\ in \in Commands /\ in.op = "edit" /\ Running(r)
      /\ UNCHANGED <<company, member, sent>>
  BY <1>1, <1>2, AtCommit
<1>4. /\ in.marks \in SUBSET Marks /\ in.responsible \in Members \cup {None}
      /\ l \in Leads /\ lead[l].made # None
  BY <1>3, Busy, CommandParts DEF IInv
<1>5. <<"lead", l>> \in held[r]
  <2>1. Done(r) /\ ~seen[r].receipt
    BY <1>1 DEF Commit
  <2>2. step[r] > 6 /\ step[r] \in 1 .. 7
    BY <1>3, <2>1, AtTheEnd
  <2>3. HasLead(r)
    BY <1>3 DEF IInv, Knows
  <2> QED BY <1>3, <2>1, <2>2, <2>3 DEF HasLead
<1>6. Summarized(l)
  BY <1>1, <1>3 DEF Commit, Allowed, MayEdit
<1>7. RowsTyped /\ LeadsAgree
  BY DEF IInv
<1>8. lead[l] \in LeadRows /\ lead[l].version \in Nat
  BY <1>4, <1>7, RowParts
<1> HIDE DEF in, l, k
<1>9. /\ lead'[l] \in LeadRows
      /\ lead'[l].made = lead[l].made /\ lead'[l].form = lead[l].form
      /\ lead'[l].query = lead[l].query /\ lead'[l].status = lead[l].status
      /\ lead'[l].contact = lead[l].contact
      /\ \A x \in Leads \ {l} : lead'[x] = lead[x]
  BY <1>1, <1>4, <1>7, <1>8 DEF RowsTyped, LeadRows
<1>10. lead' \in [Leads -> LeadRows]
  <2>1. lead' = [x \in Leads |-> lead'[x]]
    BY <1>1, <1>7 DEF RowsTyped
  <2>2. \A x \in Leads : lead'[x] \in LeadRows
    BY <1>7, <1>9 DEF RowsTyped
  <2> QED BY <2>1, <2>2
<1>11. Agree(lead'[l], review[l], head[l])
  <2>1. Agree(lead[l], review[l], head[l])
    BY <1>4, <1>7 DEF LeadsAgree
  <2>2. review[l].state = "pending" => lead[l].form
    BY <1>6 DEF Summarized
  <2> QED BY <1>4, <1>9, <2>1, <2>2 DEF Agree
<1>12. /\ review' \in [Leads -> ReviewRows] /\ head' \in [Leads -> Decisions]
       /\ decided' \subseteq Keys /\ receipts' \subseteq Keys /\ decided \subseteq decided'
  BY <1>1, <1>3, <1>7 DEF RowsTyped
<1>13. RowsInv'
  BY <1>1, <1>3, <1>4, <1>9, <1>10, <1>11, <1>12, RowsWritten DEF IInv, RowsInv
<1>14. /\ \A x \in Leads \ {l} : lead'[x] = lead[x] /\ review'[x] = review[x]
       /\ decided' \in {decided, decided \cup {request[r]}}
       /\ lead'[l] = lead[l] \/ <<"lead", l>> \in held[r]
       /\ review'[l] = review[l] \/ <<"review", l>> \in held[r]
  BY <1>1, <1>5, <1>9
<1> QED BY <1>1, <1>2, <1>4, <1>9, <1>13, <1>14, CommitStep

\* What a decision about a lead may rely on.
LEMMA Deciding ==
    ASSUME IInv, NEW r \in Requests, NEW op \in {"hold", "resolve"}, Commit(r, op),
           NEW l, l = Cmd(r).lead
    PROVE  /\ l \in Leads /\ lead[l].made # None /\ review[l].state = "pending"
           /\ request[r] \in Keys \ decided
           /\ <<"lead", l>> \in held[r] /\ <<"review", l>> \in held[r]
           /\ lead[l].form = FALSE /\ lead[l].query = lead[l].marks
           /\ seen[r].lead.query = lead[l].marks
<1>1. Done(r) /\ Decides(r) /\ Cmd(r).op = op /\ ~seen[r].receipt /\ op \in Ops
  BY DEF Commit, Decides, Ops
<1>2. /\ l \in Leads /\ lead[l].made # None /\ request[r] \notin decided
      /\ <<"lead", l>> \in held[r] /\ seen[r].lead = lead[l]
      /\ <<"review", l>> \in held[r] /\ seen[r].review = review[l]
  BY <1>1, DecidesKnowing
<1>3. request[r] \in Keys
  BY <1>1, AtCommit
<1>4. MayDecide(r)
  <2>1. Allowed(r)
    BY DEF Commit
  <2>2. CASE op = "hold"
    BY <1>1, <2>1, <2>2 DEF Allowed
  <2>3. CASE op = "resolve"
    BY <1>1, <2>1, <2>3 DEF Allowed, MayResolve
  <2> QED BY <2>2, <2>3
<1>5. review[l].state = "pending" /\ lead[l].query # {}
  BY <1>2, <1>4 DEF MayDecide
<1>6. lead[l].form \in BOOLEAN
  BY <1>2 DEF IInv, RowsTyped, LeadRows
<1>7. /\ lead[l].form => lead[l].query = {}
      /\ ~lead[l].form => lead[l].query = lead[l].marks
  BY <1>2, <1>5 DEF IInv, LeadsAgree, Agree
<1> QED BY <1>2, <1>3, <1>5, <1>6, <1>7

LEMMA HoldStep ==
    ASSUME IInv, NEW r \in Requests, Hold(r)
    PROVE  IInv'
<1> DEFINE l == Cmd(r).lead
           k == request[r]
           h == [outcome |-> "hold", contact |-> None]
<1>1. /\ Commit(r, "hold") /\ UNCHANGED <<contact, lead, receipts>>
      /\ review' = [review EXCEPT ![l].version = @ + 1]
      /\ head' = [head EXCEPT ![l] = h]
      /\ decided' = decided \cup {k}
  BY DEF Hold
<1>2. "hold" \in Ops
  BY DEF Ops
<1>3. UNCHANGED <<company, member, sent>>
  BY <1>1 DEF Commit
<1>4. /\ l \in Leads /\ lead[l].made # None /\ review[l].state = "pending" /\ k \in Keys
      /\ <<"review", l>> \in held[r] /\ lead[l].form = FALSE /\ lead[l].query = lead[l].marks
  BY <1>1, Deciding
<1>5. RowsTyped /\ LeadsAgree
  BY DEF IInv
<1>6. review[l] \in ReviewRows /\ review[l].version \in Nat
  BY <1>4, <1>5, RowParts
<1> HIDE DEF l, k
<1>7. /\ review'[l] \in ReviewRows /\ review'[l].state = "pending"
      /\ review'[l].offered = review[l].offered
      /\ \A x \in Leads \ {l} : review'[x] = review[x]
  BY <1>1, <1>4, <1>5, <1>6 DEF RowsTyped, ReviewRows
<1>8. review' \in [Leads -> ReviewRows]
  <2>1. review' = [x \in Leads |-> review'[x]]
    BY <1>1, <1>5 DEF RowsTyped
  <2>2. \A x \in Leads : review'[x] \in ReviewRows
    BY <1>5, <1>7 DEF RowsTyped
  <2> QED BY <2>1, <2>2
<1>9. h \in Decisions
  BY DEF Decisions
<1>10. /\ head' \in [Leads -> Decisions] /\ head'[l] = h
       /\ \A x \in Leads \ {l} : head'[x] = head[x]
  BY <1>1, <1>4, <1>5, <1>9 DEF RowsTyped
<1>11. Agree(lead[l], review'[l], head'[l])
  <2>1. Agree(lead[l], review[l], head[l])
    BY <1>4, <1>5 DEF LeadsAgree
  <2>2. h.outcome = "hold"
    OBVIOUS
  <2> QED BY <1>4, <1>7, <1>10, <2>1, <2>2 DEF Agree
<1>12. /\ lead' \in [Leads -> LeadRows]
       /\ decided' \subseteq Keys /\ receipts' \subseteq Keys /\ decided \subseteq decided'
  BY <1>1, <1>4, <1>5 DEF RowsTyped
<1>13. RowsInv'
  BY <1>1, <1>3, <1>4, <1>7, <1>8, <1>10, <1>11, <1>12, RowsWritten DEF IInv, RowsInv
<1> QED BY <1>1, <1>2, <1>4, <1>7, <1>13, CommitStep DEF k

LEMMA ResolvedStep ==
    ASSUME IInv, NEW r \in Requests, Commit(r, "resolve"), NEW c \in Contacts \cup {None},
           Resolved(r, c),
           \/ contact' = contact
           \/ \E d \in Contacts : /\ contact[d].life = "absent"
                                  /\ contact' \in [Contacts -> ContactRows]
                                  /\ \A e \in Contacts \ {d} : contact'[e] = contact[e]
                                  /\ contact'[d].by = request[r] /\ contact'[d].version > 0
                                  /\ HoldsMarks(r, contact'[d].marks)
    PROVE  IInv'
<1> DEFINE l == Cmd(r).lead
           k == request[r]
           h == [outcome |-> "resolve", contact |-> c]
<1>1. /\ lead' = [lead EXCEPT ![l].contact = c, ![l].status = "resolved", ![l].version = @ + 1]
      /\ review' = [review EXCEPT ![l].state = "resolved", ![l].version = @ + 1]
      /\ head' = [head EXCEPT ![l] = h]
      /\ decided' = decided \cup {k} /\ UNCHANGED receipts
  BY DEF Resolved
<1>2. "resolve" \in Ops /\ UNCHANGED <<company, member, sent>>
  BY DEF Ops, Commit
<1>3. /\ l \in Leads /\ lead[l].made # None /\ k \in Keys \ decided
      /\ <<"lead", l>> \in held[r] /\ <<"review", l>> \in held[r] /\ lead[l].form = FALSE
  BY Deciding
<1>4. RowsTyped /\ LeadsAgree
  BY DEF IInv
<1>5. /\ review[l] \in ReviewRows /\ review[l].version \in Nat
      /\ lead[l] \in LeadRows /\ lead[l].version \in Nat
  BY <1>3, <1>4, RowParts
<1> HIDE DEF l, k
<1>6. /\ review'[l] \in ReviewRows /\ review'[l].state = "resolved"
      /\ \A x \in Leads \ {l} : review'[x] = review[x]
  BY <1>1, <1>3, <1>4, <1>5 DEF RowsTyped, ReviewRows
<1>7. /\ lead'[l] \in LeadRows /\ lead'[l].made = lead[l].made /\ lead'[l].form = lead[l].form
      /\ lead'[l].status = "resolved" /\ lead'[l].contact = c
      /\ \A x \in Leads \ {l} : lead'[x] = lead[x]
  BY <1>1, <1>3, <1>4, <1>5 DEF RowsTyped, LeadRows
<1>8. review' \in [Leads -> ReviewRows] /\ lead' \in [Leads -> LeadRows]
  <2>1. review' = [x \in Leads |-> review'[x]] /\ lead' = [x \in Leads |-> lead'[x]]
    BY <1>1, <1>4 DEF RowsTyped
  <2>2. \A x \in Leads : review'[x] \in ReviewRows /\ lead'[x] \in LeadRows
    BY <1>4, <1>6, <1>7 DEF RowsTyped
  <2> QED BY <2>1, <2>2
<1>9. h \in Decisions
  BY DEF Decisions
<1>10. /\ head' \in [Leads -> Decisions] /\ head'[l] = h
       /\ \A x \in Leads \ {l} : head'[x] = head[x]
  BY <1>1, <1>3, <1>4, <1>9 DEF RowsTyped
<1>11. Agree(lead'[l], review'[l], head'[l])
  BY <1>3, <1>6, <1>7, <1>10 DEF Agree
<1>12. /\ decided' \subseteq Keys /\ receipts' \subseteq Keys /\ decided \subseteq decided'
       /\ k \in decided' \ decided
  BY <1>1, <1>3, <1>4 DEF RowsTyped
<1>13. \/ contact' = contact
       \/ \E d \in Contacts : /\ contact' \in [Contacts -> ContactRows]
                              /\ \A e \in Contacts \ {d} : contact'[e] = contact[e]
                              /\ contact'[d].by \in decided' \ decided
                              /\ contact'[d].version > 0
  BY <1>12 DEF k
<1>14. RowsInv'
  BY <1>2, <1>3, <1>6, <1>7, <1>8, <1>10, <1>11, <1>12, <1>13, RowsWritten DEF IInv, RowsInv
<1>15. \/ contact' = contact
       \/ \E d \in Contacts : /\ contact[d].life = "absent"
                              /\ \A e \in Contacts \ {d} : contact'[e] = contact[e]
                              /\ HoldsMarks(r, contact'[d].marks)
  OBVIOUS
<1> QED BY <1>1, <1>2, <1>3, <1>6, <1>7, <1>14, <1>15, CommitStep DEF k

\* Marks of the contact that a decision makes are locked.
LEMMA CreatorHoldsMarks ==
    ASSUME IInv, NEW r \in Requests, Commit(r, "resolve"), Cmd(r).action = "create"
    PROVE  /\ HoldsMarks(r, lead[Cmd(r).lead].marks)
           /\ Made(lead[Cmd(r).lead].marks) \subseteq seen[r].found
<1>1. Done(r) /\ Cmd(r).op = "resolve" /\ ~seen[r].receipt
  BY DEF Commit
<1>2. Running(r) /\ step[r] > 6 /\ step[r] \in 1 .. 7
  BY <1>1, AtTheEnd
<1>3. HasMarks(r)
  BY <1>2 DEF IInv, Knows
<1>4. seen[r].lead.query = lead[Cmd(r).lead].marks
  BY Deciding
<1> QED BY <1>1, <1>2, <1>3, <1>4 DEF HasMarks, Resolves

LEMMA CreateContactStep ==
    ASSUME IInv, NEW r \in Requests, CreateContact(r)
    PROVE  IInv'
<1> DEFINE new == NewContact(r)
           l == Cmd(r).lead
<1>1. Commit(r, "resolve") /\ Cmd(r).action = "create"
  BY DEF CreateContact
<1>2. PICK c \in ContactRoom : contact' = [contact EXCEPT ![c] = new] /\ Resolved(r, c)
  BY DEF CreateContact
<1>3. l \in Leads /\ request[r] \in Keys
  BY <1>1, Deciding
<1>4. HoldsMarks(r, lead[l].marks)
  BY <1>1, CreatorHoldsMarks
<1>5. RowsTyped
  BY DEF IInv
<1>6. lead[l].marks \in SUBSET Marks
  BY <1>3, <1>5 DEF RowsTyped, LeadRows
<1>7. /\ new \in ContactRows /\ new.by = request[r] /\ new.version = 1
      /\ new.marks = lead[l].marks
  BY <1>3, <1>6 DEF NewContact, ContactRows
<1> HIDE DEF new, l
<1>8. c \in Contacts /\ contact[c].life = "absent"
  BY DEF ContactRoom
<1>9. /\ contact' \in [Contacts -> ContactRows] /\ contact'[c] = new
      /\ \A e \in Contacts \ {c} : contact'[e] = contact[e]
  BY <1>2, <1>5, <1>7, <1>8 DEF RowsTyped
<1>10. /\ contact'[c].by = request[r] /\ contact'[c].version > 0
       /\ HoldsMarks(r, contact'[c].marks)
  BY <1>4, <1>7, <1>9
<1> QED BY <1>1, <1>2, <1>8, <1>9, <1>10, ResolvedStep

LEMMA LinkContactStep ==
    ASSUME IInv, NEW r \in Requests, LinkContact(r)
    PROVE  IInv'
<1>1. Commit(r, "resolve") /\ Resolved(r, Cmd(r).target) /\ contact' = contact
  BY DEF LinkContact
<1>2. Cmd(r).target \in Contacts \cup {None}
  BY <1>1, AtCommit, CommandParts DEF Ops
<1> QED BY <1>1, <1>2, ResolvedStep
-----------------------------------------------------------------------------
(* Steps around the commands. *)

LEMMA OtherStep ==
    ASSUME IInv, UNCHANGED <<sent, local>>, RowsInv', UNCHANGED lead,
           \A q \in Requests : Running(q) => Spares(q)
    PROVE  IInv'
<1>1. UNCHANGED <<request, step, held, seen, sent>>
  BY DEF local
<1>2. LocalTyped' /\ OneHolder'
  BY <1>1 DEF IInv, LocalTyped, OneHolder, Running
<1>3. ASSUME NEW q \in Requests
      PROVE  Knows(q)'
  <2>1. CASE Running(q)
    <3>1. Same(q)
      BY <1>1 DEF Same
    <3> QED BY <2>1, <3>1, KnowsKept DEF IInv
  <2>2. CASE ~Running(q)
    BY <1>1, <2>2 DEF Running, Knows
  <2> QED BY <2>1, <2>2
<1>4. SentSound'
  BY <1>1 DEF IInv, SentSound
<1> QED BY <1>2, <1>3, <1>4 DEF IInv, RowsInv

LEMMA ContactChangesStep ==
    ASSUME IInv, NEW c \in Changing, ContactChanges(c)
    PROVE  IInv'
<1>1. PICK marks \in Persons, life \in {"active", "archived"} :
        contact' = [contact EXCEPT ![c].life = life, ![c].marks = marks, ![c].version = @ + 1]
  BY DEF ContactChanges
<1>2. /\ contact[c].life # "absent" /\ Free({<<"contact", c>>})
      /\ UNCHANGED <<company, lead, review, head, decided, receipts, member, sent, local>>
  BY DEF ContactChanges, others
<1>3. c \in Contacts /\ marks \in SUBSET Marks
  BY IntakeAssumption
<1>4. RowsTyped /\ LeadsAgree /\ OncePerKey /\ ContactsSound
  BY DEF IInv
<1>5. contact[c] \in ContactRows /\ contact[c].version \in Nat /\ contact[c].version > 0
  BY <1>2, <1>3, <1>4 DEF RowsTyped, ContactRows, ContactsSound
<1>6. /\ contact'[c] \in ContactRows /\ contact'[c].by = contact[c].by
      /\ contact'[c].version = contact[c].version + 1
      /\ \A d \in Contacts \ {c} : contact'[d] = contact[d]
  BY <1>1, <1>3, <1>4, <1>5 DEF RowsTyped, ContactRows
<1>7. contact' \in [Contacts -> ContactRows]
  <2>1. contact' = [d \in Contacts |-> contact'[d]]
    BY <1>1, <1>4 DEF RowsTyped
  <2>2. \A d \in Contacts : contact'[d] \in ContactRows
    BY <1>4, <1>6 DEF RowsTyped
  <2> QED BY <2>1, <2>2
<1>8. \A d \in Contacts : contact'[d].by = contact[d].by
  BY <1>6
<1>9. RowsInv'
  <2>1. RowsTyped' /\ LeadsAgree'
    BY <1>2, <1>4, <1>7 DEF RowsTyped, LeadsAgree
  <2>2. OncePerKey'
    BY <1>2, <1>4, <1>8 DEF OncePerKey
  <2>3. ContactsSound'
    BY <1>2, <1>4, <1>5, <1>6, <1>8 DEF ContactsSound
  <2> QED BY <2>1, <2>2, <2>3 DEF RowsInv
<1>10. ASSUME NEW q \in Requests
       PROVE  Spares(q)
  <2>1. <<"contact", c>> \notin held[q]
    BY <1>2 DEF Free
  <2>2. ASSUME NEW S \in SUBSET Marks
        PROVE  Made(S)' \subseteq Made(S)
    <3>1. ASSUME NEW f \in Made(S)'
          PROVE  f \in Made(S)
      <4>1. PICK d \in Contacts : /\ f = [contact |-> d, version |-> contact'[d].version]
                                  /\ contact'[d].life = "active"
                                  /\ contact'[d].marks \cap S # {}
        BY DEF Made, Found
      <4>2. contact'[d].by # None /\ contact'[d].version = 1
        BY <4>1 DEF Made
      <4>3. d # c
        BY <1>5, <1>6, <4>2
      <4> QED BY <1>6, <4>1, <4>2, <4>3 DEF Made, Found
    <3> QED BY <3>1
  <2> QED BY <1>2, <1>6, <2>1, <2>2 DEF Spares, MadeWith
<1> QED BY <1>2, <1>9, <1>10, OtherStep

LEMMA CompanyChangesStep ==
    ASSUME IInv, CompanyChanges
    PROVE  IInv'
<1>1. /\ Free({<<"company">>}) /\ company' \in [active : BOOLEAN, version : Nat]
      /\ UNCHANGED <<contact, lead, review, head, decided, receipts, member, sent, local>>
  BY DEF CompanyChanges, others, IInv, RowsTyped
<1>2. RowsInv'
  <2>1. RowsTyped'
    BY <1>1 DEF IInv, RowsTyped
  <2>2. LeadsAgree' /\ OncePerKey' /\ ContactsSound'
    BY <1>1 DEF IInv, LeadsAgree, OncePerKey, ContactsSound
  <2> QED BY <2>1, <2>2 DEF RowsInv
<1>3. ASSUME NEW q \in Requests
      PROVE  Spares(q)
  <2>1. <<"company">> \notin held[q]
    BY <1>1 DEF Free
  <2>2. \A S : Made(S)' = Made(S)
    BY <1>1 DEF Made, Found
  <2> QED BY <1>1, <2>1, <2>2 DEF Spares, MadeWith
<1> QED BY <1>1, <1>2, <1>3, OtherStep

LEMMA SuspendStep ==
    ASSUME IInv, NEW m \in Members, Suspend(m)
    PROVE  IInv'
<1>1. /\ Free({<<"workspace">>, <<"member", m>>})
      /\ member' = [member EXCEPT ![m].active = FALSE]
      /\ UNCHANGED <<contact, company, lead, review, head, decided, receipts, sent, local>>
  BY DEF Suspend, others, graph
<1>2. /\ member' \in [Members -> MemberRows]
      /\ \A n \in Members \ {m} : member'[n] = member[n]
  BY <1>1 DEF IInv, RowsTyped, MemberRows
<1>3. RowsInv'
  BY <1>1, <1>2, RowsUnchanged DEF IInv, RowsInv
<1>4. ASSUME NEW q \in Requests
      PROVE  Spares(q)
  <2>1. <<"member", m>> \notin held[q]
    BY <1>1 DEF Free
  <2>2. \A S : Made(S)' = Made(S)
    BY <1>1 DEF Made, Found
  <2> QED BY <1>1, <1>2, <2>1, <2>2 DEF Spares, MadeWith
<1> QED BY <1>1, <1>3, <1>4, OtherStep

LEMMA ExpireStep ==
    ASSUME IInv, NEW k \in Keys, Expire(k)
    PROVE  IInv'
<1>1. /\ receipts' = receipts \ {k}
      /\ UNCHANGED <<contact, company, lead, review, head, decided, member, sent, local>>
  BY DEF Expire, graph
<1>2. RowsInv'
  <2>1. RowsTyped'
    BY <1>1 DEF IInv, RowsTyped
  <2>2. LeadsAgree' /\ OncePerKey' /\ ContactsSound'
    BY <1>1 DEF IInv, LeadsAgree, OncePerKey, ContactsSound
  <2> QED BY <2>1, <2>2 DEF RowsInv
<1>3. ASSUME NEW q \in Requests
      PROVE  Spares(q)
  <2>1. \A S : Made(S)' = Made(S)
    BY <1>1 DEF Made, Found
  <2> QED BY <1>1, <2>1 DEF Spares, MadeWith
<1> QED BY <1>1, <1>2, <1>3, OtherStep

LEMMA Stuttering == ASSUME IInv, UNCHANGED vars PROVE IInv'
<1>1. UNCHANGED <<tables, sent, local>> /\ UNCHANGED lead /\ UNCHANGED member
  BY DEF vars, tables
<1>2. RowsInv'
  BY <1>1, RowsUnchanged DEF IInv, RowsInv, tables, graph, RowsTyped
<1> QED BY <1>1, <1>2, TablesSpared, OtherStep

LEMMA InitHolds == Init => IInv
<1> SUFFICES ASSUME Init PROVE IInv
  OBVIOUS
<1> USE IntakeAssumption
<1>1. /\ contact = [c \in Contacts |->
           IF StartContacts[c] = {} THEN NoContact
           ELSE [life |-> "active", version |-> 1, marks |-> StartContacts[c], by |-> None]]
      /\ company = [active |-> TRUE, version |-> 1]
      /\ lead = [l \in Leads |-> IF StartLeads[l] = {} THEN NoLead
                    ELSE Inquiry(Earlier, StartLeads[l], StartFound(l), StartResponsible)]
      /\ review = [l \in Leads |-> NewReview(StartFound(l))]
      /\ head = [l \in Leads |-> Held(StartFound(l))]
      /\ decided = {} /\ receipts = {}
      /\ member = [m \in Members |->
                    [active |-> TRUE, role |-> IF m = Owner THEN "owner" ELSE "member"]]
      /\ sent = [k \in Keys |-> NoCommand]
      /\ request = [r \in Requests |-> None] /\ step = [r \in Requests |-> 0]
      /\ held = [r \in Requests |-> {}] /\ seen = [r \in Requests |-> NothingSeen]
  BY DEF Init
<1>2. ASSUME NEW l \in Leads
      PROVE  /\ lead[l] \in LeadRows /\ review[l] \in ReviewRows /\ head[l] \in Decisions
             /\ Agree(lead[l], review[l], head[l]) /\ lead[l].made \in {None, Earlier}
  <2> DEFINE found == StartFound(l)
             start == Inquiry(Earlier, StartLeads[l], found, StartResponsible)
  <2>1. found \in SUBSET Candidates /\ (StartLeads[l] = {} => found = {})
    BY DEF StartFound, Candidates
  <2>2. /\ review[l] = NewReview(found) /\ head[l] = Held(found)
        /\ lead[l] = IF StartLeads[l] = {} THEN NoLead ELSE start
    BY <1>1
  <2>3. StartLeads[l] \in SUBSET Marks /\ StartResponsible \in Members \cup {None}
    OBVIOUS
  <2> HIDE DEF found
  <2>4. /\ start \in LeadRows /\ start.made = Earlier
        /\ NewReview(found) \in ReviewRows /\ Held(found) \in Decisions
        /\ Agree(start, NewReview(found), Held(found))
    BY <2>1, <2>3, InquiryParts
  <2> HIDE DEF start
  <2>5. CASE StartLeads[l] = {}
    <3>1. NewReview(found) = NoReview
      BY <2>1, <2>5 DEF NewReview
    <3>2. NoLead \in LeadRows /\ NoLead.made = None /\ NoLead.form = FALSE
      BY DEF NoLead, LeadRows
    <3>3. Agree(NoLead, NoReview, Held(found))
      BY <3>2 DEF Agree
    <3> QED BY <2>2, <2>4, <2>5, <3>1, <3>2, <3>3
  <2>6. CASE StartLeads[l] # {}
    BY <2>2, <2>4, <2>6
  <2> QED BY <2>5, <2>6
<1>3. ASSUME NEW c \in Contacts
      PROVE  /\ contact[c] \in ContactRows /\ contact[c].by = None
             /\ contact[c].life # "absent" => contact[c].version > 0
  BY <1>1 DEF NoContact, ContactRows
<1>4. RowsTyped
  <2>1. contact \in [Contacts -> ContactRows]
    BY <1>1, <1>3
  <2>2. /\ lead \in [Leads -> LeadRows] /\ review \in [Leads -> ReviewRows]
        /\ head \in [Leads -> Decisions]
    <3>1. /\ lead = [l \in Leads |-> lead[l]] /\ review = [l \in Leads |-> review[l]]
          /\ head = [l \in Leads |-> head[l]]
      BY <1>1
    <3> QED BY <1>2, <3>1
  <2>3. member \in [Members -> MemberRows] /\ company \in [active : BOOLEAN, version : Nat]
    BY <1>1 DEF MemberRows
  <2> QED BY <1>1, <2>1, <2>2, <2>3 DEF RowsTyped
<1>5. LeadsAgree /\ OncePerKey /\ ContactsSound
  BY <1>2, <1>3 DEF LeadsAgree, OncePerKey, ContactsSound
<1>6. LocalTyped
  BY <1>1, NothingTyped DEF LocalTyped, Running
<1>7. OneHolder /\ SentSound /\ \A r \in Requests : Knows(r)
  BY <1>1 DEF OneHolder, SentSound, Knows, Running
<1> QED BY <1>4, <1>5, <1>6, <1>7 DEF IInv

LEMMA StepKeeps == ASSUME IInv, [Next]_vars PROVE IInv'
<1>1. ASSUME NEW r \in Requests, Submit(r) \/ Repeat(r)
      PROVE  IInv'
  BY <1>1, SubmitStep
<1>2. ASSUME NEW r \in Requests, Take(r)
      PROVE  IInv'
  BY <1>2, TakeStep
<1>3. ASSUME NEW r \in Requests, Replay(r) \/ Refuse(r) \/ Abandon(r) \/ BreakDeadlock(r)
      PROVE  IInv'
  BY <1>3, CloseStep DEF Replay, Refuse, Abandon, BreakDeadlock
<1>4. ASSUME NEW r \in Requests, Effect(r)
      PROVE  IInv'
  BY <1>4, InquireStep, CreateStep, EditStep, HoldStep, CreateContactStep, LinkContactStep
     DEF Effect
<1>5. ASSUME NEW c \in Changing, ContactChanges(c)
      PROVE  IInv'
  BY <1>5, ContactChangesStep
<1>6. CASE CompanyChanges
  BY <1>6, CompanyChangesStep
<1>7. ASSUME NEW m \in Members, Suspend(m)
      PROVE  IInv'
  BY <1>7, SuspendStep
<1>8. ASSUME NEW k \in Keys, Expire(k)
      PROVE  IInv'
  BY <1>8, ExpireStep
<1>9. CASE UNCHANGED vars
  BY <1>9, Stuttering
<1> QED BY <1>1, <1>2, <1>3, <1>4, <1>5, <1>6, <1>7, <1>8, <1>9 DEF Next
-----------------------------------------------------------------------------
THEOREM Invariant == Spec => []IInv
<1>1. Init => IInv
  BY InitHolds
<1>2. IInv /\ [Next]_vars => IInv'
  BY StepKeeps
<1> QED BY <1>1, <1>2, PTL DEF Spec

\* Contacts, leads, reviews and requests have their types, and a request that
\* is not running holds no locks.
THEOREM TypeCorrect == Spec => []TypeOK
<1>1. IInv => TypeOK
  <2> SUFFICES ASSUME IInv PROVE TypeOK
    OBVIOUS
  <2>1. RowsTyped /\ LocalTyped
    BY DEF IInv
  <2>2. ASSUME NEW l \in Leads
        PROVE  /\ review[l].state \in {"none", "pending", "resolved"}
               /\ review[l].version \in Nat /\ \A f \in review[l].offered : f \in Candidates
    BY <2>1, RowParts DEF ReviewRows
  <2>3. ASSUME NEW r \in Requests
        PROVE  seen[r].lead \in LeadRows
    BY <2>1 DEF LocalTyped, SeenRows
  <2> QED BY <2>1, <2>2, <2>3 DEF TypeOK, RowsTyped, LocalTyped
<1> QED BY <1>1, Invariant, PTL

LEMMA AtMostOne ==
    ASSUME NEW S, \A x, y \in S : x = y
    PROVE  Cardinality(S) <= 1
<1>1. CASE S = {}
  BY <1>1, FS_EmptySet
<1>2. CASE S # {}
  <2>1. PICK x \in S : S = {x}
    BY <1>2
  <2> QED BY <2>1, FS_Singleton
<1> QED BY <1>1, <1>2

\* A lead, its review, the decision and the query agree, and a key makes one
\* lead and one contact, whatever commands change them: they write under the
\* locks of the lead and its review, and an edit only what the review allows.
THEOREM ReviewsAlwaysMatch == Spec => []ReviewsMatchLeads
<1>1. IInv => ReviewsMatchLeads
  <2> SUFFICES ASSUME IInv PROVE ReviewsMatchLeads
    OBVIOUS
  <2>1. ASSUME NEW k \in Keys
        PROVE  /\ Cardinality({l \in Leads : lead[l].made = k}) <= 1
               /\ Cardinality({c \in Contacts : contact[c].by = k}) <= 1
    <3>1. \A x, y \in {l \in Leads : lead[l].made = k} : x = y
      BY DEF IInv, OncePerKey
    <3>2. \A x, y \in {c \in Contacts : contact[c].by = k} : x = y
      BY DEF IInv, OncePerKey
    <3> QED BY <3>1, <3>2, AtMostOne
  <2>2. ASSUME NEW l \in Leads, lead[l].made # None
        PROVE  /\ lead[l].status = "pending" <=> review[l].state = "pending"
               /\ review[l].state = "pending" => review[l].offered # {}
               /\ review[l].state = "resolved" =>
                    head[l] = [outcome |-> "resolve", contact |-> lead[l].contact]
               /\ review[l].state = "pending" /\ ~lead[l].form =>
                    lead[l].query = lead[l].marks /\ head[l].outcome = "hold"
    <3>1. Agree(lead[l], review[l], head[l])
      BY DEF IInv, LeadsAgree
    <3> QED BY <2>2, <3>1 DEF Agree
  <2> QED BY <2>1, <2>2 DEF ReviewsMatchLeads
<1> QED BY <1>1, Invariant, PTL

\* Whoever decides about a lead may see its candidates at that moment, and the
\* contact or company that a lead gets is active and as the client saw it: the
\* rows were read under locks that are held to the end.
THEOREM DecisionsStayCurrent == Spec => DecisionsAreCurrent
<1> DEFINE Good(r) ==
      /\ CreateContact(r) \/ LinkContact(r) \/ Hold(r) \/ (Replay(r) /\ Decides(r)) =>
           Discloses(Cmd(r).actor, member[Cmd(r).actor], lead[Cmd(r).lead])
      /\ LinkContact(r) /\ Cmd(r).action = "link" =>
           Current(Cmd(r).target, Cmd(r).targetVersion)
      /\ Create(r) \/ Edit(r) =>
           company = [active |-> TRUE, version |-> Cmd(r).companyVersion]
<1>1. ASSUME IInv, NEW r \in Requests
      PROVE  Good(r)
  <2>1. ASSUME Done(r), Decides(r), Discloses(Cmd(r).actor, seen[r].member, seen[r].lead)
        PROVE  Discloses(Cmd(r).actor, member[Cmd(r).actor], lead[Cmd(r).lead])
    BY <1>1, <2>1, DecidesKnowing
  <2>2. ASSUME NEW op \in {"hold", "resolve"}, Commit(r, op)
        PROVE  Done(r) /\ Decides(r) /\ MayDecide(r)
    <3>1. Done(r) /\ Cmd(r).op = op /\ Allowed(r)
      BY <2>2 DEF Commit
    <3>2. CASE op = "hold"
      BY <3>1, <3>2 DEF Allowed, Decides
    <3>3. CASE op = "resolve"
      BY <3>1, <3>3 DEF Allowed, MayResolve, Decides
    <3> QED BY <3>2, <3>3
  <2>3. ASSUME CreateContact(r) \/ LinkContact(r) \/ Hold(r)
        PROVE  Discloses(Cmd(r).actor, member[Cmd(r).actor], lead[Cmd(r).lead])
    <3>1. PICK op \in {"hold", "resolve"} : Commit(r, op)
      BY <2>3 DEF CreateContact, LinkContact, Hold
    <3>2. Done(r) /\ Decides(r) /\ MayDecide(r)
      BY <2>2, <3>1
    <3> QED BY <2>1, <3>2 DEF MayDecide
  <2>4. ASSUME Replay(r), Decides(r)
        PROVE  Discloses(Cmd(r).actor, member[Cmd(r).actor], lead[Cmd(r).lead])
    <3>1. Done(r) /\ MayReplay(r) /\ Cmd(r).op \notin {"create", "edit"}
      BY <2>4 DEF Replay, Decides
    <3> QED BY <2>1, <2>4, <3>1 DEF MayReplay
  <2>5. ASSUME LinkContact(r), Cmd(r).action = "link"
        PROVE  Current(Cmd(r).target, Cmd(r).targetVersion)
    <3>1. Commit(r, "resolve")
      BY <2>5 DEF LinkContact
    <3>2. Done(r) /\ Resolves(r) /\ seen[r].fresh
      BY <3>1 DEF Commit, Resolves, Allowed, MayResolve
    <3>3. step[r] > 6 /\ step[r] \in 1 .. 7 /\ HasContacts(r)
      BY <1>1, <3>2, AtTheEnd DEF IInv, Knows, Resolves
    <3>4. Cmd(r).target # None
      BY <1>1, <2>5, <3>1, AtCommit, CommandParts DEF Ops
    <3> QED BY <3>2, <3>3, <3>4 DEF HasContacts
  <2>6. ASSUME Create(r) \/ Edit(r)
        PROVE  company = [active |-> TRUE, version |-> Cmd(r).companyVersion]
    <3>1. PICK op \in {"create", "edit"} : Commit(r, op)
      BY <2>6 DEF Create, Edit
    <3>2. Done(r) /\ ~seen[r].receipt /\ Cmd(r).op = op /\ Allowed(r)
      BY <3>1 DEF Commit
    <3>3. seen[r].company
      <4>1. CASE op = "create"
        BY <3>2, <4>1 DEF Allowed, MayCreate
      <4>2. CASE op = "edit"
        BY <3>2, <4>2 DEF Allowed, MayEdit
      <4> QED BY <4>1, <4>2
    <3>4. step[r] > 4 /\ step[r] \in 1 .. 7 /\ HasCompany(r)
      BY <1>1, <3>2, AtTheEnd DEF IInv, Knows
    <3> QED BY <3>2, <3>3, <3>4 DEF HasCompany
  <2> QED BY <2>3, <2>4, <2>5, <2>6
<1>2. IInv => [\A r \in Requests : Good(r)]_vars
  BY <1>1
<1> QED BY <1>2, Invariant, PTL DEF DecisionsAreCurrent

\* A decision that creates a contact, and an inquiry, have offered every contact
\* with the same address or number that another decision has made: to make
\* one takes the locks of its marks, which the search holds from before.
THEOREM AllContactsOffered == Spec => OffersAllContacts
<1> DEFINE Offers(r) ==
      LET marks == IF Decides(r) THEN lead[Cmd(r).lead].marks ELSE Cmd(r).marks
          offered == IF Decides(r) THEN review[Cmd(r).lead].offered ELSE seen[r].found
      IN  {f \in Found(marks) : contact[f.contact].by # None /\ f.version = 1}
            \subseteq offered
<1>1. ASSUME IInv, NEW r \in Requests, CreateContact(r)
      PROVE  Offers(r)
  <2>1. Commit(r, "resolve") /\ Cmd(r).action = "create"
    BY <1>1 DEF CreateContact
  <2>2. Done(r) /\ Decides(r) /\ Resolves(r) /\ seen[r].fresh
    BY <2>1 DEF Commit, Decides, Resolves, Allowed, MayResolve
  <2>3. Made(lead[Cmd(r).lead].marks) \subseteq seen[r].found
    BY <1>1, <2>1, CreatorHoldsMarks
  <2>4. step[r] > 6 /\ step[r] \in 1 .. 7 /\ HasContacts(r)
    BY <1>1, <2>2, AtTheEnd DEF IInv, Knows, Resolves
  <2>5. seen[r].found = seen[r].review.offered
    BY <2>2, <2>4 DEF HasContacts
  <2>6. seen[r].review = review[Cmd(r).lead]
    BY <1>1, <2>2, DecidesKnowing
  <2> QED BY <2>2, <2>3, <2>5, <2>6 DEF Made
<1>2. ASSUME IInv, NEW r \in Requests, Inquire(r)
      PROVE  Offers(r)
  <2>1. Done(r) /\ Cmd(r).op = "inquiry" /\ ~seen[r].receipt
    BY <1>2 DEF Inquire, Commit
  <2>2. step[r] > 4 /\ step[r] \in 1 .. 7 /\ HasMarks(r) /\ ~Decides(r)
    BY <1>2, <2>1, AtTheEnd DEF IInv, Knows, Decides
  <2>3. Made(Cmd(r).marks) \subseteq seen[r].found
    BY <2>1, <2>2 DEF HasMarks
  <2> QED BY <2>2, <2>3 DEF Made
<1>3. IInv => [\A r \in Requests : CreateContact(r) \/ Inquire(r) => Offers(r)]_vars
  BY <1>1, <1>2
<1> QED BY <1>3, Invariant, PTL DEF OffersAllContacts
-----------------------------------------------------------------------------
(* The form in which leads are written down, and its server: ScreenForm,   *)
(* for any options, texts and searches and any bounds.                     *)
CONSTANTS Kinds, Texts, Options, ChangingOptions, Queries, MaxKey, MaxRecordVersion,
          MaxToken, MaxCalls, MaxFailures, MaxMount

VARIABLES kind, editing, may, record, option, saved, noted, made, form, picker, draft,
          calls, stray, keys, submitted, failures, mounts

Form == INSTANCE ScreenForm
        WITH sent <- submitted, MaxVersion <- MaxRecordVersion, Changing <- ChangingOptions

\* A version and a text that were read from the record that is edited: the
\* text still belongs to the version.
Fresh(v, t) == v <= record[0].version /\ (v = record[0].version => t = record[0].text)

FormRows ==
    [denied : BOOLEAN, failed : BOOLEAN, ready : BOOLEAN, detail : Form!Details,
     busy : BOOLEAN, stale : BOOLEAN,
     conflict : [outcome : {"none", "changed", "unavailable"}, token : Form!Tokens],
     unresolved : BOOLEAN, result : [id : {0} \cup Form!Keys, version : Nat],
     request : [body : Form!Bodies \cup {Form!NoBody}, key : {0} \cup Form!Keys],
     written : BOOLEAN, noteFailed : BOOLEAN, refetch : BOOLEAN,
     noteVersion : Nat, noteRequest : [version : Nat, key : {0} \cup Form!Keys]]

PickerRows ==
    [mount : Nat \ {0}, items : SUBSET (Form!Tokens \ {Form!Unchosen}), selected : Form!Tokens,
     replacement : Form!Tokens, failed : BOOLEAN, loading : BOOLEAN, cursor : Nat,
     quick : {0} \cup Form!Keys, quickBusy : BOOLEAN]

RecordRows ==
    [version : 0 .. MaxRecordVersion, text : Texts \cup {"none"}, choice : Options \cup {0}]

FormServer ==
    /\ kind \in Kinds /\ editing \in BOOLEAN /\ may \in BOOLEAN
    /\ record \in [{0} \cup Form!Keys -> RecordRows]
    /\ option \in [Options -> [version : 0 .. MaxToken, on : BOOLEAN]]
    /\ \A o \in Options : option[o].on => option[o].version # 0
    /\ editing => record[0].text \in Texts
    /\ saved \in [Form!Keys -> Form!Bodies \cup {Form!NoBody}]
    /\ submitted \in [Form!Keys -> Form!Bodies \cup {Form!NoBody}]
    /\ \A k \in Form!Keys : saved[k] \in {Form!NoBody, submitted[k]}
    /\ noted \in [Form!Keys -> [id : {0} \cup Form!Keys, version : 0 .. MaxRecordVersion]]
    /\ made \in [Form!Keys -> Options \cup {0}]
    /\ keys \in 0 .. MaxKey

\* Between two keys that were drawn for the same body another body was sent.
SentOnce ==
    \A j, k \in Form!Keys : j < k /\ submitted[j] # Form!NoBody /\ submitted[j] = submitted[k]
        => \E i \in j + 1 .. k - 1 : submitted[i] \notin {Form!NoBody, submitted[j]}

\* What a request of the page names.
CallSound(c) ==
    /\ c = [op |-> c.op, args |-> c.args, answer |-> c.answer]
    /\ c.op \in {"load", "save", "note", "profile", "check", "search", "quick"}
    /\ c.op = "load" => c.args = <<>>
    /\ c.op = "save" =>
         /\ c.args.key \in Form!Keys /\ c.args.body \in Form!Bodies
         /\ c.args.body = submitted[c.args.key]
         /\ editing /\ ~c.args.typed => Fresh(c.args.body.version, c.args.body.text)
         /\ c.args.typed \in BOOLEAN /\ c.args.note \in BOOLEAN
    /\ c.op = "note" =>
         /\ c.args.id \in {0} \cup Form!Keys /\ c.args.key \in Form!Keys
         /\ c.args.version \in Nat \ {0}
    /\ c.op = "profile" => c.args.id \in {0} \cup Form!Keys
    /\ c.op = "check" => c.args.token \in Form!Tokens /\ kind = "lead"
    /\ c.op = "search" => c.args.query \in Queries
    /\ c.op = "quick" => c.args.key \in Form!Keys

\* What the server answers to it.
Fits(c, a) ==
    \/ a.code \in {"denied", "failed"}
    \/ c.op = "load" /\ a.code = "ok" /\ a.detail \in Form!Details
       /\ IF editing
          THEN /\ a.detail.text \in Texts /\ Fresh(a.detail.version, a.detail.text)
               /\ kind = "lead" => a.detail.choice # Form!Unchosen
          ELSE a.detail = Form!NoDetail
    \/ c.op = "save" /\ a.code = "ok"
       /\ a.result \in [id : {0} \cup Form!Keys, version : Nat \ {0}]
    \/ c.op = "save" /\ a.code = "stale" /\ editing
    \/ c.op = "save" /\ a.code \in {"changed", "unavailable"} /\ kind = "lead"
    \/ c.op = "note" /\ a.code \in {"ok", "stale"}
    \/ c.op = "profile" /\ a.code = "ok" /\ a.detail \in Form!Details
    \/ c.op = "check" /\ a.code = "unavailable"
    \/ c.op = "check" /\ a.code \in {"unchanged", "changed"}
       /\ a.current \in Form!Tokens \ {Form!Unchosen}
    \/ c.op = "search" /\ a.code = "ok"
       /\ a.items \subseteq Form!Tokens \ {Form!Unchosen} /\ a.cursor \in Nat
    \/ c.op = "quick" /\ a.code = "ok" /\ a.token \in Form!Tokens \ {Form!Unchosen}
       /\ Form!Chosen(a.token) = made[c.args.key]

CallsTyped == /\ \A c \in calls \cup stray : CallSound(c)
              /\ \A c \in calls : c.answer # Form!Pending => Fits(c, c.answer)

\* The page: a select is there while the form is shown, and a text that was
\* not typed is the one the form was loaded with.
FormPage ==
    /\ form \in FormRows /\ picker \in PickerRows \cup {Form!NoPicker} /\ mounts \in Nat
    /\ form.result = Form!NoResult \/ form.result.version # 0
    /\ form.noteRequest.version # 0 => form.noteRequest.key # 0
    /\ Form!View = "form" <=> picker # Form!NoPicker
    /\ Form!View = "form" =>
         /\ draft.text \in Texts /\ draft.typed \in BOOLEAN
         /\ editing /\ ~draft.typed => Fresh(form.detail.version, draft.text)

\* A submission: a save, or the note that follows one.
Submission(c) == c.op = "save" \/ (c.op = "note" /\ c.args.first)

\* Until access is lost, a load is under way only while nothing is loaded, and
\* one submission at most, for which the form is busy; a Contact's form never
\* waits for an option, and a form that is loaded anew has one that does only
\* when a Lead is edited.
Flight ==
    ~form.denied =>
      /\ form.busy => Form!View = "form" /\ ~form.stale
      /\ form.failed => ~form.ready
      /\ ~editing =>
           /\ ~form.stale
           /\ ~form.ready => ~form.unresolved /\ form.conflict = Form!NoConflict
      /\ kind # "lead" => /\ ~form.unresolved /\ form.conflict = Form!NoConflict
                          /\ Form!View = "form" => ~picker.failed
      /\ \A c \in calls : c.op = "load" => ~form.ready /\ ~form.failed
      /\ \A c, d \in calls : c.op = "load" /\ d.op = "load" => c = d
      /\ \A c \in calls : Submission(c) => form.busy
      /\ \A c, d \in calls : Submission(c) /\ Submission(d) => c = d

\* Until a result is shown, the form keeps the last key that it drew for a
\* save and the body it drew it for.
LastRequest ==
    ~form.denied /\ form.result = Form!NoResult
      /\ (\A c \in calls : ~(c.op = "note" /\ c.args.first))
    => /\ \A k \in Form!Keys : submitted[k] # Form!NoBody => k <= form.request.key
       /\ form.request.key <= keys
       /\ IF form.request.key = 0 THEN form.request.body = Form!NoBody
          ELSE form.request.body \in Form!Bodies
            /\ submitted[form.request.key] = form.request.body

\* Why Save may wait for an option: the select's check is under way, can be
\* retried or has found a replacement.
Reasons == \/ \E c \in calls : c.op = "check" /\ Form!Live(c)
           \/ picker.failed \/ picker.replacement # Form!Unchosen
Select ==
    Form!View = "form" =>
      /\ form.unresolved => Reasons
      /\ form.conflict # Form!NoConflict =>
           \/ Reasons \/ picker.selected = Form!Unchosen
           \/ \E k \in Form!Keys : made[k] = Form!Chosen(picker.selected)

\* The inductive invariant of the page and the server.
FormInv == /\ FormServer /\ SentOnce /\ CallsTyped /\ FormPage
           /\ Flight /\ LastRequest /\ Select
-----------------------------------------------------------------------------
LEMMA BoundsTyped ==
    ASSUME Form!BoundsAssumption
    PROVE  /\ MaxKey \in Nat /\ MaxRecordVersion \in Nat \ {0} /\ MaxToken \in Nat \ {0}
           /\ Options \subseteq Nat \ {0} /\ \A q \in Queries : q \subseteq Options
           /\ "none" \notin Texts /\ Kinds \subseteq {"contact", "lead"}
           /\ Form!NoBody \notin Form!Bodies
    BY DEF Form!BoundsAssumption, Form!NoBody, Form!Bodies

LEMMA TokensTyped ==
    ASSUME Form!BoundsAssumption, FormServer, NEW o \in Options \cup {0}, Form!On(o)
    PROVE  Form!Token(o) \in Form!Tokens \ {Form!Unchosen} /\ Form!Chosen(Form!Token(o)) = o
    BY BoundsTyped DEF FormServer, Form!On, Form!Token, Form!Tokens, Form!Unchosen, Form!Chosen

LEMMA DetailTyped ==
    ASSUME Form!BoundsAssumption, FormServer, NEW i \in {0} \cup Form!Keys
    PROVE  /\ Form!Detail(i) \in Form!Details
           /\ Form!HasProfile(i) /\ kind = "lead" => Form!Detail(i).choice # Form!Unchosen
           /\ Form!Detail(i).version = record[i].version /\ Form!Detail(i).text = record[i].text
<1>1. Form!Presented(i) \in Form!Tokens
  BY BoundsTyped, TokensTyped DEF FormServer, Form!Presented, Form!Tokens, RecordRows
<1>2. record[i] \in RecordRows
  BY DEF FormServer
<1>3. Form!Detail(i) \in Form!Details
  BY <1>1, <1>2 DEF Form!Detail, Form!Details, RecordRows
<1>4. Form!HasProfile(i) /\ kind = "lead" => Form!Detail(i).choice # Form!Unchosen
  BY <1>2, TokensTyped DEF Form!Detail, Form!HasProfile, Form!Presented, RecordRows
<1>5. QED
  BY <1>3, <1>4 DEF Form!Detail

\* Every answer of the server is one that its call expects.
LEMMA LoadFits ==
    ASSUME Form!BoundsAssumption, FormServer, NEW c, c.op = "load"
    PROVE  Fits(c, Form!Loaded)
<1>1. CASE editing /\ Form!HasProfile(0)
  <2>1. Form!Loaded = [code |-> "ok", detail |-> Form!Detail(0)]
    BY <1>1 DEF Form!Loaded, Form!ProfileOf
  <2>2. Fresh(Form!Detail(0).version, Form!Detail(0).text) /\ Form!Detail(0).text \in Texts
    BY <1>1, BoundsTyped, DetailTyped DEF Fresh, FormServer, RecordRows
  <2>3. QED
    BY <1>1, <2>1, <2>2, DetailTyped DEF Fits
<1>2. CASE ~(editing /\ Form!HasProfile(0))
  <2>1. Form!NoDetail \in Form!Details
    BY BoundsTyped DEF Form!NoDetail, Form!Details, Form!Tokens
  <2>2. QED
    BY <1>2, <2>1 DEF Form!Loaded, Form!ProfileOf, Fits, Form!Answer
<1>3. QED
  BY <1>1, <1>2

LEMMA ProfileFits ==
    ASSUME Form!BoundsAssumption, FormServer, NEW c, c.op = "profile",
           c.args.id \in {0} \cup Form!Keys
    PROVE  Fits(c, Form!ProfileOf(c.args.id))
    BY DetailTyped DEF Form!ProfileOf, Fits, Form!Answer

LEMMA CheckFits ==
    ASSUME Form!BoundsAssumption, FormServer, NEW c, c.op = "check",
           c.args.token \in Form!Tokens
    PROVE  Fits(c, Form!Checked(c.args.token))
<1> DEFINE t == c.args.token
<1>1. Form!Chosen(t) \in Options \cup {0}
  BY DEF Form!Tokens, Form!Unchosen, Form!Chosen
<1>2. CASE Form!On(Form!Chosen(t))
  BY <1>1, <1>2, TokensTyped DEF Form!Checked, Form!Outcome, Fits, Form!Answer
<1>3. CASE ~Form!On(Form!Chosen(t))
  BY <1>3 DEF Form!Checked, Form!Outcome, Fits, Form!Answer
<1>4. QED
  BY <1>2, <1>3

LEMMA LessIsWellFounded == IsWellFoundedOn({p \in Nat \X Nat : p[1] < p[2]}, Nat)
    BY NatLessThanWellFounded DEF OpToRel

LEMMA FirstFound ==
    ASSUME NEW s \in SUBSET Nat, s # {}
    PROVE  Form!First(s) \in s
<1> DEFINE Less == {p \in Nat \X Nat : p[1] < p[2]}
<1>1. IsWellFoundedOn(Less, Nat)
  BY LessIsWellFounded
<1> HIDE DEF Less
<1>2. \E x \in s : \A y \in s : <<y, x>> \notin Less
  BY <1>1, WFMin
<1>3. \A x, y \in Nat : <<x, y>> \notin Less => y <= x
  BY DEF Less
<1>4. \E x \in s : \A y \in s : x <= y
  BY <1>2, <1>3
<1>5. QED
  BY <1>4 DEF Form!First

LEMMA SearchFits ==
    ASSUME Form!BoundsAssumption, FormServer, NEW c, c.op = "search", c.args.query \in Queries
    PROVE  Fits(c, Form!Searched(c.args.query, c.args.after))
<1> DEFINE found == Form!Found(c.args.query, c.args.after)
<1>1. found \subseteq Options /\ \A o \in found : Form!On(o)
  BY BoundsTyped DEF Form!Found
<1>2. CASE ~may \/ found = {}
  BY <1>2 DEF Form!Searched, Fits, Form!Answer
<1>3. CASE may /\ found # {}
  <2>1. Form!First(found) \in found
    BY <1>1, <1>3, BoundsTyped, FirstFound
  <2>2. Form!Token(Form!First(found)) \in Form!Tokens \ {Form!Unchosen}
          /\ Form!First(found) \in Nat
    BY <1>1, <2>1, BoundsTyped, TokensTyped
  <2>3. QED
    BY <1>3, <2>2 DEF Form!Searched, Fits
<1>4. QED
  BY <1>2, <1>3
-----------------------------------------------------------------------------
\* What no step of the server takes back.
ServerOnward ==
    /\ \A v \in Nat : \A t : Fresh(v, t) => Fresh(v, t)'
    /\ \A k \in Form!Keys : made[k] # 0 => made'[k] = made[k]

LEMMA CallStaysSound ==
    ASSUME Form!BoundsAssumption, CallsTyped, ServerOnward, UNCHANGED <<kind, editing,
           submitted>>,
           NEW c \in calls \cup stray
    PROVE  CallSound(c)'
<1>1. CallSound(c)
  BY DEF CallsTyped
<1>2. c.op = "save" => c.args.body.version \in Nat
  BY <1>1, BoundsTyped DEF CallSound, Form!Bodies
<1>3. QED
  BY <1>1, <1>2 DEF CallSound, ServerOnward

LEMMA FitsStays ==
    ASSUME Form!BoundsAssumption, ServerOnward, UNCHANGED <<kind, editing>>, NEW c, NEW a,
           Fits(c, a), CallSound(c)
    PROVE  Fits(c, a)'
<1>1. CASE c.op = "load" /\ a.code = "ok" /\ a.detail \in Form!Details
  <2>1. a.detail.version \in Nat
    BY <1>1, BoundsTyped DEF Form!Details
  <2>2. QED
    BY <1>1, <2>1 DEF Fits, ServerOnward
<1>2. CASE c.op = "quick" /\ a.code = "ok" /\ a.token \in Form!Tokens \ {Form!Unchosen}
           /\ Form!Chosen(a.token) = made[c.args.key]
  <2>1. Form!Chosen(a.token) # 0 /\ c.args.key \in Form!Keys
    BY <1>2, BoundsTyped DEF Form!Tokens, Form!Unchosen, Form!Chosen, CallSound
  <2>2. QED
    BY <1>2, <2>1 DEF Fits, ServerOnward, Form!Chosen
<1>3. CASE ~(c.op \in {"load", "quick"} /\ a.code = "ok")
  BY <1>3 DEF Fits
<1>4. QED
  BY <1>1, <1>2, <1>3 DEF Fits

LEMMA PageStays ==
    ASSUME Form!BoundsAssumption, FormInv, ServerOnward, UNCHANGED <<kind, editing, Form!page,
           Form!counts>>
    PROVE  FormPage'
<1>1. Form!View' = Form!View
  BY DEF Form!page, Form!View, Form!ViewOf
<1>2. form.detail.version \in Nat
  BY BoundsTyped DEF FormInv, FormPage, FormRows, Form!Details
<1>3. QED
  BY <1>1, <1>2 DEF FormInv, FormPage, ServerOnward, Form!page, Form!counts

\* A request and the same request with its answer.
Served(c, a) == [c EXCEPT !.answer = a]

LEMMA ServedParts ==
    ASSUME NEW c, NEW a, c = [op |-> c.op, args |-> c.args, answer |-> c.answer]
    PROVE  /\ Served(c, a) = [op |-> c.op, args |-> c.args, answer |-> a]
           /\ Served(c, a).op = c.op /\ Served(c, a).args = c.args
           /\ Served(c, a).answer = a
    BY DEF Served

\* The server's answer reaches the page's call, or a call it has given up.
LEMMA Answering ==
    ASSUME Form!BoundsAssumption, FormInv, FormServer', ServerOnward,
           NEW c \in calls \cup stray, c.answer = Form!Pending, NEW a, Form!Answered(c, a),
           Fits(c, a)'
    PROVE  FormInv'
<1> DEFINE d == Served(c, a)
<1>1. UNCHANGED <<kind, editing, Form!page, Form!counts>>
  BY DEF Form!Answered
<1>2. CallSound(c) /\ CallSound(c)'
  BY <1>1, CallStaysSound DEF FormInv, CallsTyped, Form!counts
<1>3. /\ d = [op |-> d.op, args |-> d.args, answer |-> d.answer]
      /\ d.op = c.op /\ d.args = c.args /\ d.answer = a
  BY <1>2, ServedParts DEF CallSound
<1>4. CallSound(d)'
  BY <1>2, <1>3 DEF CallSound
<1>5. Fits(d, a)'
  BY <1>3 DEF Fits
<1>6. \/ stray' = stray /\ c \in calls /\ calls' = (calls \ {c}) \cup {d}
      \/ stray' = stray \ {c} /\ calls' = calls
  BY DEF Form!Answered, Served
<1> HIDE DEF d
<1>7. CallsTyped'
  <2>1. ASSUME NEW e \in (calls \cup stray)' PROVE CallSound(e)'
    BY <1>1, <1>4, <1>6, <2>1, CallStaysSound DEF FormInv, Form!counts
  <2>2. ASSUME NEW e \in calls', e.answer # Form!Pending PROVE Fits(e, e.answer)'
    <3>1. CASE e = d
      BY <1>3, <1>5, <3>1
    <3>2. CASE e # d
      <4>1. e \in calls
        BY <1>6, <2>2, <3>2
      <4>2. CallSound(e) /\ Fits(e, e.answer)
        BY <2>2, <4>1 DEF FormInv, CallsTyped
      <4>3. QED
        BY <1>1, <4>2, FitsStays
    <3>3. QED
      BY <3>1, <3>2
  <2>3. QED
    BY <2>1, <2>2 DEF CallsTyped
<1>8. Form!View' = Form!View /\ form' = form /\ picker' = picker
  BY <1>1 DEF Form!page, Form!View, Form!ViewOf
<1>9. FormPage'
  BY <1>1, PageStays
<1>10. \A e \in calls' : e \in calls \/ (e = d /\ c \in calls)
  BY <1>6
<1>11. Flight'
  <2> USE DEF FormInv, Flight, Submission
  <2>1. \A e \in calls' : e.op = "load" /\ ~form.denied => ~form.ready /\ ~form.failed
    BY <1>3, <1>10
  <2>2. \A e, f \in calls' : ~form.denied /\ e.op = "load" /\ f.op = "load" => e = f
    BY <1>3, <1>6
  <2>3. \A e \in calls' : ~form.denied /\ Submission(e) => form.busy
    BY <1>3, <1>10
  <2>4. \A e, f \in calls' : ~form.denied /\ Submission(e) /\ Submission(f) => e = f
    BY <1>3, <1>6
  <2>5. QED
    BY <1>1, <1>8, <2>1, <2>2, <2>3, <2>4 DEF Form!counts
<1>12. LastRequest'
  <2>1. (\A e \in calls' : ~(e.op = "note" /\ e.args.first))
          => \A e \in calls : ~(e.op = "note" /\ e.args.first)
    BY <1>3, <1>6
  <2>2. QED
    BY <1>1, <1>8, <2>1 DEF FormInv, LastRequest, Form!counts
<1>13. Select'
  <2>1. CASE Form!View = "form"
    <3>1. picker \in PickerRows
      BY <2>1 DEF FormInv, FormPage
    <3>2. Reasons => Reasons'
      BY <1>3, <1>6, <1>8 DEF Reasons, Form!Live
    <3>3. ASSUME NEW k \in Form!Keys, made[k] = Form!Chosen(picker.selected),
                 picker.selected # Form!Unchosen
          PROVE  made'[k] = Form!Chosen(picker.selected)
      <4>1. Form!Chosen(picker.selected) # 0
        BY <3>1, <3>3, BoundsTyped DEF PickerRows, Form!Tokens, Form!Unchosen, Form!Chosen
      <4>2. QED
        BY <3>3, <4>1 DEF ServerOnward
    <3>4. QED
      BY <1>8, <2>1, <3>2, <3>3 DEF FormInv, Select, Form!Chosen
  <2>2. CASE Form!View # "form"
    BY <1>8, <2>2 DEF Select
  <2>3. QED
    BY <2>1, <2>2
<1>14. SentOnce'
  BY <1>1 DEF FormInv, SentOnce, Form!counts
<1>15. QED
  BY <1>7, <1>9, <1>11, <1>12, <1>13, <1>14 DEF FormInv

\* What the server does with a call.
LEMMA ReadStep ==
    ASSUME Form!BoundsAssumption, FormInv, NEW c \in calls \cup stray, c.answer = Form!Pending,
           Form!ServeRead(c)
    PROVE  FormInv'
<1>1. CallSound(c) /\ FormServer
  BY DEF FormInv, CallsTyped
<1>2. UNCHANGED Form!server /\ UNCHANGED <<kind, editing, Form!counts>>
  BY DEF Form!ServeRead, Form!Answered
<1>3. FormServer' /\ ServerOnward
  BY <1>1, <1>2 DEF FormServer, ServerOnward, Form!server, Form!counts, Fresh
<1>4. ASSUME NEW a, Fits(c, a) PROVE Fits(c, a)'
  BY <1>1, <1>2, <1>3, <1>4, FitsStays
<1>5. CASE c.op = "load" /\ Form!Answered(c, Form!Loaded)
  BY <1>1, <1>3, <1>4, <1>5, LoadFits, Answering
<1>6. CASE c.op = "profile" /\ Form!Answered(c, Form!ProfileOf(c.args.id))
  BY <1>1, <1>3, <1>4, <1>6, ProfileFits, Answering DEF CallSound
<1>7. CASE c.op = "check" /\ Form!Answered(c, Form!Checked(c.args.token))
  BY <1>1, <1>3, <1>4, <1>7, CheckFits, Answering DEF CallSound
<1>8. CASE c.op = "search" /\ Form!Answered(c, Form!Searched(c.args.query, c.args.after))
  BY <1>1, <1>3, <1>4, <1>8, SearchFits, Answering DEF CallSound
<1>9. QED
  BY <1>5, <1>6, <1>7, <1>8 DEF Form!ServeRead

LEMMA SaveStep ==
    ASSUME Form!BoundsAssumption, FormInv, NEW c \in calls \cup stray, c.answer = Form!Pending,
           Form!ServeSave(c)
    PROVE  FormInv'
<1> DEFINE k == c.args.key
           body == c.args.body
           verdict == Form!Verdict(k, body)
<1> PICK a : a = IF verdict \in {"ok", "replayed"}
                 THEN [code |-> "ok", result |-> Form!Result(k, body)] ELSE Form!Answer(verdict)
  OBVIOUS
<1>1. /\ CallSound(c) /\ FormServer /\ c.op = "save"
      /\ k \in Form!Keys /\ body \in Form!Bodies /\ body = submitted[k]
      /\ Form!Answered(c, a) /\ UNCHANGED <<kind, editing, may, option, noted, made,
           Form!counts>>
      /\ verdict = "ok" => record[0].version < MaxRecordVersion
      /\ IF verdict = "ok"
         THEN /\ record' = [record EXCEPT ![Form!Target(k)] = Form!Stored(k, body)]
              /\ saved' = [saved EXCEPT ![k] = body]
         ELSE UNCHANGED <<record, saved>>
  BY DEF FormInv, CallsTyped, CallSound, Form!ServeSave, Form!Answered
<1>2. /\ body.version \in 0 .. MaxRecordVersion /\ body.text \in Texts
      /\ body.choice \in Form!Tokens /\ Form!Chosen(body.choice) \in Options \cup {0}
  BY <1>1 DEF Form!Bodies, Form!Tokens, Form!Unchosen, Form!Chosen
<1>3. 0 \notin Form!Keys /\ Form!Target(k) \in {0} \cup Form!Keys
        /\ (Form!Target(k) = 0 <=> editing)
  BY <1>1 DEF Form!Keys, Form!Target
<1>4. Form!Stored(k, body) \in RecordRows
          \/ verdict # "ok"
  <2>1. CASE editing /\ verdict = "ok"
    <3>1. record[0] \in RecordRows
      BY <1>1 DEF FormServer
    <3>2. QED
      BY <1>1, <1>2, <2>1, <3>1, BoundsTyped DEF Form!Stored, RecordRows
  <2>2. CASE ~editing
    BY <1>1, <1>2, <2>2, BoundsTyped DEF Form!Stored, RecordRows
  <2>3. QED
    BY <2>1, <2>2
<1>5. FormServer'
  <2>1. CASE verdict = "ok"
    <3>1. record' \in [{0} \cup Form!Keys -> RecordRows]
      BY <1>1, <1>3, <1>4, <2>1 DEF FormServer
    <3>2. editing' => record'[0].text \in Texts
      BY <1>1, <1>2, <1>3, <2>1 DEF FormServer, Form!Stored
    <3>3. /\ saved' \in [Form!Keys -> Form!Bodies \cup {Form!NoBody}]
          /\ \A j \in Form!Keys : saved'[j] \in {Form!NoBody, submitted[j]}
      BY <1>1, <2>1 DEF FormServer
    <3>4. QED
      BY <1>1, <3>1, <3>2, <3>3 DEF FormServer, Form!counts
  <2>2. CASE verdict # "ok"
    BY <1>1, <2>2 DEF FormServer, Form!counts
  <2>3. QED
    BY <2>1, <2>2
<1>6. ServerOnward
  <2>1. CASE verdict = "ok" /\ editing
    <3>1. record'[0].version = record[0].version + 1 /\ record[0].version \in Nat
      BY <1>1, <1>3, <2>1, BoundsTyped DEF FormServer, Form!Stored, RecordRows
    <3>2. QED
      BY <1>1, <3>1 DEF ServerOnward, Fresh
  <2>2. CASE verdict # "ok" \/ ~editing
    <3>1. record'[0] = record[0]
      BY <1>1, <1>3, <2>2 DEF FormServer
    <3>2. QED
      BY <1>1, <3>1 DEF ServerOnward, Fresh
  <2>3. QED
    BY <2>1, <2>2
<1>7. Fits(c, a)
  <2>1. CASE verdict \in {"ok", "replayed"}
    <3>1. Form!Result(k, body) \in [id : {0} \cup Form!Keys, version : Nat \ {0}]
      BY <1>2, <1>3, BoundsTyped DEF Form!Result
    <3>2. QED
      BY <1>1, <2>1, <3>1 DEF Fits
  <2>2. CASE verdict = "stale"
    <3>1. editing
      BY <2>2, <1>2 DEF Form!Verdict, Form!UpToDate, Form!Reconciled, Form!Outcome
    <3>2. QED
      BY <1>1, <2>2, <3>1 DEF Fits, Form!Answer
  <2>3. CASE verdict \notin {"ok", "replayed", "stale"}
    <3>1. verdict = "denied" \/ (verdict \in {"changed", "unavailable"} /\ kind = "lead")
      BY <2>3 DEF Form!Verdict, Form!Reconciled, Form!Outcome
    <3>2. QED
      BY <1>1, <2>3, <3>1 DEF Fits, Form!Answer
  <2>4. QED
    BY <2>1, <2>2, <2>3
<1> HIDE DEF verdict, k, body
<1>8. Fits(c, a)'
  BY <1>1, <1>6, <1>7, FitsStays
<1>9. QED
  BY <1>1, <1>5, <1>6, <1>8, Answering

LEMMA NoteStep ==
    ASSUME Form!BoundsAssumption, FormInv, NEW c \in calls \cup stray, c.answer = Form!Pending,
           Form!ServeNote(c)
    PROVE  FormInv'
<1> DEFINE verdict == Form!NoteVerdict(c.args.id, c.args.version, c.args.key)
<1> PICK a : a = Form!Answer(IF verdict = "replayed" THEN "ok" ELSE verdict)
  OBVIOUS
<1>1. /\ CallSound(c) /\ FormServer /\ c.op = "note"
      /\ c.args.key \in Form!Keys /\ c.args.id \in {0} \cup Form!Keys
      /\ Form!Answered(c, a)
      /\ UNCHANGED <<kind, editing, may, record, option, saved, made, Form!counts>>
      /\ noted' = IF verdict = "ok"
                  THEN [noted EXCEPT ![c.args.key] = [id |-> c.args.id,
                    version |-> c.args.version]]
                  ELSE noted
  BY DEF FormInv, CallsTyped, CallSound, Form!ServeNote, Form!Answered
<1>2. verdict \in {"denied", "stale", "replayed", "ok"}
      /\ (verdict = "ok" => c.args.version = record[c.args.id].version)
  BY DEF Form!NoteVerdict
<1>3. Fits(c, a)
  BY <1>1, <1>2 DEF Fits, Form!Answer
<1>4. record[c.args.id].version \in 0 .. MaxRecordVersion
  BY <1>1 DEF FormServer, RecordRows
<1>5. noted' \in [Form!Keys -> [id : {0} \cup Form!Keys, version : 0 .. MaxRecordVersion]]
  BY <1>1, <1>2, <1>4 DEF FormServer
<1>6. FormServer'
  BY <1>1, <1>5 DEF FormServer, Form!counts
<1>7. ServerOnward
  BY <1>1 DEF ServerOnward, Fresh
<1>8. Fits(c, a)'
  BY <1>1, <1>3, <1>7, FitsStays
<1>9. QED
  BY <1>1, <1>6, <1>7, <1>8, Answering

LEMMA QuickStep ==
    ASSUME Form!BoundsAssumption, FormInv, NEW c \in calls \cup stray, c.answer = Form!Pending,
           Form!ServeQuick(c)
    PROVE  FormInv'
<1> DEFINE k == c.args.key
<1>1. /\ CallSound(c) /\ FormServer /\ c.op = "quick" /\ k \in Form!Keys
      /\ UNCHANGED <<may, record, saved, noted>>
  BY DEF FormInv, CallsTyped, CallSound, Form!ServeQuick
<1>2. CASE ~may /\ Form!Answered(c, Form!Answer("denied")) /\ UNCHANGED <<option, made>>
  <2>1. Fits(c, Form!Answer("denied"))'
    BY DEF Fits, Form!Answer
  <2>2. FormServer' /\ ServerOnward
    BY <1>1, <1>2 DEF FormServer, ServerOnward, Fresh, Form!Answered, Form!counts
  <2>3. QED
    BY <1>2, <2>1, <2>2, Answering
<1>3. CASE /\ may /\ made[k] # 0 /\ Form!Answered(c, [code |-> "ok", token |-> <<made[k], 1>>])
           /\ UNCHANGED <<option, made>>
  <2> DEFINE a == [code |-> "ok", token |-> <<made[k], 1>>]
  <2>1. <<made[k], 1>> \in Form!Tokens \ {Form!Unchosen}
    BY <1>1, <1>3, BoundsTyped DEF FormServer, Form!Tokens, Form!Unchosen
  <2>2. Fits(c, a)'
    BY <1>1, <1>3, <2>1 DEF Fits, Form!Chosen
  <2>3. FormServer' /\ ServerOnward
    BY <1>1, <1>3 DEF FormServer, ServerOnward, Fresh, Form!Answered, Form!counts
  <2>4. QED
    BY <1>3, <2>2, <2>3, Answering
<1>4. ASSUME NEW o \in Form!Unmade, may, made[k] = 0,
             option' = [option EXCEPT ![o] = [version |-> 1, on |-> TRUE]],
             made' = [made EXCEPT ![k] = o],
             Form!Answered(c, [code |-> "ok", token |-> <<o, 1>>])
      PROVE  FormInv'
  <2> DEFINE a == [code |-> "ok", token |-> <<o, 1>>]
  <2>1. o \in Options /\ <<o, 1>> \in Form!Tokens \ {Form!Unchosen}
    BY BoundsTyped DEF Form!Unmade, Form!Tokens, Form!Unchosen
  <2>2. made'[k] = o
    BY <1>1, <1>4 DEF FormServer
  <2>3. Fits(c, a)'
    BY <1>1, <2>1, <2>2 DEF Fits, Form!Chosen
  <2>4. option' \in [Options -> [version : 0 .. MaxToken, on : BOOLEAN]]
        /\ \A p \in Options : option'[p].on => option'[p].version # 0
    BY <1>1, <1>4, <2>1, BoundsTyped DEF FormServer
  <2>5. made' \in [Form!Keys -> Options \cup {0}]
    BY <1>1, <1>4, <2>1 DEF FormServer
  <2>6. FormServer'
    BY <1>1, <1>4, <2>4, <2>5 DEF FormServer, Form!Answered, Form!counts
  <2>7. ServerOnward
    BY <1>1, <1>4 DEF FormServer, ServerOnward, Fresh
  <2>8. QED
    BY <1>4, <2>3, <2>6, <2>7, Answering
<1>5. QED
  BY <1>2, <1>3, <1>4 DEF Form!ServeQuick

LEMMA ServeStep == ASSUME Form!BoundsAssumption, FormInv, Form!Serve PROVE FormInv'
    BY ReadStep, SaveStep, NoteStep, QuickStep DEF Form!Serve

\* Other users change a record or an option, or the actor's role.
LEMMA ElsewhereStep ==
    ASSUME Form!BoundsAssumption, FormInv, Form!RecordChanges \/ Form!OptionChanges
           \/ Form!AuthorityLost
    PROVE  FormInv'
<1>1. UNCHANGED <<kind, editing, saved, noted, made, Form!page, calls, stray, Form!counts>>
  BY DEF Form!RecordChanges, Form!OptionChanges, Form!AuthorityLost, Form!Elsewhere
<1>2. FormServer' /\ ServerOnward
  <2>1. CASE Form!RecordChanges
    <3>1. PICK i \in {0} \cup Form!Keys, t \in Texts :
            /\ record[i].version \in 1 .. MaxRecordVersion - 1
            /\ record' = [record EXCEPT ![i].version = @ + 1, ![i].text = t]
            /\ UNCHANGED <<may, option>>
      BY <2>1 DEF Form!RecordChanges
    <3> DEFINE now == [record[i] EXCEPT !.version = record[i].version + 1, !.text = t]
    <3>2. record' = [record EXCEPT ![i] = now]
      BY <3>1
    <3>7. record[i] \in RecordRows
      BY DEF FormInv, FormServer
    <3>9. record[i].version + 1 \in 0 .. MaxRecordVersion
      BY <3>1, BoundsTyped
    <3>8. now \in RecordRows /\ now.version = record[i].version + 1 /\ now.text = t
      BY <3>1, <3>7, <3>9 DEF RecordRows
    <3> HIDE DEF now
    <3>3. record' \in [{0} \cup Form!Keys -> RecordRows]
      BY <3>2, <3>8 DEF FormInv, FormServer
    <3>4. record'[0] = record[0] \/ (record'[0].version = record[0].version + 1
            /\ record'[0].text = t)
      BY <3>2, <3>8 DEF FormInv, FormServer
    <3>5. record[0].version \in Nat
      BY BoundsTyped DEF FormInv, FormServer, RecordRows
    <3>6. QED
      BY <1>1, <3>1, <3>3, <3>4, <3>5 DEF FormInv, FormServer, ServerOnward, Fresh, Form!counts
  <2>2. CASE Form!OptionChanges
    <3>1. PICK o \in ChangingOptions, on \in BOOLEAN :
            /\ option[o].version < MaxToken
            /\ option' = [option EXCEPT ![o] = [version |-> @.version + 1, on |-> on]]
            /\ UNCHANGED <<may, record>>
      BY <2>2 DEF Form!OptionChanges
    <3>2. o \in Options
      BY DEF Form!BoundsAssumption
    <3>3. option' \in [Options -> [version : 0 .. MaxToken, on : BOOLEAN]]
          /\ \A p \in Options : option'[p].on => option'[p].version # 0
      BY <3>1, <3>2, BoundsTyped DEF FormInv, FormServer
    <3>4. QED
      BY <1>1, <3>1, <3>3 DEF FormInv, FormServer, ServerOnward, Fresh, Form!counts
  <2>3. CASE Form!AuthorityLost
    BY <1>1, <2>3 DEF Form!AuthorityLost, FormInv, FormServer, ServerOnward, Fresh, Form!counts
  <2>4. QED
    BY <2>1, <2>2, <2>3
<1>3. FormPage'
  BY <1>1, <1>2, PageStays
<1>4. CallsTyped'
  <2>1. \A c \in calls \cup stray : CallSound(c)'
    BY <1>1, <1>2, CallStaysSound DEF FormInv, Form!counts
  <2>2. \A c \in calls : c.answer # Form!Pending => Fits(c, c.answer)'
    BY <1>1, <1>2, FitsStays DEF FormInv, CallsTyped
  <2>3. QED
    BY <1>1, <2>1, <2>2 DEF CallsTyped
<1>5. Form!View' = Form!View
  BY <1>1 DEF Form!page, Form!View, Form!ViewOf
<1>6. Flight' /\ LastRequest' /\ SentOnce'
  BY <1>1, <1>5 DEF FormInv, Flight, LastRequest, SentOnce, Submission, Form!page, Form!counts
<1>7. Select'
  BY <1>1, <1>5 DEF FormInv, Select, Reasons, Form!Live, Form!page
<1>8. QED
  BY <1>2, <1>3, <1>4, <1>6, <1>7 DEF FormInv
-----------------------------------------------------------------------------
\* What the steps of the page have in common.
PageMoves ==
    /\ UNCHANGED <<kind, editing, Form!server, submitted>>
    /\ keys \in 0 .. keys' /\ keys' \in 0 .. MaxKey /\ mounts' \in Nat
    /\ \A c \in calls' : c \in calls \/ (CallSound(c) /\ c.answer = Form!Pending)
    /\ stray' \subseteq calls \cup stray

\* What makes a state of the form and its select one of its states.
RowsSound(f, p) ==
    /\ f \in FormRows /\ p \in PickerRows \cup {Form!NoPicker}
    /\ f.result = Form!NoResult \/ f.result.version # 0
    /\ f.noteRequest.version # 0 => f.noteRequest.key # 0

LEMMA MovesKeep ==
    ASSUME Form!BoundsAssumption, FormInv, PageMoves
    PROVE  FormServer' /\ SentOnce' /\ CallsTyped'
<1>1. FormServer' /\ SentOnce'
  BY DEF PageMoves, FormInv, FormServer, SentOnce, Form!server
<1>2. ASSUME NEW c, CallSound(c) PROVE CallSound(c)'
  BY <1>2 DEF PageMoves, CallSound, Fresh, Form!server
<1>3. ASSUME NEW c, NEW a, Fits(c, a) PROVE Fits(c, a)'
  BY <1>3 DEF PageMoves, Fits, Fresh, Form!server
<1>4. ASSUME NEW c \in calls' \cup stray' PROVE CallSound(c)'
  <2>1. CallSound(c)
    BY <1>4 DEF PageMoves, FormInv, CallsTyped
  <2>2. QED
    BY <1>2, <2>1
<1>5. ASSUME NEW c \in calls', c.answer # Form!Pending PROVE Fits(c, c.answer)'
  <2>1. Fits(c, c.answer)
    BY <1>5 DEF PageMoves, FormInv, CallsTyped
  <2>2. QED
    BY <1>3, <2>1
<1>6. QED
  BY <1>1, <1>4, <1>5 DEF CallsTyped

\* Once access is lost nothing of the page matters any more.
LEMMA DeniedStays ==
    ASSUME Form!BoundsAssumption, FormInv, PageMoves, RowsSound(form', Form!NoPicker),
           form'.denied,
           picker' = Form!NoPicker
    PROVE  FormInv'
<1>1. FormServer' /\ SentOnce' /\ CallsTyped'
  BY MovesKeep
<1>2. Form!View' = "denied"
  BY DEF Form!View, Form!ViewOf
<1>3. QED
  BY <1>1, <1>2 DEF FormInv, FormPage, RowsSound, PageMoves, Flight, LastRequest, Select

LEMMA ClearedSound ==
    ASSUME Form!BoundsAssumption
    PROVE  /\ RowsSound(Form!Cleared, Form!NoPicker) /\ Form!Cleared.denied
           /\ Form!Blank \in FormRows /\ RowsSound(Form!Blank, Form!NoPicker)
<1>1. Form!NoDetail \in Form!Details
  BY BoundsTyped DEF Form!NoDetail, Form!Details, Form!Tokens
<1>2. Form!NoRequest \in [body : Form!Bodies \cup {Form!NoBody}, key : {0} \cup Form!Keys]
  BY DEF Form!NoRequest
<1>3. Form!NoConflict \in [outcome : {"none", "changed", "unavailable"}, token : Form!Tokens]
  BY DEF Form!NoConflict, Form!Tokens
<1>4. Form!NoResult \in [id : {0} \cup Form!Keys, version : Nat]
        /\ Form!NoNote \in [version : Nat, key : {0} \cup Form!Keys]
  BY DEF Form!NoResult, Form!NoNote
<1>5. Form!Blank \in FormRows
  BY <1>1, <1>2, <1>3, <1>4 DEF Form!Blank, FormRows
<1>6. QED
  BY <1>5 DEF RowsSound, Form!Cleared, FormRows, Form!Blank, Form!NoResult, Form!NoNote

LEMMA Denial ==
    ASSUME Form!BoundsAssumption, FormInv, PageMoves, Form!Leave(Form!Cleared)
    PROVE  FormInv'
    BY DeniedStays, ClearedSound DEF Form!Leave

IsFirst(c) == c.op = "note" /\ c.args.first

LEMMA RequestStays ==
    ASSUME FormInv, UNCHANGED submitted, keys \in 0 .. keys', keys' \in Nat,
           form'.request = form.request, form.denied => form'.denied,
           form'.result = Form!NoResult => form.result = Form!NoResult,
           (\E c \in calls : IsFirst(c))
             => (\E c \in calls' : IsFirst(c)) \/ form'.denied \/ form'.result # Form!NoResult
    PROVE  LastRequest'
<1> SUFFICES ASSUME ~form'.denied, form'.result = Form!NoResult, \A c \in calls' : ~IsFirst(c)
             PROVE  /\ \A k \in Form!Keys : submitted[k] # Form!NoBody => k <= form.request.key
                    /\ form.request.key <= keys
                    /\ IF form.request.key = 0 THEN form.request.body = Form!NoBody
                       ELSE form.request.body \in Form!Bodies
                         /\ submitted[form.request.key] = form.request.body
                    /\ form.request.key \in Nat
  BY DEF LastRequest, IsFirst
<1>1. form.request.key \in Nat
  BY DEF FormInv, FormPage, FormRows, Form!Keys
<1>2. QED
  BY <1>1 DEF FormInv, LastRequest, IsFirst

\* A step that touches nothing of the page that Save depends on.
SameForm == \A x \in {"denied", "failed", "ready", "detail", "busy", "stale", "conflict",
                     "unresolved", "result", "request"} : form'[x] = form[x]
SamePicker == /\ picker = Form!NoPicker <=> picker' = Form!NoPicker
              /\ picker # Form!NoPicker =>
                    \A x \in {"mount", "selected", "replacement", "failed"} :
                        picker'[x] = picker[x]

LEMMA QuietStep ==
    ASSUME Form!BoundsAssumption, FormInv, PageMoves, RowsSound(form', picker'),
           SameForm, SamePicker, Form!View = "form" => UNCHANGED draft,
           \A c \in calls' : c \in calls \/ (c.op # "load" /\ ~Submission(c)),
           \A c \in calls : c \in calls' \/ (c.op # "check" /\ ~IsFirst(c))
    PROVE  FormInv'
<1>1. FormServer' /\ SentOnce' /\ CallsTyped'
  BY MovesKeep
<1>2. /\ form'.denied = form.denied /\ form'.failed = form.failed /\ form'.ready = form.ready
      /\ form'.detail = form.detail /\ form'.busy = form.busy /\ form'.stale = form.stale
      /\ form'.conflict = form.conflict /\ form'.unresolved = form.unresolved
      /\ form'.result = form.result /\ form'.request = form.request
  BY DEF SameForm
<1>3. /\ picker = Form!NoPicker <=> picker' = Form!NoPicker
      /\ picker # Form!NoPicker =>
           /\ picker'.mount = picker.mount /\ picker'.selected = picker.selected
           /\ picker'.replacement = picker.replacement /\ picker'.failed = picker.failed
  BY DEF SamePicker
<1>4. Form!View' = Form!View
  BY <1>2 DEF Form!View, Form!ViewOf
<1>5. FormPage'
  BY <1>2, <1>3, <1>4 DEF FormInv, FormPage, RowsSound, PageMoves, Fresh, Form!server
<1>6. Flight'
  <2>1. UNCHANGED <<kind, editing>>
    BY DEF PageMoves
  <2>2. ~form.denied => \A c \in calls' : c.op = "load" => ~form.ready /\ ~form.failed
    BY DEF FormInv, Flight
  <2>3. ~form.denied => \A c, d \in calls' : c.op = "load" /\ d.op = "load" => c = d
    BY DEF FormInv, Flight
  <2>4. ~form.denied => \A c \in calls' : Submission(c) => form.busy
    BY DEF FormInv, Flight
  <2>5. ~form.denied => \A c, d \in calls' : Submission(c) /\ Submission(d) => c = d
    BY DEF FormInv, Flight
  <2>6. Form!View = "form" => picker # Form!NoPicker
    BY DEF FormInv, FormPage
  <2>7. QED
    BY <1>2, <1>3, <1>4, <2>1, <2>2, <2>3, <2>4, <2>5, <2>6 DEF FormInv, Flight, Submission
<1>7. LastRequest'
  <2>1. keys' \in Nat
    BY DEF PageMoves
  <2>2. QED
    BY <1>2, <2>1, RequestStays DEF PageMoves
<1>8. Select'
  <2>1. Form!View = "form" /\ Reasons => Reasons'
    BY <1>3 DEF FormInv, FormPage, Reasons, Form!Live
  <2>2. Form!View = "form" => picker # Form!NoPicker
    BY DEF FormInv, FormPage
  <2>3. QED
    BY <1>2, <1>3, <1>4, <2>1, <2>2 DEF FormInv, Select, PageMoves, Form!server
<1>9. QED
  BY <1>1, <1>5, <1>6, <1>7, <1>8 DEF FormInv

LEMMA FormTyped ==
    ASSUME Form!BoundsAssumption, FormInv
    PROVE  /\ RowsSound(form, picker) /\ form \in FormRows
           /\ keys \in Nat /\ keys \in 0 .. MaxKey /\ mounts \in Nat
           /\ Form!View = "form" => /\ picker \in PickerRows /\ picker # Form!NoPicker
                                    /\ ~form.denied /\ ~form.failed /\ form.ready
                                    /\ form.result = Form!NoResult
           /\ Form!View # "form" => picker = Form!NoPicker
    BY BoundsTyped DEF FormInv, FormServer, FormPage, RowsSound, Form!View, Form!ViewOf

\* A call that the page makes.
LEMMA CallParts ==
    ASSUME NEW op, NEW args
    PROVE  /\ Form!Call(op, args).op = op /\ Form!Call(op, args).args = args
           /\ Form!Call(op, args).answer = Form!Pending
           /\ Form!Call(op, args) = [op |-> op, args |-> args, answer |-> Form!Pending]
    BY DEF Form!Call

LEMMA NoteKeyTyped ==
    ASSUME Form!BoundsAssumption, FormInv, NEW version \in Nat \ {0},
           Form!NoteKey(version) <= MaxKey
    PROVE  /\ Form!NoteKey(version) \in Form!Keys
           /\ Form!NoteDrawn(version) => keys \in 0 .. keys' /\ keys' \in 0 .. MaxKey
<1>1. form.noteRequest \in [version : Nat, key : {0} \cup Form!Keys]
      /\ (form.noteRequest.version # 0 => form.noteRequest.key # 0)
  BY FormTyped DEF FormRows, RowsSound
<1>2. Form!NoteKey(version) \in Form!Keys
  BY <1>1, FormTyped, BoundsTyped DEF Form!NoteKey, Form!Keys
<1>3. Form!NoteDrawn(version) => keys \in 0 .. keys' /\ keys' \in 0 .. MaxKey
  BY <1>1, FormTyped, BoundsTyped DEF Form!NoteKey, Form!NoteDrawn, Form!Keys
<1>4. QED
  BY <1>2, <1>3

LEMMA NoteCallSound ==
    ASSUME NEW args, args.id \in {0} \cup Form!Keys, args.key \in Form!Keys,
           args.version \in Nat \ {0}
    PROVE  /\ CallSound(Form!Call("note", args)) /\ Form!Call("note", args).op = "note"
           /\ Form!Call("note", args).answer = Form!Pending
                /\ Form!Call("note", args).args = args
    BY CallParts DEF CallSound

LEMMA NoteSentSound ==
    ASSUME Form!BoundsAssumption, FormInv, NEW version \in Nat \ {0},
           Form!NoteKey(version) \in Form!Keys,
           NEW f \in FormRows, NEW p, RowsSound(f, p)
    PROVE  /\ RowsSound(Form!NoteSent(f, version), p)
           /\ \A x \in DOMAIN f \ {"noteRequest"} : Form!NoteSent(f, version)[x] = f[x]
<1>1. [version |-> version, key |-> Form!NoteKey(version)] \in [version : Nat,
        key : {0} \cup Form!Keys]
  OBVIOUS
<1>2. Form!NoteSent(f, version) \in FormRows
  BY <1>1 DEF Form!NoteSent, FormRows
<1>3. QED
  BY <1>2 DEF Form!NoteSent, RowsSound, FormRows, Form!Keys

LEMMA WriteNoteStep == ASSUME Form!BoundsAssumption, FormInv, Form!WriteNote PROVE FormInv'
<1>1. form' = [form EXCEPT !.written = TRUE] /\ UNCHANGED <<picker, draft>> /\ Form!Keeps
  BY DEF Form!WriteNote
<1>2. RowsSound(form', picker') /\ SameForm /\ SamePicker
  BY <1>1, FormTyped DEF RowsSound, FormRows, SameForm, SamePicker
<1>3. PageMoves /\ calls' = calls
  BY <1>1, FormTyped DEF Form!Keeps, PageMoves, Form!counts
<1>4. QED
  BY <1>1, <1>2, <1>3, QuietStep

LEMMA SearchStep == ASSUME Form!BoundsAssumption, FormInv, Form!Search PROVE FormInv'
<1>1. PICK q \in Queries, after \in {0, picker.cursor} :
        Form!Opens(Form!SearchCall(q, after, picker.selected, picker.mount))
  BY DEF Form!Search
<1>2. /\ picker' = [picker EXCEPT !.loading = TRUE, !.quick = 0, !.quickBusy = FALSE]
      /\ UNCHANGED <<form, draft, keys, submitted>> /\ Form!View = "form"
  BY DEF Form!Search
<1> DEFINE c == Form!SearchCall(q, after, picker.selected, picker.mount)
<1>3. /\ calls' = calls \cup {c}
      /\ UNCHANGED <<kind, editing, Form!server, stray, failures, mounts>>
  BY <1>1 DEF Form!Opens, Form!Sends
<1>4. c.op = "search" /\ CallSound(c) /\ c.answer = Form!Pending
  BY CallParts DEF Form!SearchCall, CallSound
<1> HIDE DEF c
<1>5. picker' \in PickerRows
  BY <1>2, FormTyped DEF PickerRows
<1>6. picker' # Form!NoPicker
  BY <1>2, <1>5, FormTyped DEF PickerRows, Form!NoPicker
<1>7. RowsSound(form', picker') /\ SameForm /\ SamePicker
  BY <1>2, <1>5, <1>6, FormTyped DEF RowsSound, SameForm, SamePicker, PickerRows
<1>8. PageMoves
  BY <1>2, <1>3, <1>4, FormTyped DEF PageMoves
<1>9. QED
  BY <1>2, <1>3, <1>4, <1>7, <1>8, QuietStep DEF Submission

LEMMA QuickCreateStep == ASSUME Form!BoundsAssumption, FormInv, Form!QuickCreate PROVE FormInv'
<1> PICK k : k = IF picker.quick # 0 THEN picker.quick ELSE keys + 1
  OBVIOUS
<1> DEFINE c == Form!Call("quick", [key |-> k, mount |-> picker.mount])
<1>1. /\ k <= MaxKey /\ keys' = IF k > keys THEN k ELSE keys
      /\ picker' = [picker EXCEPT !.quick = k, !.quickBusy = TRUE]
      /\ calls' = calls \cup {c} /\ Form!View = "form"
      /\ UNCHANGED <<kind, editing, Form!server, stray, failures, mounts>>
      /\ UNCHANGED <<form, draft, submitted>>
  BY DEF Form!QuickCreate, Form!Opens, Form!Sends
<1>2. picker \in PickerRows /\ k \in Form!Keys
  BY <1>1, FormTyped, BoundsTyped DEF PickerRows, Form!Keys
<1>3. c.op = "quick" /\ CallSound(c) /\ c.answer = Form!Pending
  BY <1>2, CallParts DEF CallSound
<1> HIDE DEF c
<1>5. picker' \in PickerRows
  BY <1>1, <1>2 DEF PickerRows
<1>6. picker' # Form!NoPicker
  BY <1>5 DEF PickerRows, Form!NoPicker
<1>7. RowsSound(form', picker') /\ SameForm /\ SamePicker
  BY <1>1, <1>2, <1>5, <1>6, FormTyped DEF RowsSound, SameForm, SamePicker, PickerRows
<1>8. keys \in 0 .. keys' /\ keys' \in 0 .. MaxKey
  BY <1>1, <1>2, FormTyped, BoundsTyped DEF Form!Keys
<1>9. PageMoves
  BY <1>1, <1>3, <1>8, FormTyped DEF PageMoves
<1>10. QED
  BY <1>1, <1>3, <1>7, <1>9, QuietStep DEF Submission

LEMMA ReloadForNoteStep == ASSUME Form!BoundsAssumption, FormInv, Form!ReloadForNote
    PROVE FormInv'
<1> DEFINE c == Form!Call("profile", [id |-> form.result.id])
<1>1. /\ calls' = calls \cup {c} /\ UNCHANGED <<Form!page, keys, submitted>>
      /\ UNCHANGED <<kind, editing, Form!server, stray, failures, mounts>>
  BY DEF Form!ReloadForNote, Form!Opens, Form!Sends
<1>2. form.result.id \in {0} \cup Form!Keys
  BY FormTyped DEF FormRows
<1>3. c.op = "profile" /\ CallSound(c) /\ c.answer = Form!Pending
  BY <1>2, CallParts DEF CallSound
<1> HIDE DEF c
<1>4. RowsSound(form', picker') /\ SameForm /\ SamePicker
  BY <1>1, FormTyped DEF SameForm, SamePicker, Form!page
<1>5. PageMoves
  BY <1>1, <1>3, FormTyped DEF PageMoves
<1>6. QED
  BY <1>1, <1>3, <1>4, <1>5, QuietStep DEF Submission, Form!page

LEMMA RetryNoteStep == ASSUME Form!BoundsAssumption, FormInv, Form!RetryNote PROVE FormInv'
<1> PICK version : version = IF form.noteVersion # 0 THEN form.noteVersion
      ELSE form.result.version
  OBVIOUS
<1>1. PICK n : /\ Form!NoteKey(version) <= MaxKey /\ Form!NoteDrawn(version)
               /\ form' = Form!NoteSent(form, version)
               /\ calls' = calls \cup {Form!NoteCall(form.result.id, version, FALSE, n)}
               /\ Form!View = "result"
               /\ UNCHANGED <<kind, editing, Form!server, stray, failures, mounts>>
               /\ UNCHANGED <<picker, draft, submitted>>
  BY DEF Form!RetryNote, Form!Opens, Form!Sends
<1> DEFINE c == Form!NoteCall(form.result.id, version, FALSE, n)
<1>2. version \in Nat \ {0} /\ form.result.id \in {0} \cup Form!Keys
  BY <1>1, FormTyped DEF FormRows, RowsSound, Form!View, Form!ViewOf
<1>3. Form!NoteKey(version) \in Form!Keys /\ keys \in 0 .. keys' /\ keys' \in 0 .. MaxKey
  BY <1>1, <1>2, NoteKeyTyped
<1> DEFINE args == [id |-> form.result.id, version |-> version, key |-> Form!NoteKey(version),
                    first |-> FALSE, nr |-> n]
<1>8. /\ args.id = form.result.id /\ args.version = version
      /\ args.key = Form!NoteKey(version) /\ ~args.first /\ c = Form!Call("note", args)
      /\ calls' = calls \cup {c}
  BY <1>1 DEF Form!NoteCall
<1> HIDE DEF args, c
<1>10. CallSound(c) /\ c.op = "note" /\ c.args = args /\ c.answer = Form!Pending
  BY <1>2, <1>3, <1>8, NoteCallSound
<1>9. CallSound(c) /\ c.op = "note" /\ ~c.args.first /\ c.answer = Form!Pending
  BY <1>8, <1>10
<1>4. RowsSound(form', picker')
      /\ \A x \in DOMAIN form \ {"noteRequest"} : form'[x] = form[x]
  BY <1>1, <1>2, <1>3, FormTyped, NoteSentSound
<1>5. SameForm /\ SamePicker
  BY <1>1, <1>4, FormTyped DEF SameForm, SamePicker, FormRows
<1>6. PageMoves
  BY <1>1, <1>3, <1>8, <1>9, FormTyped DEF PageMoves
<1>7. QED
  BY <1>1, <1>8, <1>9, <1>4, <1>5, <1>6, QuietStep DEF Submission
-----------------------------------------------------------------------------
\* The answers as the page handles them, one lemma for each kind of call.
LEMMA EndsMove ==
    ASSUME Form!BoundsAssumption, FormInv, NEW c \in calls, NEW a, Form!Ends(c, a),
           c.op \notin {"load", "save"}, stray' \subseteq calls \cup stray
    PROVE  PageMoves /\ calls' = calls \ {c} /\ UNCHANGED <<mounts, keys>>
<1>1. /\ UNCHANGED <<keys, mounts>> /\ UNCHANGED <<kind, editing, Form!server, submitted>>
      /\ calls' = calls \ {c}
  BY DEF Form!Ends
<1>2. QED
  BY <1>1, FormTyped DEF PageMoves

LEMMA CallOfPage ==
    ASSUME FormInv, NEW c \in calls
    PROVE  CallSound(c) /\ (c.answer # Form!Pending => Fits(c, c.answer))
    BY DEF FormInv, CallsTyped

\* An answer that leaves the form as it is.
LEMMA BecomesQuiet ==
    ASSUME Form!BoundsAssumption, FormInv, PageMoves, NEW c \in calls, calls' = calls \ {c},
           c.op # "check", ~IsFirst(c), NEW f, RowsSound(f, picker), Form!Becomes(f),
           \A x \in {"denied", "failed", "ready", "detail", "busy", "stale", "conflict",
                     "unresolved", "result", "request"} : f[x] = form[x]
    PROVE  FormInv'
<1>1. /\ form' = f /\ Form!ViewOf(f) = Form!View
      /\ Form!View = "form" => UNCHANGED <<picker, draft>>
      /\ Form!View # "form" => picker' = Form!NoPicker
  BY DEF Form!Becomes, Form!Leave, Form!View, Form!ViewOf
<1>2. SameForm
  BY <1>1 DEF SameForm
<1>3. picker' = picker
  BY <1>1, FormTyped
<1>4. RowsSound(form', picker') /\ SamePicker
  BY <1>1, <1>3 DEF SamePicker
<1>5. QED
  BY <1>1, <1>2, <1>4, QuietStep

LEMMA ProfileEnding ==
    ASSUME Form!BoundsAssumption, FormInv, NEW c \in calls, NEW a, Fits(c, a), Form!Ends(c, a),
           c.op = "profile", stray' \subseteq calls \cup stray
    PROVE  FormInv'
<1>1. PageMoves /\ calls' = calls \ {c} /\ Form!ProfileEnds(a)
  <2>1. Form!ProfileEnds(a)
    BY DEF Form!Ends
  <2>2. QED
    BY <2>1, EndsMove
<1>2. CASE Form!Leave(Form!Cleared)
  BY <1>1, <1>2, Denial
<1>3. CASE a.code = "failed" /\ Form!Becomes([form EXCEPT !.noteFailed = TRUE])
  <2> DEFINE f == [form EXCEPT !.noteFailed = TRUE]
  <2>1. /\ RowsSound(f, picker)
        /\ \A x \in {"denied", "failed", "ready", "detail", "busy", "stale", "conflict",
                     "unresolved", "result", "request"} : f[x] = form[x]
    BY FormTyped DEF RowsSound, FormRows
  <2> HIDE DEF f
  <2>2. QED
    BY <1>1, <1>3, <2>1, BecomesQuiet DEF IsFirst, f
<1>4. CASE a.code = "ok"
           /\ Form!Becomes([form EXCEPT !.noteVersion = a.detail.version, !.refetch = FALSE,
                                        !.noteRequest = Form!NoNote])
  <2> DEFINE f == [form EXCEPT !.noteVersion = a.detail.version, !.refetch = FALSE,
                               !.noteRequest = Form!NoNote]
  <2>1. a.detail.version \in Nat
    BY <1>4, BoundsTyped DEF Fits, Form!Details
  <2>2. f \in FormRows
    BY <2>1, FormTyped DEF FormRows, Form!NoNote
  <2>3. /\ RowsSound(f, picker)
        /\ \A x \in {"denied", "failed", "ready", "detail", "busy", "stale", "conflict",
                     "unresolved", "result", "request"} : f[x] = form[x]
    BY <2>2, FormTyped DEF RowsSound, FormRows, Form!NoNote
  <2>4. Form!Becomes(f)
    BY <1>4
  <2> HIDE DEF f
  <2>5. QED
    BY <1>1, <2>3, <2>4, BecomesQuiet DEF IsFirst
<1>5. QED
  BY <1>1, <1>2, <1>3, <1>4 DEF Form!ProfileEnds

LEMMA SearchEnding ==
    ASSUME Form!BoundsAssumption, FormInv, NEW c \in calls, NEW a, Fits(c, a), Form!Ends(c, a),
           c.op = "search", stray' \subseteq calls \cup stray
    PROVE  FormInv'
<1>1. PageMoves /\ calls' = calls \ {c} /\ Form!SearchEnds(c, a)
  <2>1. Form!SearchEnds(c, a)
    BY DEF Form!Ends
  <2>2. QED
    BY <2>1, EndsMove
<1>2. CASE Form!Leave(Form!Cleared)
  BY <1>1, <1>2, Denial
<1>3. ASSUME a.code # "denied", UNCHANGED <<form, draft>>,
             RowsSound(form, picker'), SamePicker
      PROVE  FormInv'
  BY <1>1, <1>3, QuietStep DEF SameForm, IsFirst
<1>4. CASE ~Form!Leave(Form!Cleared) /\ Form!Live(c) /\ a.code = "failed"
  <2>1. picker' = [picker EXCEPT !.loading = FALSE] /\ UNCHANGED <<form, draft>>
    BY <1>1, <1>4 DEF Form!SearchEnds
  <2>2. picker' \in PickerRows /\ SamePicker
    BY <1>4, <2>1, FormTyped DEF PickerRows, SamePicker, Form!Live, Form!NoPicker
  <2>3. QED
    BY <1>3, <1>4, <2>1, <2>2, FormTyped DEF RowsSound
<1>5. CASE ~Form!Leave(Form!Cleared) /\ Form!Live(c) /\ a.code # "failed"
  <2> DEFINE kept == IF c.args.after # 0 THEN picker.items
                     ELSE picker.items \cap {c.args.selected}
  <2>1. /\ picker' = [picker EXCEPT !.items = kept \cup a.items, !.cursor = a.cursor,
                                    !.loading = FALSE]
        /\ UNCHANGED <<form, draft>> /\ a.code # "denied"
    BY <1>1, <1>5 DEF Form!SearchEnds
  <2>2. picker \in PickerRows
    BY <1>5, FormTyped DEF Form!Live
  <2>3. a.items \subseteq Form!Tokens \ {Form!Unchosen} /\ a.cursor \in Nat
    BY <1>5, <2>1 DEF Fits
  <2>4. kept \cup a.items \subseteq Form!Tokens \ {Form!Unchosen}
    BY <2>2, <2>3 DEF PickerRows
  <2> HIDE DEF kept
  <2>5. picker' \in PickerRows /\ SamePicker
    BY <1>5, <2>1, <2>2, <2>3, <2>4 DEF PickerRows, SamePicker, Form!Live, Form!NoPicker
  <2>6. QED
    BY <1>3, <2>1, <2>5, FormTyped DEF RowsSound
<1>6. CASE ~Form!Leave(Form!Cleared) /\ ~Form!Live(c)
  BY <1>1, <1>3, <1>6, FormTyped DEF Form!SearchEnds, SamePicker
<1>7. QED
  BY <1>2, <1>4, <1>5, <1>6

\* A step that leaves the view as it is, whether or not that is the form.
LEMMA ShownStep ==
    ASSUME Form!BoundsAssumption, FormInv, PageMoves, RowsSound(form', picker'),
           LastRequest', Select',
           \A x \in {"denied", "failed", "ready", "detail", "result"} : form'[x] = form[x],
           picker = Form!NoPicker <=> picker' = Form!NoPicker,
           form'.busy => form.busy,
           form'.stale => form.stale \/ (editing /\ ~form'.busy),
           ~form.denied /\ ~editing /\ ~form.ready => ~form'.unresolved
             /\ form'.conflict = Form!NoConflict,
           ~form.denied /\ kind # "lead" =>
               /\ ~form'.unresolved /\ form'.conflict = Form!NoConflict
               /\ Form!View = "form" => ~picker'.failed,
           Form!View = "form" => /\ draft'.text \in Texts /\ draft'.typed \in BOOLEAN
                                 /\ draft' = draft \/ draft'.typed,
           \A c \in calls' : c \in calls \/ c.op # "load",
           ~form.denied => /\ \A c \in calls' : Submission(c) => form'.busy
                           /\ \A c, d \in calls' : Submission(c) /\ Submission(d) => c = d
    PROVE  FormInv'
<1>1. FormServer' /\ SentOnce' /\ CallsTyped'
  BY MovesKeep
<1>2. /\ form'.denied = form.denied /\ form'.failed = form.failed /\ form'.ready = form.ready
      /\ form'.detail = form.detail /\ form'.result = form.result
  OBVIOUS
<1>3. Form!View' = Form!View
  BY <1>2 DEF Form!View, Form!ViewOf
<1>4. FormPage'
  BY <1>2, <1>3 DEF FormInv, FormPage, RowsSound, PageMoves, Fresh, Form!server
<1>5. Flight'
  <2>1. UNCHANGED <<kind, editing>>
    BY DEF PageMoves
  <2>2. ~form.denied => \A c \in calls' : c.op = "load" => ~form.ready /\ ~form.failed
    BY DEF FormInv, Flight
  <2>3. ~form.denied => \A c, d \in calls' : c.op = "load" /\ d.op = "load" => c = d
    BY DEF FormInv, Flight
  <2>4. ~form.denied /\ form'.busy => ~form.stale /\ Form!View = "form"
    BY DEF FormInv, Flight
  <2>5. ~form.denied => (form.failed => ~form.ready) /\ (~editing => ~form.stale)
    BY DEF FormInv, Flight
  <2>6. QED
    BY <1>2, <1>3, <2>1, <2>2, <2>3, <2>4, <2>5 DEF Flight, Submission
<1>6. QED
  BY <1>1, <1>4, <1>5 DEF FormInv

\* Flight, part by part.
LEMMA FlightParts ==
    ASSUME FormInv, ~form.denied
    PROVE  /\ form.busy => Form!View = "form" /\ ~form.stale
           /\ form.failed => ~form.ready
           /\ ~editing =>
                /\ ~form.stale
                /\ ~form.ready => ~form.unresolved /\ form.conflict = Form!NoConflict
           /\ kind # "lead" => /\ ~form.unresolved /\ form.conflict = Form!NoConflict
                               /\ Form!View = "form" => ~picker.failed
           /\ \A c \in calls : c.op = "load" => ~form.ready /\ ~form.failed
           /\ \A c, d \in calls : c.op = "load" /\ d.op = "load" => c = d
           /\ \A c \in calls : Submission(c) => form.busy
           /\ \A c, d \in calls : Submission(c) /\ Submission(d) => c = d
    BY DEF FormInv, Flight

LEMMA QuickEnding ==
    ASSUME Form!BoundsAssumption, FormInv, NEW c \in calls, NEW a, Fits(c, a), Form!Ends(c, a),
           c.op = "quick", stray' \subseteq calls \cup stray
    PROVE  FormInv'
<1>1. PageMoves /\ calls' = calls \ {c} /\ Form!QuickEnds(c, a) /\ UNCHANGED <<mounts, keys>>
  <2>1. Form!QuickEnds(c, a)
    BY DEF Form!Ends
  <2>2. QED
    BY <2>1, EndsMove
<1>2. CASE Form!Leave(Form!Cleared)
  BY <1>1, <1>2, Denial
<1>3. CASE ~Form!Leave(Form!Cleared) /\ ~Form!Live(c)
  <2>1. UNCHANGED <<form, draft, picker>>
    BY <1>1, <1>3 DEF Form!QuickEnds
  <2>2. QED
    BY <1>1, <2>1, FormTyped, QuietStep DEF SameForm, SamePicker, IsFirst
<1>4. CASE ~Form!Leave(Form!Cleared) /\ Form!Live(c) /\ a.code = "failed"
  <2>1. picker' = [picker EXCEPT !.quickBusy = FALSE] /\ UNCHANGED <<form, draft>>
    BY <1>1, <1>4 DEF Form!QuickEnds
  <2>2. picker' \in PickerRows /\ SamePicker
    BY <1>4, <2>1, FormTyped DEF PickerRows, SamePicker, Form!Live, Form!NoPicker
  <2>3. QED
    BY <1>1, <2>1, <2>2, FormTyped, QuietStep DEF SameForm, RowsSound, IsFirst
<1>5. CASE ~Form!Leave(Form!Cleared) /\ Form!Live(c) /\ a.code # "failed"
  <2>1. /\ picker' = [picker EXCEPT !.items = {a.token}, !.selected = a.token,
                                    !.quick = 0, !.quickBusy = FALSE]
        /\ UNCHANGED <<form, draft>> /\ a.code # "denied"
    BY <1>1, <1>5 DEF Form!QuickEnds
  <2>2. /\ a.token \in Form!Tokens \ {Form!Unchosen} /\ Form!Chosen(a.token) = made[c.args.key]
        /\ c.args.key \in Form!Keys
    BY <1>5, <2>1, CallOfPage DEF Fits, CallSound
  <2>3. picker \in PickerRows /\ Form!View = "form"
    BY <1>5, FormTyped DEF Form!Live
  <2>4. picker' \in PickerRows /\ picker' # Form!NoPicker
    BY <2>1, <2>2, <2>3 DEF PickerRows, Form!NoPicker
  <2>5. /\ picker'.mount = picker.mount /\ picker'.failed = picker.failed
        /\ picker'.replacement = picker.replacement /\ picker'.selected = a.token
    BY <2>1, <2>3 DEF PickerRows
  <2>6. Reasons => Reasons'
    BY <1>1, <1>5, <2>4, <2>5 DEF Reasons, Form!Live
  <2>7. Form!View' = Form!View
    BY <2>1 DEF Form!View, Form!ViewOf
  <2>8. made' = made
    BY <1>1 DEF PageMoves, Form!server
  <2>9. Select'
    BY <2>1, <2>2, <2>3, <2>5, <2>6, <2>7, <2>8 DEF FormInv, Select
  <2>10. LastRequest'
    BY <1>1, <2>1, FormTyped, RequestStays DEF PageMoves, IsFirst
  <2>11. RowsSound(form', picker')
    BY <2>1, <2>4, FormTyped DEF RowsSound
  <2>12. draft.text \in Texts /\ draft.typed \in BOOLEAN
    BY <2>3 DEF FormInv, FormPage
  <2>13. picker # Form!NoPicker
    BY <1>5 DEF Form!Live
  <2>14. ~form.denied
    BY <2>3, FormTyped
  <2>15. \A e \in calls' : e \in calls
    BY <1>1
  <2>16. QED
    BY <1>1, <2>1, <2>4, <2>5, <2>9, <2>10, <2>11, <2>12, <2>13, <2>14, <2>15, FlightParts,
       ShownStep
<1>6. QED
  BY <1>2, <1>3, <1>4, <1>5

\* A step that settles an option of the select, or leaves one to be settled.
LEMMA SettleStep ==
    ASSUME Form!BoundsAssumption, FormInv, PageMoves,
           NEW u \in BOOLEAN, NEW x, x \in {form.conflict, Form!NoConflict},
           form' = [form EXCEPT !.unresolved = u, !.conflict = x],
           u => form.unresolved \/ (kind = "lead" /\ Form!View = "form"),
           picker' \in PickerRows \cup {Form!NoPicker},
             picker = Form!NoPicker <=> picker' = Form!NoPicker,
           kind = "lead" \/ picker' = Form!NoPicker \/ picker'.failed = picker.failed,
           Form!View = "form" =>
             /\ draft'.text \in Texts /\ draft'.typed \in BOOLEAN
             /\ draft' = draft \/ draft'.typed
             /\ u => Reasons'
             /\ x # Form!NoConflict => \/ Reasons' \/ picker'.selected = Form!Unchosen
                                 \/ \E k \in Form!Keys : made[k]
                                      = Form!Chosen(picker'.selected),
           \A c \in calls' : c \in calls \/ (c.op # "load" /\ ~Submission(c)),
           \A c \in calls : c \in calls' \/ ~IsFirst(c)
    PROVE  FormInv'
<1>1. form \in FormRows /\ RowsSound(form, picker) /\ keys' \in Nat
  BY FormTyped DEF PageMoves
<1>2. /\ form'.unresolved = u /\ form'.conflict = x
      /\ \A y \in {"denied", "failed", "ready", "detail", "result"} : form'[y] = form[y]
      /\ form'.busy = form.busy /\ form'.stale = form.stale /\ form'.request = form.request
      /\ form'.denied = form.denied /\ form'.result = form.result
      /\ form'.noteRequest = form.noteRequest
      /\ Form!View' = Form!View
  BY <1>1 DEF FormRows, Form!View, Form!ViewOf
<1>3. x \in [outcome : {"none", "changed", "unavailable"}, token : Form!Tokens]
  BY <1>1 DEF FormRows, Form!NoConflict, Form!Tokens
<1>4. form' \in FormRows
  BY <1>1, <1>3 DEF FormRows
<1>5. RowsSound(form', picker')
  BY <1>1, <1>2, <1>4 DEF RowsSound
<1>6. LastRequest'
  BY <1>1, <1>2, RequestStays DEF PageMoves
<1>7. Select'
  BY <1>2 DEF Select, PageMoves, Form!server
<1>8. ~form.denied => (~form.ready => Form!View # "form")
  BY DEF Form!View, Form!ViewOf
<1>9. ~form.denied /\ ~editing /\ ~form.ready => ~u /\ x = Form!NoConflict
  BY <1>8, FlightParts
<1>10. ~form.denied /\ kind # "lead" =>
           /\ ~u /\ x = Form!NoConflict
           /\ Form!View = "form" => ~picker'.failed
  BY FlightParts, FormTyped
<1>11. ~form.denied => /\ \A c \in calls' : Submission(c) => form'.busy
                      /\ \A c, d \in calls' : Submission(c) /\ Submission(d) => c = d
  BY <1>2, FlightParts
<1>12. QED
  BY <1>2, <1>5, <1>6, <1>7, <1>9, <1>10, <1>11, ShownStep

LEMMA CheckEnding ==
    ASSUME Form!BoundsAssumption, FormInv, NEW c \in calls, NEW a, Fits(c, a), Form!Ends(c, a),
           c.op = "check", stray' \subseteq calls \cup stray
    PROVE  FormInv'
<1>1. PageMoves /\ calls' = calls \ {c} /\ Form!CheckEnds(c, a) /\ kind = "lead"
  <2>1. Form!CheckEnds(c, a)
    BY DEF Form!Ends
  <2>2. QED
    BY <2>1, EndsMove, CallOfPage DEF CallSound
<1>2. CASE Form!Leave(Form!Cleared)
  BY <1>1, <1>2, Denial
<1>3. form \in FormRows /\ form.unresolved \in BOOLEAN
  BY FormTyped DEF FormRows
<1>4. /\ [form EXCEPT !.unresolved = form.unresolved, !.conflict = form.conflict] = form
      /\ [form EXCEPT !.unresolved = FALSE,
           !.conflict = form.conflict] = [form EXCEPT !.unresolved = FALSE]
  BY <1>3 DEF FormRows
<1>5. Form!View = "form" => draft.text \in Texts /\ draft.typed \in BOOLEAN
  BY DEF FormInv, FormPage
<1>6. (\A d \in calls' : d \in calls) /\ (\A d \in calls : d \in calls' \/ ~IsFirst(d))
  BY <1>1 DEF IsFirst
<1>7. CASE ~Form!Leave(Form!Cleared) /\ ~Form!Live(c)
  <2>1. UNCHANGED <<draft, picker>> /\ a.code # "denied"
    BY <1>1, <1>7 DEF Form!CheckEnds
  <2>2. Reasons => Reasons'
    BY <1>1, <1>7, <2>1 DEF Reasons, Form!Live
  <2>3. picker \in PickerRows \cup {Form!NoPicker}
    BY FormTyped DEF RowsSound
  <2>4. Form!View = "form" =>
          /\ form.unresolved => Reasons'
          /\ form.conflict # Form!NoConflict =>
               \/ Reasons' \/ picker'.selected = Form!Unchosen
               \/ \E k \in Form!Keys : made[k] = Form!Chosen(picker'.selected)
    BY <2>1, <2>2 DEF FormInv, Select
  <2>5. CASE form' = form
    BY <1>1, <1>3, <1>4, <1>5, <1>6, <2>1, <2>3, <2>4, <2>5, SettleStep
  <2>6. CASE form' = [form EXCEPT !.unresolved = FALSE]
    BY <1>1, <1>3, <1>4, <1>5, <1>6, <2>1, <2>3, <2>4, <2>6, SettleStep
  <2>7. CASE form' = [form EXCEPT !.unresolved = FALSE, !.conflict = Form!NoConflict]
    BY <1>1, <1>3, <1>5, <1>6, <2>1, <2>3, <2>4, <2>7, SettleStep
  <2>8. form' = [[form EXCEPT !.unresolved = FALSE] EXCEPT !.conflict = Form!NoConflict]
          <=> form' = [form EXCEPT !.unresolved = FALSE, !.conflict = Form!NoConflict]
    BY <1>3 DEF FormRows
  <2>9. QED
    BY <1>1, <1>7, <2>1, <2>5, <2>6, <2>7, <2>8 DEF Form!CheckEnds
<1>8. CASE ~Form!Leave(Form!Cleared) /\ Form!Live(c)
  <2>1. picker \in PickerRows /\ picker # Form!NoPicker /\ Form!View = "form" /\ UNCHANGED draft
    BY <1>1, <1>8, FormTyped DEF Form!CheckEnds, Form!Live
  <2>2. CASE a.code = "failed"
    <3>1. form' = form /\ picker' = [picker EXCEPT !.failed = TRUE, !.loading = FALSE]
      BY <1>1, <1>8, <2>2 DEF Form!CheckEnds, Form!CheckFailed
    <3>2. picker' \in PickerRows /\ picker' # Form!NoPicker /\ picker'.failed
      BY <2>1, <3>1 DEF PickerRows, Form!NoPicker
    <3>3. Reasons'
      BY <3>2 DEF Reasons
    <3>4. QED
      BY <1>1, <1>3, <1>4, <1>5, <1>6, <2>1, <3>1, <3>2, <3>3, SettleStep
  <2>3. CASE a.code = "unavailable"
    <3>1. /\ form' = [form EXCEPT !.unresolved = FALSE]
          /\ picker' = [picker EXCEPT !.selected = Form!Unchosen, !.replacement = Form!Unchosen,
                                      !.loading = FALSE]
      BY <1>1, <1>8, <2>3 DEF Form!CheckEnds
    <3>2. picker' \in PickerRows /\ picker' # Form!NoPicker /\ picker'.selected = Form!Unchosen
      BY <2>1, <3>1 DEF PickerRows, Form!NoPicker, Form!Tokens
    <3>3. QED
      BY <1>1, <1>3, <1>4, <1>5, <1>6, <2>1, <3>1, <3>2, SettleStep
  <2>4. CASE a.code = "unchanged"
    <3>1. /\ form' = [form EXCEPT !.unresolved = FALSE, !.conflict = Form!NoConflict]
          /\ picker' = [picker EXCEPT !.items = picker.items \cup {a.current},
                          !.selected = a.current, !.replacement = Form!Unchosen,
                            !.loading = FALSE]
      BY <1>1, <1>3, <1>8, <2>4 DEF Form!CheckEnds, FormRows
    <3>2. a.current \in Form!Tokens \ {Form!Unchosen}
      BY <1>8, <2>4 DEF Fits
    <3>3. picker' \in PickerRows /\ picker' # Form!NoPicker
      BY <2>1, <3>1, <3>2 DEF PickerRows, Form!NoPicker, Form!Tokens
    <3>4. QED
      BY <1>1, <1>3, <1>5, <1>6, <2>1, <3>1, <3>3, SettleStep
  <2>5. CASE a.code = "changed"
    <3>1. /\ form' = form
          /\ picker' = [picker EXCEPT !.items = picker.items \cup {a.current},
                          !.replacement = a.current, !.loading = FALSE]
      BY <1>1, <1>8, <2>5 DEF Form!CheckEnds, Form!Replaced
    <3>2. a.current \in Form!Tokens \ {Form!Unchosen}
      BY <1>8, <2>5 DEF Fits
    <3>3. picker' \in PickerRows /\ picker' # Form!NoPicker
            /\ picker'.replacement # Form!Unchosen
      BY <2>1, <3>1, <3>2 DEF PickerRows, Form!NoPicker
    <3>4. Reasons'
      BY <3>3 DEF Reasons
    <3>5. QED
      BY <1>1, <1>3, <1>4, <1>5, <1>6, <2>1, <3>1, <3>3, <3>4, SettleStep
  <2>6. QED
    BY <1>1, <1>8, <2>2, <2>3, <2>4, <2>5 DEF Form!CheckEnds
<1>9. QED
  BY <1>2, <1>7, <1>8

\* The result of a save is shown, and the select is gone.
LEMMA ResultStep ==
    ASSUME Form!BoundsAssumption, FormInv, PageMoves, NEW c \in calls, Submission(c),
           calls' = calls \ {c}, RowsSound(form', Form!NoPicker), picker' = Form!NoPicker,
           ~form'.busy, form'.result # Form!NoResult,
           \A x \in {"denied", "failed", "ready", "stale", "unresolved", "conflict"} :
                form'[x] = form[x]
    PROVE  FormInv'
<1>1. CASE form.denied
  BY <1>1, DeniedStays
<1>2. CASE ~form.denied
  <2>1. FormServer' /\ SentOnce' /\ CallsTyped'
    BY MovesKeep
  <2>2. Form!View' # "form" /\ ~form'.denied
    BY <1>2 DEF Form!View, Form!ViewOf
  <2>3. FormPage' /\ LastRequest' /\ Select'
    BY <2>2 DEF FormPage, LastRequest, Select, RowsSound, PageMoves
  <2>4. Flight'
    BY <1>2, <2>2, FlightParts DEF Flight, Submission, PageMoves
  <2>5. QED
    BY <2>1, <2>3, <2>4 DEF FormInv
<1>3. QED
  BY <1>1, <1>2

LEMMA NoteEnding ==
    ASSUME Form!BoundsAssumption, FormInv, NEW c \in calls, NEW a, Fits(c, a), Form!Ends(c, a),
           c.op = "note", stray' \subseteq calls \cup stray
    PROVE  FormInv'
<1>1. PageMoves /\ calls' = calls \ {c} /\ Form!NoteEnds(c, a) /\ CallSound(c)
  <2>1. Form!NoteEnds(c, a)
    BY DEF Form!Ends
  <2>2. QED
    BY <2>1, EndsMove, CallOfPage
<1>2. ASSUME NEW f, RowsSound(f, picker), Form!AfterNote(c, f), f.denied = form.denied,
             \A x \in {"failed", "ready", "detail", "busy", "stale", "conflict",
                       "unresolved", "result", "request"} : f[x] = form[x]
      PROVE  FormInv'
  <2>1. CASE c.args.first
    <3> DEFINE r == [id |-> c.args.id, version |-> c.args.version]
    <3>1. r \in [id : {0} \cup Form!Keys, version : Nat] /\ r.version # 0 /\ r # Form!NoResult
      BY <1>1 DEF CallSound, Form!NoResult
    <3>2. form' = [f EXCEPT !.busy = FALSE, !.result = r] /\ picker' = Form!NoPicker
      BY <1>2, <2>1 DEF Form!AfterNote, Form!Leave
    <3>3. f \in FormRows
      BY <1>2 DEF RowsSound
    <3> HIDE DEF r
    <3>4. form' \in FormRows
      BY <3>1, <3>2, <3>3 DEF FormRows
    <3>5. RowsSound(form', Form!NoPicker)
      BY <1>2, <3>1, <3>2, <3>3, <3>4 DEF RowsSound, FormRows
    <3>6. /\ ~form'.busy /\ form'.result # Form!NoResult
          /\ \A x \in {"denied", "failed", "ready", "stale", "unresolved", "conflict"} :
                form'[x] = form[x]
      BY <1>2, <3>1, <3>2, <3>3 DEF FormRows
    <3>7. Submission(c)
      BY <2>1 DEF Submission
    <3>8. QED
      BY <1>1, <3>2, <3>5, <3>6, <3>7, ResultStep
  <2>2. CASE ~c.args.first
    <3>1. Form!Becomes(f)
      BY <1>2, <2>2 DEF Form!AfterNote
    <3>2. QED
      BY <1>1, <1>2, <2>2, <3>1, BecomesQuiet DEF IsFirst
  <2>3. QED
    BY <2>1, <2>2
<1>3. CASE Form!Leave(Form!Cleared)
  BY <1>1, <1>3, Denial
<1>4. ASSUME NEW failed \in BOOLEAN, NEW refetch \in BOOLEAN, NEW written \in BOOLEAN,
             Form!AfterNote(c, [form EXCEPT !.written = written, !.noteFailed = failed,
                                            !.refetch = refetch])
      PROVE  FormInv'
  <2> DEFINE f == [form EXCEPT !.written = written, !.noteFailed = failed, !.refetch = refetch]
  <2>1. /\ RowsSound(f, picker) /\ f.denied = form.denied
        /\ \A x \in {"failed", "ready", "detail", "busy", "stale", "conflict",
                       "unresolved", "result", "request"} : f[x] = form[x]
    BY FormTyped DEF RowsSound, FormRows
  <2>2. Form!AfterNote(c, f)
    BY <1>4
  <2> HIDE DEF f
  <2>3. QED
    BY <1>2, <2>1, <2>2
<1>5. /\ [form EXCEPT !.noteFailed = TRUE]
           = [form EXCEPT !.written = form.written, !.noteFailed = TRUE,
             !.refetch = form.refetch]
      /\ [form EXCEPT !.noteFailed = TRUE, !.refetch = TRUE]
           = [form EXCEPT !.written = form.written, !.noteFailed = TRUE, !.refetch = TRUE]
      /\ form.written \in BOOLEAN /\ form.refetch \in BOOLEAN
  BY FormTyped DEF FormRows
<1>6. QED
  BY <1>1, <1>3, <1>4, <1>5 DEF Form!NoteEnds

\* The form is replaced by another view, and its requests go on.
LEMMA LeaveStep ==
    ASSUME Form!BoundsAssumption, FormInv, PageMoves, RowsSound(form', Form!NoPicker),
           picker' = Form!NoPicker,
           Form!View' # "form", Flight', ~form.denied,
           form'.request = form.request, form'.result = form.result,
           \A c \in calls : c \in calls' \/ ~IsFirst(c)
    PROVE  FormInv'
<1>1. FormServer' /\ SentOnce' /\ CallsTyped'
  BY MovesKeep
<1>2. FormPage' /\ Select'
  BY DEF FormPage, Select, RowsSound, PageMoves
<1>3. LastRequest'
  <2>1. keys' \in Nat
    BY DEF PageMoves
  <2>2. QED
    BY <2>1, RequestStays DEF PageMoves
<1>4. QED
  BY <1>1, <1>2, <1>3 DEF FormInv

LEMMA MountStep ==
    ASSUME Form!BoundsAssumption, FormInv, NEW c \in calls, NEW a, Fits(c, a), Form!Ends(c, a),
           c.op = "load", stray' \subseteq calls \cup stray, ~form.denied, a.code = "ok",
           NEW f, f = [form EXCEPT !.ready = TRUE, !.detail = a.detail],
           Form!ViewOf(f) = "form", Form!Mount(f)
    PROVE  FormInv'
<1> DEFINE t == a.detail.choice
           m == mounts + 1
           checks == kind = "lead" /\ t # Form!Unchosen
<1>1. /\ UNCHANGED <<kind, editing, Form!server, submitted, keys>> /\ mounts' = m
      /\ calls' = (calls \ {c}) \cup (IF mounts' # mounts
                                     THEN Form!MountCalls([form EXCEPT !.detail = a.detail])
                                       ELSE {})
  BY DEF Form!Ends, Form!Mount
<1>2. /\ a.detail \in Form!Details /\ t \in Form!Tokens
           /\ a.detail.version \in 0 .. MaxRecordVersion
      /\ IF editing
         THEN /\ a.detail.text \in Texts /\ Fresh(a.detail.version, a.detail.text)
              /\ kind = "lead" => t # Form!Unchosen
         ELSE a.detail = Form!NoDetail
  BY DEF Fits, Form!Details
<1>3. ~form.ready /\ ~form.failed /\ ~form.busy /\ Form!View # "form"
  BY FlightParts DEF Form!View, Form!ViewOf
<1>4. form \in FormRows /\ mounts \in Nat /\ RowsSound(form, picker)
  BY FormTyped
<1>5. /\ f \in FormRows /\ f.detail = a.detail /\ f.ready
      /\ \A x \in {"denied", "failed", "busy", "stale", "conflict", "unresolved", "result",
                   "request", "noteRequest"} : f[x] = form[x]
  BY <1>2, <1>4 DEF FormRows
<1>6. /\ form' = IF checks THEN [f EXCEPT !.unresolved = TRUE] ELSE f
      /\ picker' = [mount |-> m, items |-> {t} \ {Form!Unchosen}, selected |-> t,
                    replacement |-> Form!Unchosen, failed |-> FALSE, loading |-> TRUE,
                    cursor |-> 0, quick |-> 0, quickBusy |-> FALSE]
      /\ \E text \in IF editing THEN {a.detail.text} ELSE Texts :
            draft' = [text |-> text, typed |-> ~editing]
  BY <1>5 DEF Form!Mount, Form!Checking
<1>7. /\ form' \in FormRows /\ form'.detail = a.detail /\ form'.ready
      /\ \A x \in {"denied", "failed", "busy", "stale", "conflict", "result",
                   "request", "noteRequest"} : form'[x] = form[x]
      /\ form'.unresolved <=> checks \/ form.unresolved
  <2> HIDE DEF checks, t
  <2>1. CASE checks
    <3>1. form' = [f EXCEPT !.unresolved = TRUE]
      BY <1>6, <2>1
    <3>2. form' \in FormRows /\ form'.unresolved /\ form'.detail = f.detail
            /\ form'.ready = f.ready
      <4>1. f \in FormRows
        BY <1>5
      <4>2. form' \in FormRows
        BY <3>1, <4>1 DEF FormRows
      <4>3. form'.unresolved
        BY <3>1, <4>1 DEF FormRows
      <4>4. form'.detail = f.detail /\ form'.ready = f.ready
        BY <3>1, <4>1 DEF FormRows
      <4>5. QED
        BY <4>2, <4>3, <4>4
    <3>3. \A x \in {"denied", "failed", "busy", "stale", "conflict", "result",
                    "request", "noteRequest"} : form'[x] = f[x]
      BY <1>5, <3>1 DEF FormRows
    <3>4. QED
      BY <1>5, <2>1, <3>2, <3>3
  <2>2. CASE ~checks
    BY <1>5, <1>6, <2>2
  <2>3. QED
    BY <2>1, <2>2
<1>8. /\ picker' \in PickerRows /\ picker' # Form!NoPicker /\ picker'.mount = m
      /\ picker'.failed = FALSE
  <2>1. Form!Unchosen \in Form!Tokens /\ m \in Nat \ {0}
          /\ {t} \ {Form!Unchosen} \subseteq Form!Tokens \ {Form!Unchosen}
    BY <1>2, <1>4 DEF Form!Tokens
  <2>2. QED
    BY <1>2, <1>6, <2>1 DEF PickerRows, Form!NoPicker
<1>9. Form!View' = "form"
  BY <1>5, <1>7 DEF Form!View, Form!ViewOf
<1> DEFINE d == Form!SearchCall(Options, 0, t, m)
           e == Form!CheckCall(t, m)
<1>10. calls' = (calls \ {c}) \cup {d} \cup (IF checks THEN {e} ELSE {})
  <2>1. mounts' # mounts
    BY <1>1, <1>4
  <2>2. QED
    BY <1>1, <1>4, <2>1 DEF Form!MountCalls, FormRows
<1>11. /\ d.op = "search" /\ CallSound(d) /\ d.answer = Form!Pending
       /\ checks => e.op = "check" /\ CallSound(e) /\ e.answer = Form!Pending
            /\ e.args.mount = m
  BY <1>2, CallParts DEF Form!SearchCall, Form!CheckCall, CallSound, Form!BoundsAssumption
<1> HIDE DEF d, e
<1>12. PageMoves
  BY <1>1, <1>4, <1>10, <1>11, FormTyped DEF PageMoves
<1>13. FormServer' /\ SentOnce' /\ CallsTyped'
  BY <1>12, MovesKeep
<1>14. RowsSound(form', picker')
  BY <1>4, <1>7, <1>8 DEF RowsSound
<1>15. FormPage'
  <2>1. /\ draft'.text \in Texts /\ draft'.typed = ~editing
        /\ editing => draft'.text = a.detail.text
    BY <1>2, <1>6
  <2>2. editing => Fresh(form.detail.version, draft.text)'
    BY <1>1, <1>2, <1>7, <2>1 DEF Fresh, Form!server
  <2>3. editing \in BOOLEAN
    BY DEF FormInv, FormServer
  <2>4. QED
    BY <1>1, <1>8, <1>9, <1>12, <1>14, <2>1, <2>2, <2>3 DEF FormPage, RowsSound, PageMoves
<1>16. Flight'
  <2>1. \A g \in calls' : g.op # "load"
    BY <1>10, <1>11, FlightParts
  <2>2. \A g \in calls' : ~Submission(g)
    BY <1>3, <1>10, <1>11, FlightParts DEF Submission
  <2>3. kind # "lead" => ~form'.unresolved /\ form'.conflict = Form!NoConflict
    BY <1>7, FlightParts
  <2>4. ~editing => ~form'.stale
    BY <1>7, FlightParts
  <2>5. QED
    BY <1>1, <1>3, <1>7, <1>8, <2>1, <2>2, <2>3, <2>4 DEF Flight, Submission
<1>17. LastRequest'
  <2>1. \A g \in calls : g \in calls' \/ ~IsFirst(g)
    BY <1>10 DEF IsFirst
  <2>2. QED
    BY <1>1, <1>7, <2>1, FormTyped, RequestStays
<1>18. Select'
  <2>1. CASE checks
    BY <2>1, <1>8, <1>10, <1>11 DEF Select, Reasons, Form!Live
  <2>2. CASE ~checks
    <3>1. kind # "lead" \/ ~editing
      BY <1>2, <2>2
    <3>2. ~form.unresolved /\ form.conflict = Form!NoConflict
      BY <1>3, <3>1, FlightParts
    <3>3. QED
      BY <1>7, <2>2, <3>2 DEF Select
  <2>3. QED
    BY <2>1, <2>2
<1>19. QED
  BY <1>13, <1>15, <1>16, <1>17, <1>18 DEF FormInv

LEMMA LoadEnding ==
    ASSUME Form!BoundsAssumption, FormInv, NEW c \in calls, NEW a, Fits(c, a), Form!Ends(c, a),
           c.op = "load", stray' \subseteq calls \cup stray
    PROVE  FormInv'
<1> PICK f : f = [form EXCEPT !.ready = TRUE, !.detail = a.detail]
  OBVIOUS
<1>1. /\ Form!LoadEnds(a) /\ UNCHANGED keys /\ UNCHANGED <<kind, editing, Form!server,
           submitted>>
      /\ mounts' = mounts => calls' = calls \ {c}
  BY DEF Form!Ends
<1>2. mounts' = mounts => PageMoves
  BY <1>1, FormTyped DEF PageMoves
<1>3. CASE Form!Leave(Form!Cleared) /\ UNCHANGED mounts
  BY <1>2, <1>3, Denial
<1>4. form \in FormRows /\ RowsSound(form, picker)
  BY FormTyped
<1>5. CASE a.code = "failed" /\ Form!Leave([form EXCEPT !.failed = TRUE]) /\ UNCHANGED mounts
  <2>1. /\ form' = [form EXCEPT !.failed = TRUE] /\ picker' = Form!NoPicker
        /\ form' \in FormRows
        /\ \A x \in {"denied", "ready", "busy", "stale", "conflict", "unresolved", "result",
                     "request", "noteRequest"} : form'[x] = form[x]
        /\ form'.failed
    BY <1>4, <1>5 DEF Form!Leave, FormRows
  <2>2. RowsSound(form', Form!NoPicker)
    BY <1>4, <2>1 DEF RowsSound
  <2>3. CASE form.denied
    BY <1>2, <1>5, <2>1, <2>2, <2>3, DeniedStays
  <2>4. CASE ~form.denied
    <3>1. ~form.ready /\ ~form.busy
      BY <2>4, FlightParts DEF Form!View, Form!ViewOf
    <3>2. Form!View' # "form"
      BY <2>1 DEF Form!View, Form!ViewOf
    <3>3. Flight'
      BY <1>1, <1>5, <2>1, <2>4, <3>1, <3>2, FlightParts DEF Flight, Submission
    <3>4. QED
      BY <1>1, <1>2, <1>5, <2>1, <2>2, <2>4, <3>2, <3>3, LeaveStep DEF IsFirst
  <2>5. QED
    BY <2>3, <2>4
<1>6. CASE a.code = "ok" /\ Form!ViewOf(f) # "form"
  <2>1. UNCHANGED mounts /\ Form!Leave(f) /\ a.detail \in Form!Details
    BY <1>1, <1>6 DEF Form!LoadEnds, Fits
  <2>2. /\ form' = f /\ picker' = Form!NoPicker /\ form' \in FormRows
        /\ \A x \in {"denied", "failed", "busy", "stale", "conflict", "unresolved", "result",
                     "request", "noteRequest"} : form'[x] = form[x]
        /\ form'.ready
    BY <1>4, <2>1 DEF Form!Leave, FormRows
  <2>3. RowsSound(form', Form!NoPicker)
    BY <1>4, <2>2 DEF RowsSound
  <2>4. CASE form.denied
    BY <1>2, <2>1, <2>2, <2>3, <2>4, DeniedStays
  <2>5. CASE ~form.denied
    <3>1. ~form.busy /\ ~form.failed
      BY <2>5, FlightParts DEF Form!View, Form!ViewOf
    <3>2. Form!View' # "form"
      BY <1>6, <2>2 DEF Form!View
    <3>3. Flight'
      BY <1>1, <2>1, <2>2, <2>5, <3>1, <3>2, FlightParts DEF Flight, Submission
    <3>4. QED
      BY <1>1, <1>2, <2>1, <2>2, <2>3, <2>5, <3>2, <3>3, LeaveStep DEF IsFirst
  <2>6. QED
    BY <2>4, <2>5
<1>7. CASE a.code = "ok" /\ Form!ViewOf(f) = "form"
  <2>1. Form!Mount(f)
    BY <1>1, <1>7 DEF Form!LoadEnds
  <2>2. ~form.denied
    BY <1>4, <1>7 DEF Form!ViewOf, FormRows
  <2>3. QED
    BY <1>7, <2>1, <2>2, MountStep
<1>8. QED
  BY <1>1, <1>3, <1>5, <1>6, <1>7 DEF Form!LoadEnds

LEMMA SaveEnding ==
    ASSUME Form!BoundsAssumption, FormInv, NEW c \in calls, NEW a, Fits(c, a), Form!Ends(c, a),
           c.op = "save", stray' \subseteq calls \cup stray
    PROVE  FormInv'
<1> DEFINE t == c.args.body.choice
           Agrees(f, X) == \A x \in X : f[x] = form[x]
<1>1. /\ Form!SaveEnds(c, a) /\ UNCHANGED mounts
           /\ UNCHANGED <<kind, editing, Form!server, submitted>>
      /\ calls' = (calls \ {c}) \cup Form!SaveCalls(c, a) /\ Submission(c) /\ ~IsFirst(c)
      /\ t \in Form!Tokens
  BY CallOfPage DEF Form!Ends, Submission, IsFirst, CallSound, Form!Bodies
<1>2. form \in FormRows /\ RowsSound(form, picker)
  BY FormTyped
<1>3. ~form.denied => /\ form.busy /\ Form!View = "form" /\ ~form.stale
        /\ picker # Form!NoPicker
                      /\ \A d \in calls \ {c} : ~Submission(d)
  BY <1>1, FlightParts, FormTyped
<1>4. Form!SaveCalls(c, a) = {} /\ UNCHANGED keys => PageMoves /\ calls' = calls \ {c}
  BY <1>1, FormTyped DEF PageMoves
<1>5. a.code \in {"failed", "denied", "stale", "unavailable"}
         \/ (a.code = "changed" /\ picker = Form!NoPicker) \/ (a.code = "ok" /\ ~c.args.note)
      => Form!SaveCalls(c, a) = {}
  BY DEF Form!SaveCalls
<1>6. Form!View = "form" => draft.text \in Texts /\ draft.typed \in BOOLEAN
  BY DEF FormInv, FormPage
\* The page stays, and Save can be clicked again.
<1>7. ASSUME PageMoves, RowsSound(form', picker'), UNCHANGED draft,
             ~form'.busy, ~form.denied => Select',
             Agrees(form', {"denied", "failed", "ready", "detail", "result", "request"}),
             form'.stale => form.stale \/ editing,
             picker = Form!NoPicker <=> picker' = Form!NoPicker,
             ~form.denied /\ kind # "lead" =>
               /\ form'.unresolved = form.unresolved /\ form'.conflict = form.conflict
               /\ picker' = picker,
             \A d \in calls' : d \in calls \ {c} \/ d.op = "check",
             \A d \in calls : d \in calls' \/ ~IsFirst(d)
      PROVE  FormInv'
  <2>1. /\ form'.request = form.request /\ form'.denied = form.denied
        /\ form'.result = form.result /\ form'.ready = form.ready /\ keys' \in Nat
    BY <1>7 DEF PageMoves
  <2>2. LastRequest'
    BY <1>7, <2>1, RequestStays DEF PageMoves
  <2>3. Select'
    BY <1>7, <2>1 DEF Select, Form!View, Form!ViewOf
  <2>4. ~form.denied => /\ \A d \in calls' : ~Submission(d)
                        /\ form.ready
    BY <1>3, <1>7 DEF Submission, Form!View, Form!ViewOf
  <2>5. ~form.denied /\ kind # "lead" =>
               /\ ~form'.unresolved /\ form'.conflict = Form!NoConflict
               /\ Form!View = "form" => ~picker'.failed
    BY <1>7, FlightParts
  <2>6. \A x \in {"denied", "failed", "ready", "detail", "result"} : form'[x] = form[x]
    BY <1>7
  <2>7. \A d \in calls' : d \in calls \/ d.op # "load"
    BY <1>7
  <2>8. QED
    BY <1>6, <1>7, <2>2, <2>3, <2>4, <2>5, <2>6, <2>7, ShownStep
<1>8. CASE Form!Leave(Form!Cleared) /\ UNCHANGED keys /\ a.code = "denied"
  BY <1>4, <1>5, <1>8, Denial
<1>9. CASE a.code \in {"failed", "stale"} /\ UNCHANGED <<picker, draft, keys>>
           /\ form' = [form EXCEPT !.busy = FALSE, !.stale = (a.code = "stale") \/ form.stale]
  <2>1. PageMoves /\ calls' = calls \ {c}
    BY <1>4, <1>5, <1>9
  <2>2. PICK stale \in BOOLEAN : stale <=> (a.code = "stale") \/ form.stale
    OBVIOUS
  <2>3. form' = [form EXCEPT !.busy = FALSE, !.stale = stale]
    BY <1>2, <1>9, <2>2 DEF FormRows
  <2>4. /\ form' \in FormRows /\ ~form'.busy
        /\ Agrees(form', {"denied", "failed", "ready", "detail", "result", "request",
             "conflict",
                          "unresolved", "noteRequest"})
    BY <1>2, <2>3 DEF FormRows
  <2>5. form'.stale => form.stale \/ editing
    BY <1>2, <1>9, <2>2, <2>3 DEF Fits, FormRows
  <2>6. RowsSound(form', picker')
    BY <1>2, <1>9, <2>4 DEF RowsSound
  <2>7. ~form.denied => Select'
    <3>1. Reasons => Reasons'
      BY <1>1, <1>9, <2>1 DEF Reasons, Form!Live
    <3>2. Form!View' = Form!View /\ made' = made /\ form'.unresolved = form.unresolved
          /\ form'.conflict = form.conflict /\ picker' = picker
      BY <1>1, <1>9, <2>4 DEF Form!View, Form!ViewOf, Form!server
    <3>3. QED
      BY <3>1, <3>2 DEF FormInv, Select
  <2>8. QED
    BY <1>1, <1>7, <1>9, <2>1, <2>4, <2>5, <2>6, <2>7
<1>10. ASSUME a.code \in {"changed", "unavailable"}, UNCHANGED <<draft, keys>>,
              NEW u \in BOOLEAN, picker = Form!NoPicker <=> picker' = Form!NoPicker,
              picker' \in PickerRows \cup {Form!NoPicker},
              form' = [form EXCEPT !.busy = FALSE, !.unresolved = u,
                                   !.conflict = [outcome |-> a.code, token |-> t]],
              PageMoves, ~form.denied => (u => Reasons') /\ (Reasons'
              \/ picker'.selected = Form!Unchosen),
              \A d \in calls' : d \in calls \ {c} \/ d.op = "check"
       PROVE  FormInv'
  <2> DEFINE x == [outcome |-> a.code, token |-> t]
  <2>1. x \in [outcome : {"none", "changed", "unavailable"}, token : Form!Tokens]
          /\ kind = "lead"
    BY <1>1, <1>10 DEF Fits
  <2>2. form' = [form EXCEPT !.busy = FALSE, !.unresolved = u, !.conflict = x]
    BY <1>10
  <2> HIDE DEF x
  <2>3. /\ form' \in FormRows /\ ~form'.busy /\ form'.unresolved = u
        /\ Agrees(form', {"denied", "failed", "ready", "detail", "result", "request", "stale",
                          "noteRequest"})
    BY <1>2, <2>1, <2>2 DEF FormRows
  <2>4. RowsSound(form', picker')
    BY <1>2, <1>10, <2>3 DEF RowsSound
  <2>5. ~form.denied => Select'
    BY <1>10, <2>3 DEF Select
  <2>6. \A d \in calls : d \in calls' \/ ~IsFirst(d)
    BY <1>1
  <2>7. QED
    BY <1>7, <1>10, <2>1, <2>3, <2>4, <2>5, <2>6
<1>11. CASE a.code \in {"changed", "unavailable"} /\ UNCHANGED <<draft, keys>>
  <2> DEFINE f == [[form EXCEPT !.busy = FALSE] EXCEPT
                     !.conflict = [outcome |-> a.code, token |-> t]]
  <2>1. CASE picker = Form!NoPicker
    <3>1. form' = f /\ picker' = Form!NoPicker
      BY <1>1, <1>11, <2>1 DEF Form!SaveEnds
    <3>2. form' = [form EXCEPT !.busy = FALSE, !.unresolved = form.unresolved,
                               !.conflict = [outcome |-> a.code, token |-> t]]
      BY <1>2, <3>1 DEF FormRows
    <3>3. PageMoves /\ calls' = calls \ {c} /\ form.unresolved \in BOOLEAN
      BY <1>2, <1>4, <1>5, <1>11, <2>1 DEF FormRows
    <3>4. form.denied
      BY <1>3, <2>1
    <3>5. QED
      BY <1>10, <1>11, <2>1, <3>1, <3>2, <3>3, <3>4
  <2>2. CASE picker # Form!NoPicker /\ a.code = "unavailable"
    <3>1. /\ form' = [f EXCEPT !.unresolved = FALSE]
          /\ picker' = [picker EXCEPT !.selected = Form!Unchosen, !.replacement = Form!Unchosen]
      BY <1>1, <2>2 DEF Form!SaveEnds
    <3>2. form' = [form EXCEPT !.busy = FALSE, !.unresolved = FALSE,
                               !.conflict = [outcome |-> a.code, token |-> t]]
      BY <1>2, <3>1 DEF FormRows
    <3>3. PageMoves /\ calls' = calls \ {c}
      BY <1>4, <1>5, <1>11, <2>2
    <3>4. picker' \in PickerRows /\ picker' # Form!NoPicker /\ picker'.selected = Form!Unchosen
      BY <1>2, <2>2, <3>1 DEF RowsSound, PickerRows, Form!NoPicker, Form!Tokens
    <3>5. QED
      BY <1>10, <1>11, <2>2, <3>2, <3>3, <3>4
  <2>3. CASE picker # Form!NoPicker /\ a.code = "changed"
    <3>1. /\ form' = [f EXCEPT !.unresolved = TRUE]
          /\ picker' = [picker EXCEPT !.failed = FALSE, !.loading = TRUE]
      BY <1>1, <2>3 DEF Form!SaveEnds, Form!Checking, Form!Rechecked
    <3>2. form' = [form EXCEPT !.busy = FALSE, !.unresolved = TRUE,
                               !.conflict = [outcome |-> a.code, token |-> t]]
      BY <1>2, <3>1 DEF FormRows
    <3>3. picker' \in PickerRows /\ picker' # Form!NoPicker /\ picker'.mount = picker.mount
      BY <1>2, <2>3, <3>1 DEF RowsSound, PickerRows, Form!NoPicker
    <3> DEFINE d == Form!CheckCall(t, picker.mount)
    <3>4. d.op = "check" /\ CallSound(d) /\ d.answer = Form!Pending
            /\ d.args.mount = picker.mount
      <4>1. kind = "lead"
        BY <2>3 DEF Fits
      <4>2. QED
        BY <1>1, <4>1, CallParts DEF Form!CheckCall, CallSound
    <3>5. calls' = (calls \ {c}) \cup {d}
      BY <1>1, <2>3 DEF Form!SaveCalls
    <3> HIDE DEF d
    <3>6. PageMoves
      BY <1>1, <1>11, <3>4, <3>5, FormTyped DEF PageMoves
    <3>7. Reasons'
      BY <3>3, <3>4, <3>5 DEF Reasons, Form!Live
    <3>8. QED
      BY <1>10, <1>11, <2>3, <3>2, <3>3, <3>4, <3>5, <3>6, <3>7
  <2>4. QED
    BY <1>11, <2>1, <2>2, <2>3
<1>12. CASE a.code = "ok" /\ ~c.args.note
  <2> DEFINE r == a.result
  <2>1. r \in [id : {0} \cup Form!Keys, version : Nat \ {0}] /\ r # Form!NoResult
    BY <1>12 DEF Fits, Form!NoResult
  <2>2. /\ form' = [[form EXCEPT !.busy = FALSE] EXCEPT !.request = Form!NoRequest,
             !.result = r]
        /\ picker' = Form!NoPicker /\ UNCHANGED keys
    BY <1>1, <1>12 DEF Form!SaveEnds, Form!Leave
  <2> HIDE DEF r
  <2>3. Form!NoRequest \in [body : Form!Bodies \cup {Form!NoBody}, key : {0} \cup Form!Keys]
    BY DEF Form!NoRequest
  <2>4. /\ form' \in FormRows /\ ~form'.busy /\ form'.result = r
        /\ Agrees(form', {"denied", "failed", "ready", "stale", "unresolved", "conflict",
             "noteRequest"})
    BY <1>2, <2>1, <2>2, <2>3 DEF FormRows
  <2>5. RowsSound(form', Form!NoPicker)
    BY <1>2, <2>1, <2>4 DEF RowsSound
  <2>6. QED
    BY <1>1, <1>4, <1>5, <1>12, <2>1, <2>2, <2>4, <2>5, ResultStep
<1>13. CASE a.code = "ok" /\ c.args.note
  <2> DEFINE version == a.result.version
             args == [id |-> a.result.id, version |-> version, key |-> Form!NoteKey(version),
                      first |-> TRUE, nr |-> 1]
             d == Form!Call("note", args)
  <2>1. a.result.id \in {0} \cup Form!Keys /\ version \in Nat \ {0}
    BY <1>13 DEF Fits
  <2>2. /\ keys < MaxKey /\ Form!NoteDrawn(version) /\ UNCHANGED <<picker, draft>>
        /\ form' = Form!NoteSent([form EXCEPT !.request = Form!NoRequest], version)
    BY <1>1, <1>13 DEF Form!SaveEnds
  <2>3. calls' = (calls \ {c}) \cup {d}
    BY <1>1, <1>13 DEF Form!SaveCalls, Form!NoteCall
  <2>4. Form!NoteKey(version) <= MaxKey
    <3>1. form.noteRequest.key \in {0} \cup Form!Keys
      BY <1>2 DEF FormRows
    <3>2. QED
      BY <2>2, <3>1, FormTyped, BoundsTyped DEF Form!NoteKey, Form!Keys
  <2> HIDE DEF version
  <2>5. Form!NoteKey(version) \in Form!Keys /\ keys \in 0 .. keys' /\ keys' \in 0 .. MaxKey
    BY <2>1, <2>2, <2>4, NoteKeyTyped
  <2>6. /\ args.id = a.result.id /\ args.key = Form!NoteKey(version) /\ args.version = version
        /\ args.first
    OBVIOUS
  <2> HIDE DEF args
  <2>7. CallSound(d) /\ d.op = "note" /\ d.answer = Form!Pending /\ d.args = args
    BY <2>1, <2>5, <2>6, NoteCallSound
  <2>8. Submission(d) /\ IsFirst(d)
    BY <2>6, <2>7 DEF Submission, IsFirst
  <2> HIDE DEF d
  <2>9. PageMoves
    BY <1>1, <2>3, <2>5, <2>7, FormTyped DEF PageMoves
  <2>10. PICK f : f = [form EXCEPT !.request = Form!NoRequest]
    OBVIOUS
  <2>11. /\ f \in FormRows /\ RowsSound(f, picker)
         /\ Agrees(f, {"denied", "failed", "ready", "detail", "result", "busy", "stale",
                       "conflict", "unresolved", "noteRequest"})
    <3>1. Form!NoRequest \in [body : Form!Bodies \cup {Form!NoBody}, key : {0} \cup Form!Keys]
      BY DEF Form!NoRequest
    <3>2. f \in FormRows
      BY <1>2, <2>10, <3>1 DEF FormRows
    <3>3. Agrees(f, {"denied", "failed", "ready", "detail", "result", "busy", "stale",
                     "conflict", "unresolved", "noteRequest"})
      BY <1>2, <2>10 DEF FormRows
    <3>4. QED
      BY <1>2, <3>2, <3>3 DEF RowsSound
  <2>12. RowsSound(form', picker')
         /\ \A x \in DOMAIN f \ {"noteRequest"} : form'[x] = f[x]
    BY <2>1, <2>2, <2>5, <2>10, <2>11, NoteSentSound
  <2>13. Agrees(form', {"denied", "failed", "ready", "detail", "result", "busy", "stale",
                        "conflict", "unresolved"})
    BY <2>11, <2>12 DEF FormRows
  <2>14. LastRequest'
    BY <2>3, <2>8 DEF LastRequest, IsFirst
  <2>15. Form!View' = Form!View
    BY <2>13 DEF Form!View, Form!ViewOf
  <2>16. Select'
    <3>1. Reasons => Reasons'
      BY <1>1, <2>2, <2>3 DEF Reasons, Form!Live
    <3>2. made' = made /\ form'.unresolved = form.unresolved
          /\ form'.conflict = form.conflict /\ picker' = picker
      BY <1>1, <2>2, <2>13 DEF Form!server
    <3>3. QED
      BY <2>15, <3>1, <3>2 DEF FormInv, Select
  <2>17. ~form.denied => /\ \A e \in calls' : Submission(e) => form'.busy
                         /\ \A e, g \in calls' : Submission(e) /\ Submission(g) => e = g
    BY <1>3, <2>3, <2>13
  <2>18. ~form.denied /\ kind # "lead" =>
               /\ ~form'.unresolved /\ form'.conflict = Form!NoConflict
               /\ Form!View = "form" => ~picker'.failed
    BY <2>2, <2>13, FlightParts
  <2>19. ~form.denied /\ ~editing /\ ~form.ready => ~form'.unresolved
           /\ form'.conflict = Form!NoConflict
    BY <2>13, FlightParts
  <2>20. \A e \in calls' : e \in calls \/ e.op # "load"
    BY <2>3, <2>7
  <2>21. \A x \in {"denied", "failed", "ready", "detail", "result"} : form'[x] = form[x]
    BY <2>13
  <2>22. form'.busy = form.busy /\ form'.stale = form.stale
    BY <2>13
  <2>23. QED
    BY <1>6, <2>2, <2>9, <2>12, <2>14, <2>16, <2>17, <2>18, <2>19, <2>20, <2>21, <2>22,
       ShownStep
<1>14. a.code \in {"failed", "stale"} /\ Form!SaveEnds(c, a) =>
          /\ UNCHANGED <<picker, draft, keys>>
          /\ form' = [form EXCEPT !.busy = FALSE, !.stale = (a.code = "stale") \/ form.stale]
  <2>1. form.stale \in BOOLEAN
    BY <1>2 DEF FormRows
  <2>2. CASE a.code = "failed"
    <3>1. [form EXCEPT !.busy = FALSE] = [form EXCEPT !.busy = FALSE, !.stale = form.stale]
      BY <1>2 DEF FormRows
    <3>2. ((a.code = "stale") \/ form.stale) = form.stale
      BY <2>1, <2>2
    <3>3. QED
      BY <2>2, <3>1, <3>2 DEF Form!SaveEnds
  <2>3. CASE a.code = "stale"
    <3>1. ((a.code = "stale") \/ form.stale) = TRUE
      BY <2>3
    <3>2. [[form EXCEPT !.busy = FALSE] EXCEPT !.stale = TRUE]
             = [form EXCEPT !.busy = FALSE, !.stale = TRUE]
      BY <1>2 DEF FormRows
    <3>3. QED
      BY <2>3, <3>1, <3>2 DEF Form!SaveEnds
  <2>4. QED
    BY <2>2, <2>3
<1>15. \/ a.code \in {"failed", "stale"}
       \/ a.code = "denied" /\ Form!Leave(Form!Cleared) /\ UNCHANGED keys
       \/ a.code \in {"changed", "unavailable"} /\ UNCHANGED <<draft, keys>>
       \/ a.code = "ok"
  BY <1>1 DEF Form!SaveEnds
<1>16. QED
  BY <1>1, <1>8, <1>9, <1>11, <1>12, <1>13, <1>14, <1>15
-----------------------------------------------------------------------------
\* The user's steps on the form: its page, and what settling an option needs.
LEMMA OnForm ==
    ASSUME Form!BoundsAssumption, FormInv, Form!View = "form"
    PROVE  /\ form \in FormRows /\ form.unresolved \in BOOLEAN /\ RowsSound(form, picker)
           /\ picker \in PickerRows /\ picker # Form!NoPicker /\ ~form.denied
           /\ draft.text \in Texts /\ draft.typed \in BOOLEAN
           /\ [form EXCEPT !.unresolved = form.unresolved, !.conflict = form.conflict] = form
           /\ form.unresolved => Reasons
           /\ form.conflict # Form!NoConflict =>
                \/ Reasons \/ picker.selected = Form!Unchosen
                \/ \E k \in Form!Keys : made[k] = Form!Chosen(picker.selected)
<1>1. form \in FormRows
  BY FormTyped
<1>2. form.unresolved \in BOOLEAN
      /\ [form EXCEPT !.unresolved = form.unresolved, !.conflict = form.conflict] = form
  BY <1>1 DEF FormRows
<1>3. QED
  BY <1>1, <1>2, FormTyped DEF FormInv, FormPage, Select

LEMMA WriteStep == ASSUME Form!BoundsAssumption, FormInv, Form!Write PROVE FormInv'
<1>1. PICK t \in Texts : draft' = [text |-> t, typed |-> TRUE]
  BY DEF Form!Write
<1>2. Form!View = "form" /\ UNCHANGED <<form, picker>> /\ Form!Keeps
  BY DEF Form!Write
<1>3. PageMoves /\ calls' = calls
  BY <1>2, FormTyped DEF Form!Keeps, PageMoves, Form!counts
<1>4. Reasons => Reasons'
  BY <1>2, <1>3 DEF Reasons, Form!Live
<1>5. draft'.text \in Texts /\ draft'.typed \in BOOLEAN /\ draft'.typed
  BY <1>1
<1>6. QED
  BY <1>2, <1>3, <1>4, <1>5, OnForm, SettleStep

LEMMA SettledParts ==
    ASSUME NEW t, form \in FormRows
    PROVE  Form!Settled(t) = [form EXCEPT !.unresolved = FALSE,
                           !.conflict = IF t = Form!Unchosen THEN form.conflict
                             ELSE Form!NoConflict]
    BY DEF Form!Settled, FormRows

LEMMA ChooseStep == ASSUME Form!BoundsAssumption, FormInv, Form!Choose PROVE FormInv'
<1>1. PICK t \in picker.items \cup {Form!Unchosen} :
        /\ form' = Form!Settled(t)
        /\ picker' = [picker EXCEPT !.selected = t, !.replacement = Form!Unchosen]
  BY DEF Form!Choose
<1>2. Form!View = "form" /\ UNCHANGED draft /\ Form!Keeps
  BY DEF Form!Choose
<1>3. PageMoves /\ calls' = calls
  BY <1>2, FormTyped DEF Form!Keeps, PageMoves, Form!counts
<1>4. t \in Form!Tokens /\ Form!Unchosen \in Form!Tokens
  BY <1>2, OnForm DEF PickerRows, Form!Tokens
<1>5. picker' \in PickerRows /\ picker' # Form!NoPicker /\ picker'.selected = t
      /\ picker'.failed = picker.failed
  BY <1>1, <1>2, <1>4, OnForm DEF PickerRows, Form!NoPicker
<1>6. PICK x \in {form.conflict, Form!NoConflict} :
        x = IF t = Form!Unchosen THEN form.conflict ELSE Form!NoConflict
  OBVIOUS
<1>7. form' = [form EXCEPT !.unresolved = FALSE, !.conflict = x]
  BY <1>1, <1>2, <1>6, OnForm, SettledParts
<1>8. QED
  BY <1>2, <1>3, <1>5, <1>6, <1>7, OnForm, SettleStep

LEMMA UseCurrentStep == ASSUME Form!BoundsAssumption, FormInv, Form!UseCurrent PROVE FormInv'
<1>1. /\ Form!View = "form" /\ UNCHANGED draft /\ Form!Keeps
           /\ picker.replacement # Form!Unchosen
      /\ form' = Form!Settled(picker.replacement)
      /\ picker' = [picker EXCEPT !.selected = picker.replacement,
           !.replacement = Form!Unchosen]
  BY DEF Form!UseCurrent
<1>2. PageMoves /\ calls' = calls
  BY <1>1, FormTyped DEF Form!Keeps, PageMoves, Form!counts
<1>3. Form!Unchosen \in Form!Tokens
  BY DEF Form!Tokens
<1>4. picker' \in PickerRows /\ picker' # Form!NoPicker /\ picker'.failed = picker.failed
  BY <1>1, <1>3, OnForm DEF PickerRows, Form!NoPicker
<1>5. form' = [form EXCEPT !.unresolved = FALSE, !.conflict = Form!NoConflict]
  BY <1>1, OnForm, SettledParts
<1>6. QED
  BY <1>1, <1>2, <1>4, <1>5, OnForm, SettleStep

LEMMA RetryCheckStep == ASSUME Form!BoundsAssumption, FormInv, Form!RetryCheck PROVE FormInv'
<1> PICK t : t = IF form.conflict # Form!NoConflict THEN form.conflict.token
      ELSE form.detail.choice
  OBVIOUS
<1> DEFINE d == Form!CheckCall(t, picker.mount)
<1>1. /\ Form!View = "form" /\ picker.failed
      /\ form' = [form EXCEPT !.unresolved = TRUE]
      /\ picker' = [picker EXCEPT !.failed = FALSE, !.loading = TRUE]
      /\ calls' = calls \cup {d}
      /\ UNCHANGED <<kind, editing, Form!server, stray, failures, mounts>>
      /\ UNCHANGED <<draft, keys, submitted>>
  BY DEF Form!RetryCheck, Form!Checking, Form!Rechecked, Form!Opens, Form!Sends
<1>2. t \in Form!Tokens
  BY <1>1, OnForm DEF FormRows, Form!Details
<1>3. kind = "lead"
  BY <1>1, OnForm, FlightParts
<1>4. d.op = "check" /\ CallSound(d) /\ d.answer = Form!Pending /\ d.args.mount = picker.mount
  BY <1>2, <1>3, CallParts DEF Form!CheckCall, CallSound
<1> HIDE DEF d
<1>5. PageMoves
  BY <1>1, <1>4, FormTyped DEF PageMoves
<1>6. picker' \in PickerRows /\ picker' # Form!NoPicker /\ picker'.mount = picker.mount
  BY <1>1, OnForm DEF PickerRows, Form!NoPicker
<1>7. Reasons'
  BY <1>1, <1>4, <1>6 DEF Reasons, Form!Live
<1>8. form' = [form EXCEPT !.unresolved = TRUE, !.conflict = form.conflict]
  BY <1>1, OnForm DEF FormRows
<1>9. \A c \in calls' : c \in calls \/ (c.op # "load" /\ ~Submission(c))
  BY <1>1, <1>4 DEF Submission
<1>10. QED
  BY <1>1, <1>3, <1>5, <1>6, <1>7, <1>8, <1>9, OnForm, SettleStep

LEMMA ReloadStep == ASSUME Form!BoundsAssumption, FormInv, Form!Reload PROVE FormInv'
<1>1. /\ Form!View = "error" \/ (Form!View = "form" /\ form.stale)
      /\ form' = [form EXCEPT !.ready = FALSE, !.denied = FALSE, !.failed = FALSE,
                              !.detail = Form!NoDetail]
      /\ picker' = Form!NoPicker
      /\ calls' = calls \cup {Form!LoadCall}
      /\ UNCHANGED <<kind, editing, Form!server, stray, failures, mounts>>
      /\ UNCHANGED <<keys, submitted>>
  BY DEF Form!Reload, Form!Leave, Form!Opens, Form!Sends
<1>2. Form!LoadCall.op = "load" /\ CallSound(Form!LoadCall)
        /\ Form!LoadCall.answer = Form!Pending
  BY CallParts DEF Form!LoadCall, CallSound
<1>3. PageMoves
  BY <1>1, <1>2, FormTyped DEF PageMoves
<1>4. form \in FormRows /\ RowsSound(form, picker) /\ ~form.denied
  BY <1>1, FormTyped DEF Form!View, Form!ViewOf
<1>5. Form!NoDetail \in Form!Details
  BY BoundsTyped DEF Form!NoDetail, Form!Details, Form!Tokens
<1>6. /\ form' \in FormRows /\ ~form'.ready /\ ~form'.denied /\ ~form'.failed
      /\ form'.busy = form.busy /\ form'.stale = form.stale /\ form'.conflict = form.conflict
      /\ form'.unresolved = form.unresolved /\ form'.result = form.result
      /\ form'.request = form.request /\ form'.noteRequest = form.noteRequest
  BY <1>1, <1>4, <1>5 DEF FormRows
<1>7. RowsSound(form', Form!NoPicker)
  BY <1>4, <1>6 DEF RowsSound
<1>8. Form!View' # "form"
  BY <1>6 DEF Form!View, Form!ViewOf
<1>9. form.failed \/ form.ready
  BY <1>1 DEF Form!View, Form!ViewOf
<1>10. \A c \in calls : c.op # "load"
  BY <1>4, <1>9, FlightParts
<1>11. ~form.busy
  BY <1>1, <1>4, FlightParts
<1>12. ~editing => ~form.unresolved /\ form.conflict = Form!NoConflict
  <2>1. ~editing => Form!View = "error"
    BY <1>1, <1>4, FlightParts
  <2>2. Form!View = "error" => form.failed
    BY DEF Form!View, Form!ViewOf
  <2>3. QED
    BY <1>4, <2>1, <2>2, FlightParts
<1>13. Flight'
  <2>1. \A c \in calls' : c \in calls \/ c = Form!LoadCall
    BY <1>1
  <2>2. ~Submission(Form!LoadCall)
    BY <1>2 DEF Submission
  <2>3. \A c, d \in calls' : c.op = "load" /\ d.op = "load" => c = d
    BY <1>10, <2>1
  <2>4. \A c \in calls' : ~Submission(c)
    BY <1>4, <1>11, <2>1, <2>2, FlightParts
  <2>5. QED
    BY <1>1, <1>4, <1>6, <1>8, <1>11, <1>12, <2>3, <2>4, FlightParts DEF Flight, Submission
<1>14. QED
  BY <1>1, <1>3, <1>4, <1>6, <1>7, <1>8, <1>13, LeaveStep

LEMMA SubmitFormStep == ASSUME Form!BoundsAssumption, FormInv, Form!Submit PROVE FormInv'
<1> PICK body : body = Form!Command
  OBVIOUS
<1> PICK k : k = IF Form!SameRequest(body) THEN form.request.key ELSE keys + 1
  OBVIOUS
<1> DEFINE args == [key |-> k, body |-> body, note |-> form.written, typed |-> draft.typed]
           asking == [body |-> body, key |-> k]
<1> PICK d : d = Form!Call("save", args)
  OBVIOUS
<1>1. /\ Form!View = "form" /\ Form!MaySave /\ k <= MaxKey /\ keys' = (IF k > keys THEN k
           ELSE keys)
      /\ submitted' = [submitted EXCEPT ![k] = body]
      /\ form' = [form EXCEPT !.busy = TRUE, !.request = asking]
      /\ calls' = calls \cup {d}
      /\ UNCHANGED <<kind, editing, Form!server, stray, failures, mounts>>
      /\ UNCHANGED <<picker, draft>>
  BY DEF Form!Submit, Form!Sends
<1>2. form \in FormRows /\ RowsSound(form, picker) /\ keys \in Nat /\ ~form.busy
      /\ ~form.stale /\ ~form.unresolved /\ form.conflict = Form!NoConflict
  BY <1>1, FormTyped DEF Form!MaySave
<1>3. body \in Form!Bodies /\ body.version = form.detail.version /\ body.text = draft.text
  <2>1. /\ form.detail.version \in 0 .. MaxRecordVersion /\ draft.text \in Texts
        /\ picker.selected \in Form!Tokens /\ Form!Unchosen \in Form!Tokens
    BY <1>1, <1>2, OnForm DEF FormRows, Form!Details, PickerRows, Form!Tokens
  <2>2. QED
    BY <2>1 DEF Form!Command, Form!Bodies
<1>4. /\ \A j \in Form!Keys : submitted[j] # Form!NoBody => j <= form.request.key
      /\ form.request.key <= keys /\ form.request.key \in {0} \cup Form!Keys
      /\ IF form.request.key = 0 THEN form.request.body = Form!NoBody
         ELSE form.request.body \in Form!Bodies
           /\ submitted[form.request.key] = form.request.body
  <2>1. \A c \in calls : ~Submission(c)
    BY <1>1, <1>2, OnForm, FlightParts
  <2>2. ~form.denied /\ form.result = Form!NoResult
    BY <1>1, FormTyped
  <2>3. QED
    BY <1>2, <2>1, <2>2 DEF FormInv, LastRequest, Submission, FormRows
<1>5. Form!NoBody # body
  BY <1>3, BoundsTyped
<1>6. /\ k \in Form!Keys /\ keys \in 0 .. keys' /\ keys' \in 0 .. MaxKey /\ k <= keys'
      /\ \/ k = form.request.key /\ submitted[k] = body
         \/ k = keys + 1 /\ form.request.body # body
  <2>1. CASE Form!SameRequest(body)
    BY <1>1, <1>2, <1>4, <1>5, <2>1, FormTyped, BoundsTyped DEF Form!SameRequest, Form!Keys
  <2>2. CASE ~Form!SameRequest(body)
    BY <1>1, <1>2, <1>4, <2>2, FormTyped, BoundsTyped DEF Form!SameRequest, Form!Keys
  <2>3. QED
    BY <2>1, <2>2
<1>7. submitted \in [Form!Keys -> Form!Bodies \cup {Form!NoBody}]
        /\ \A j \in Form!Keys : saved[j] \in {Form!NoBody, submitted[j]}
  BY DEF FormInv, FormServer
<1>8. submitted[k] \in {Form!NoBody, body}
  BY <1>2, <1>4, <1>6, <1>7, BoundsTyped DEF Form!Keys
<1>9. /\ submitted'[k] = body /\ submitted' \in [Form!Keys -> Form!Bodies \cup {Form!NoBody}]
      /\ \A j \in Form!Keys : j # k => submitted'[j] = submitted[j]
  BY <1>1, <1>3, <1>6, <1>7
<1>10. \A j \in Form!Keys : submitted[j] # Form!NoBody => submitted'[j] = submitted[j]
  BY <1>8, <1>9
<1>11. FormServer'
  <2>1. saved' = saved /\ \A j \in Form!Keys : saved[j] \in {Form!NoBody, submitted'[j]}
    BY <1>1, <1>7, <1>8, <1>9 DEF Form!server
  <2>2. QED
    BY <1>1, <1>6, <1>9, <2>1 DEF FormInv, FormServer, Form!server
<1>12. SentOnce'
  <2> SUFFICES ASSUME NEW i \in Form!Keys, NEW j \in Form!Keys, i < j,
                      submitted'[i] # Form!NoBody,
                      submitted'[i] = submitted'[j]
               PROVE  \E h \in i + 1 .. j - 1 : submitted'[h] \notin {Form!NoBody,
                      submitted'[i]}
    BY DEF SentOnce
  <2>1. CASE submitted[i] = submitted'[i] /\ submitted[j] = submitted'[j]
    <3>1. PICK h \in i + 1 .. j - 1 : submitted[h] \notin {Form!NoBody, submitted[i]}
      BY <2>1 DEF FormInv, SentOnce
    <3>2. h \in Form!Keys
      BY <3>1, BoundsTyped DEF Form!Keys
    <3>3. QED
      BY <1>10, <2>1, <3>1, <3>2
  <2>2. CASE ~(submitted[i] = submitted'[i] /\ submitted[j] = submitted'[j])
    <3>1. k = keys + 1 /\ form.request.body # body /\ submitted[k] = Form!NoBody
      BY <1>6, <1>8, <1>9, <2>2
    <3>2. k = j
      BY <1>2, <1>4, <1>9, <2>2, <3>1, BoundsTyped DEF Form!Keys
    <3>3. submitted[i] = body /\ i <= form.request.key
      BY <1>4, <1>5, <1>9, <3>2, BoundsTyped DEF Form!Keys
    <3> DEFINE r == form.request.key
    <3>4. r \in Form!Keys /\ submitted[r] = form.request.body /\ submitted[r] \in Form!Bodies
      BY <1>4, <3>3, BoundsTyped DEF Form!Keys
    <3>5. i # r /\ r < k
      BY <1>2, <1>4, <3>1, <3>3, <3>4, BoundsTyped DEF Form!Keys
    <3>6. r \in i + 1 .. j - 1
      BY <3>2, <3>3, <3>4, <3>5, BoundsTyped DEF Form!Keys
    <3>7. submitted'[r] = submitted[r] /\ submitted[r] # Form!NoBody /\ submitted[r] # body
      BY <1>9, <3>1, <3>4, <3>5, BoundsTyped DEF Form!Keys
    <3>8. submitted'[i] = body
      BY <1>9, <3>2
    <3>9. QED
      BY <3>6, <3>7, <3>8
  <2>3. QED
    BY <2>1, <2>2
<1>13. editing /\ ~draft.typed => Fresh(body.version, body.text)
  BY <1>1, <1>3 DEF FormInv, FormPage
<1>14. args.key = k /\ args.body = body /\ args.typed = draft.typed /\ args.note = form.written
  OBVIOUS
<1> HIDE DEF args
<1>15. d.op = "save" /\ d.args = args /\ d.answer = Form!Pending
       /\ d = [op |-> d.op, args |-> d.args, answer |-> d.answer]
  BY CallParts
<1>16. CallsTyped'
  <2>1. ASSUME NEW c \in calls \cup stray PROVE CallSound(c)'
    <3>1. CallSound(c)
      BY DEF FormInv, CallsTyped
    <3>2. c.op = "save" => submitted[c.args.key] # Form!NoBody /\ c.args.key \in Form!Keys
      BY <3>1, BoundsTyped DEF CallSound
    <3>3. QED
      BY <1>1, <1>10, <3>1, <3>2 DEF CallSound, Fresh, Form!server
  <2>2. CallSound(d)'
    <3>1. draft.typed \in BOOLEAN /\ form.written \in BOOLEAN
      BY <1>1, <1>2, OnForm DEF FormRows
    <3>2. /\ d.args.key = k /\ d.args.body = body
          /\ d.args.typed = draft.typed /\ d.args.note = form.written
      BY <1>14, <1>15
    <3>3. editing' /\ ~d.args.typed => Fresh(d.args.body.version, d.args.body.text)'
      BY <1>1, <1>13, <3>2 DEF Fresh, Form!server
    <3>4. QED
      BY <1>3, <1>6, <1>9, <1>15, <3>1, <3>2, <3>3 DEF CallSound
  <2>3. ASSUME NEW c, NEW a, Fits(c, a) PROVE Fits(c, a)'
    BY <1>1, <2>3 DEF Fits, Fresh, Form!server
  <2>4. ASSUME NEW c \in calls', c.answer # Form!Pending PROVE Fits(c, c.answer)'
    <3>1. c \in calls
      BY <1>1, <1>15, <2>4
    <3>2. Fits(c, c.answer)
      BY <2>4, <3>1 DEF FormInv, CallsTyped
    <3>3. QED
      BY <2>3, <3>2
  <2>5. \A c \in calls' \cup stray' : c \in calls \cup stray \/ c = d
    BY <1>1
  <2>6. \A c \in calls' \cup stray' : CallSound(c)'
    BY <2>1, <2>2, <2>5
  <2>7. QED
    BY <2>4, <2>6 DEF CallsTyped
<1>17. asking \in [body : Form!Bodies \cup {Form!NoBody}, key : {0} \cup Form!Keys]
       /\ asking.body = body /\ asking.key = k
  BY <1>3, <1>6
<1> HIDE DEF asking
<1>18. /\ form' \in FormRows /\ form'.busy /\ form'.request = asking
       /\ form'.denied = form.denied /\ form'.failed = form.failed /\ form'.ready = form.ready
       /\ form'.detail = form.detail /\ form'.stale = form.stale
       /\ form'.conflict = form.conflict /\ form'.unresolved = form.unresolved
       /\ form'.result = form.result /\ form'.noteRequest = form.noteRequest
  BY <1>1, <1>2, <1>17 DEF FormRows
<1>19. Form!View' = "form" /\ Form!View' = Form!View
  BY <1>1, <1>18 DEF Form!View, Form!ViewOf
<1>20. FormPage'
  BY <1>1, <1>2, <1>18, <1>19 DEF FormInv, FormPage, RowsSound, Fresh, Form!server
<1>21. \A c \in calls : ~Submission(c)
  BY <1>1, <1>2, OnForm, FlightParts
<1>22. Flight'
  <2>1. \A c \in calls' : c \in calls \/ c = d
    BY <1>1
  <2>2. \A c \in calls' : c.op = "load" => ~form.ready /\ ~form.failed
    BY <1>1, <1>15, <2>1, OnForm, FlightParts
  <2>3. \A c, e \in calls' : c.op = "load" /\ e.op = "load" => c = e
    BY <1>1, <1>15, <2>1, OnForm, FlightParts
  <2>4. \A c, e \in calls' : Submission(c) /\ Submission(e) => c = e
    BY <1>21, <2>1
  <2>5. ~form.denied /\ ~form.failed
    BY <1>1, FormTyped
  <2>6. kind # "lead" => ~picker.failed
    BY <1>1, <2>5, FlightParts
  <2>7. QED
    BY <1>1, <1>2, <1>18, <1>19, <2>2, <2>3, <2>4, <2>5, <2>6 DEF Flight, Submission
<1>23. LastRequest'
  <2>1. \A j \in Form!Keys : submitted'[j] # Form!NoBody => j <= k
    BY <1>2, <1>4, <1>6, <1>9, BoundsTyped DEF Form!Keys
  <2>2. k # 0
    BY <1>6, BoundsTyped DEF Form!Keys
  <2>3. QED
    BY <1>3, <1>6, <1>9, <1>17, <1>18, <2>1, <2>2 DEF LastRequest
<1>24. Select'
  BY <1>2, <1>18 DEF Select
<1>25. QED
  BY <1>11, <1>12, <1>16, <1>20, <1>22, <1>23, <1>24 DEF FormInv
-----------------------------------------------------------------------------
\* The page starts with its load under way.
LEMMA FormInit == ASSUME Form!BoundsAssumption, Form!Init PROVE FormInv
<1>1. /\ form = Form!Blank /\ picker = Form!NoPicker /\ draft = Form!NoDraft
      /\ calls = {Form!LoadCall} /\ stray = {} /\ keys = 0
           /\ submitted = [k \in Form!Keys |-> Form!NoBody]
      /\ saved = [k \in Form!Keys |-> Form!NoBody]
           /\ noted = [k \in Form!Keys |-> Form!NoResult]
      /\ made = [k \in Form!Keys |-> 0] /\ mounts = 0 /\ kind \in Kinds /\ editing \in BOOLEAN
      /\ may = TRUE
  BY DEF Form!Init
<1>2. Form!Blank \in FormRows /\ RowsSound(Form!Blank, Form!NoPicker)
  BY ClearedSound
<1>3. /\ ~Form!Blank.denied /\ ~Form!Blank.failed /\ ~Form!Blank.ready /\ ~Form!Blank.busy
           /\ ~Form!Blank.stale
      /\ ~Form!Blank.unresolved /\ Form!Blank.conflict = Form!NoConflict
           /\ Form!Blank.request = Form!NoRequest
  BY DEF Form!Blank
<1>4. Form!View = "loading"
  BY <1>1, <1>3 DEF Form!View, Form!ViewOf
<1>5. Form!LoadCall.op = "load" /\ CallSound(Form!LoadCall)
        /\ Form!LoadCall.answer = Form!Pending
  BY CallParts DEF Form!LoadCall, CallSound
<1>6. FormServer
  <2>1. PICK t \in Texts, o \in Options :
          record = [i \in {0} \cup Form!Keys |->
                     IF i = 0 /\ editing THEN [version |-> 1, text |-> t, choice |-> o]
                       ELSE Form!NoRecord]
    BY DEF Form!Init
  <2>2. [version |-> 1, text |-> t, choice |-> o] \in RecordRows /\ Form!NoRecord \in RecordRows
    BY BoundsTyped DEF RecordRows, Form!NoRecord
  <2>3. record \in [{0} \cup Form!Keys -> RecordRows] /\ (editing => record[0].text \in Texts)
    BY <2>1, <2>2
  <2>4. /\ option \in [Options -> [version : 0 .. MaxToken, on : BOOLEAN]]
        /\ \A p \in Options : option[p].on => option[p].version # 0
    <3>1. {[version |-> 1, on |-> TRUE], [version |-> 0, on |-> FALSE]}
             \subseteq [version : 0 .. MaxToken, on : BOOLEAN]
      BY BoundsTyped
    <3>2. option \in [Options -> {[version |-> 1, on |-> TRUE], [version |-> 0, on |-> FALSE]}]
      BY DEF Form!Init
    <3>3. \A p \in Options : option[p].on => option[p].version # 0
      BY <3>2
    <3>4. \A p \in Options : option[p] \in [version : 0 .. MaxToken, on : BOOLEAN]
      BY <3>1, <3>2
    <3>5. QED
      BY <3>2, <3>3, <3>4
  <2>5. Form!NoResult \in [id : {0} \cup Form!Keys, version : 0 .. MaxRecordVersion]
    BY BoundsTyped DEF Form!NoResult
  <2>6. /\ saved \in [Form!Keys -> Form!Bodies \cup {Form!NoBody}]
             /\ submitted \in [Form!Keys -> Form!Bodies \cup {Form!NoBody}]
        /\ \A k \in Form!Keys : saved[k] \in {Form!NoBody, submitted[k]}
    BY <1>1
  <2>7. noted \in [Form!Keys -> [id : {0} \cup Form!Keys, version : 0 .. MaxRecordVersion]]
        /\ made \in [Form!Keys -> Options \cup {0}]
    BY <1>1, <2>5
  <2>8. keys \in 0 .. MaxKey
    BY <1>1, BoundsTyped
  <2>9. QED
    BY <1>1, <2>3, <2>4, <2>6, <2>7, <2>8 DEF FormServer
<1>7. SentOnce
  BY <1>1 DEF SentOnce
<1>8. CallsTyped
  BY <1>1, <1>5 DEF CallsTyped
<1>9. FormPage /\ Select
  BY <1>1, <1>2, <1>4 DEF FormPage, RowsSound, Select
<1>10. Flight
  BY <1>1, <1>3, <1>4, <1>5 DEF Flight, Submission
<1>11. LastRequest
  BY <1>1, <1>3 DEF LastRequest, Form!NoRequest
<1>12. QED
  BY <1>6, <1>7, <1>8, <1>9, <1>10, <1>11 DEF FormInv

LEMMA Ending ==
    ASSUME Form!BoundsAssumption, FormInv, NEW c \in calls, NEW a, Fits(c, a), Form!Ends(c, a),
           stray' \subseteq calls \cup stray
    PROVE  FormInv'
    BY LoadEnding, SaveEnding, NoteEnding, ProfileEnding, CheckEnding, SearchEnding,
       QuickEnding DEF Form!Ends

LEMMA ReturnStep == ASSUME Form!BoundsAssumption, FormInv, Form!Return PROVE FormInv'
<1>1. PICK c \in calls : c.answer # Form!Pending /\ Form!Ends(c, c.answer) /\ UNCHANGED stray
  BY DEF Form!Return
<1>2. QED
  BY <1>1, CallOfPage, Ending

LEMMA FailStep == ASSUME Form!BoundsAssumption, FormInv, Form!Fail PROVE FormInv'
<1>1. PICK c \in calls : Form!Ends(c, Form!Answer("failed"))
        /\ stray' \subseteq calls \cup stray
  BY DEF Form!Fail
<1>2. Fits(c, Form!Answer("failed"))
  BY DEF Fits, Form!Answer
<1>3. QED
  BY <1>1, <1>2, Ending

LEMMA FormStutters == ASSUME FormInv, UNCHANGED Form!vars PROVE FormInv'
    BY DEF FormInv, Form!vars, Form!server, Form!page, Form!counts, FormServer, SentOnce,
       CallsTyped, CallSound, Fresh,
           Fits, FormPage, Form!View, Form!ViewOf, Flight, Submission, LastRequest, Select,
           Reasons, Form!Live

LEMMA FormStep == ASSUME Form!BoundsAssumption, FormInv, [Form!Next]_Form!vars PROVE FormInv'
<1>1. CASE Form!Serve \/ Form!RecordChanges \/ Form!OptionChanges \/ Form!AuthorityLost
  BY <1>1, ServeStep, ElsewhereStep
<1>2. CASE Form!Return \/ Form!Fail
  BY <1>2, ReturnStep, FailStep
<1>3. CASE Form!Users
  BY <1>3, WriteStep, WriteNoteStep, ChooseStep, UseCurrentStep, SearchStep, RetryCheckStep,
     QuickCreateStep, SubmitFormStep, ReloadStep, RetryNoteStep, ReloadForNoteStep
     DEF Form!Users
<1>4. CASE UNCHANGED Form!vars
  BY <1>4, FormStutters
<1>5. QED
  BY <1>1, <1>2, <1>3, <1>4 DEF Form!Next

\* The page of a Contact or Lead form and its server keep the invariant above,
\* for any options, texts, searches and numbers of keys, failures and calls.
THEOREM FormInvariant == ASSUME Form!BoundsAssumption PROVE Form!Spec => []FormInv
<1>1. Form!Init => FormInv
  BY FormInit
<1>2. FormInv /\ [Form!Next]_Form!vars => FormInv'
  BY FormStep
<1>3. QED
  BY <1>1, <1>2, PTL DEF Form!Spec

\* The record, the receipts, the page and its select have the values the code
\* gives them (the state of ScreenProfileForm and OptionSelect).
THEOREM FormTypeCorrect == ASSUME Form!BoundsAssumption PROVE Form!Spec => []Form!TypeOK
<1>1. FormInv => Form!TypeOK
  <2> SUFFICES ASSUME FormInv PROVE Form!TypeOK
    OBVIOUS
  <2>1. form.detail \in Form!Details /\ form.request.body \in Form!Bodies \cup {Form!NoBody}
        /\ form.request.key \in {0} \cup Form!Keys
             /\ form.noteRequest.key \in {0} \cup Form!Keys
    BY FormTyped DEF FormRows
  <2>2. picker # Form!NoPicker => /\ picker.items \subseteq Form!Tokens \ {Form!Unchosen}
                            /\ {picker.selected, picker.replacement} \subseteq Form!Tokens
    BY FormTyped DEF RowsSound, PickerRows
  <2>3. form.busy => Form!View \in {"form", "denied"}
    BY FlightParts DEF Form!View, Form!ViewOf
  <2>4. (Form!View = "form") = (picker # Form!NoPicker)
    BY FormTyped
  <2>5. QED
    BY <2>1, <2>2, <2>3, <2>4 DEF Form!TypeOK, FormInv, FormServer, RecordRows
<1>2. QED
  BY <1>1, FormInvariant, PTL

\* A form that is submitted again with nothing changed is saved once, however
\* its first answer was lost, late or overtaken (ScreenProfileForm.submit).
THEOREM FormSavedOnce == ASSUME Form!BoundsAssumption PROVE Form!Spec => []Form!SavedOnce
<1>1. FormInv => Form!SavedOnce
  <2> SUFFICES ASSUME FormInv, NEW j \in Form!Keys, NEW k \in Form!Keys, j < k,
                      saved[j] # Form!NoBody,
                      saved[j] = saved[k]
               PROVE  \E i \in j + 1 .. k - 1 : submitted[i] \notin {Form!NoBody, saved[j]}
    BY DEF Form!SavedOnce
  <2>1. submitted[j] = saved[j] /\ submitted[k] = saved[k]
    BY DEF FormInv, FormServer
  <2>2. QED
    BY <2>1 DEF FormInv, SentOnce
<1>2. QED
  BY <1>1, FormInvariant, PTL

\* While Save waits for an option to be settled there is a way to settle it
\* (OptionSelect.loadSelected and the form's unresolvedOptions).
THEOREM FormSaveCanReturn ==
    ASSUME Form!BoundsAssumption PROVE Form!Spec => []Form!SaveCanReturn
<1>1. FormInv => Form!SaveCanReturn
  BY DEF FormInv, Select, Form!SaveCanReturn, Form!Settling, Reasons
<1>2. QED
  BY <1>1, FormInvariant, PTL

\* A text that a form merely showed never replaces what another user has
\* written since it was loaded (the version of ScreenProfileForm's command).
THEOREM FormNoBlindOverwrite ==
    ASSUME Form!BoundsAssumption PROVE Form!Spec => Form!NoBlindOverwrite
<1> DEFINE Blind == \A k \in Form!Keys :
        saved[k] = Form!NoBody /\ saved'[k] # Form!NoBody /\ record'[0].text # record[0].text
        => \E c \in calls \cup stray :
            /\ c.op = "save" /\ c.args.key = k /\ c.args.typed
<1>1. FormInv /\ [Form!Next]_Form!vars => [Blind]_Form!vars
  <2> SUFFICES ASSUME FormInv, [Form!Next]_Form!vars, NEW k \in Form!Keys,
                      saved[k] = Form!NoBody,
                      saved'[k] # Form!NoBody, record'[0].text # record[0].text
               PROVE  \E c \in calls \cup stray :
                        c.op = "save" /\ c.args.key = k /\ c.args.typed
    OBVIOUS
  <2>1. \A c \in calls : ~Form!Ends(c, c.answer) /\ ~Form!Ends(c, Form!Answer("failed"))
    BY DEF Form!Ends, Form!server
  <2>2. Form!Serve
    BY <2>1 DEF Form!Next, Form!Return, Form!Fail, Form!Users, Form!Write, Form!WriteNote,
       Form!Choose, Form!UseCurrent, Form!Search, Form!RetryCheck,
       Form!QuickCreate, Form!Submit, Form!Reload, Form!RetryNote, Form!ReloadForNote,
       Form!RecordChanges, Form!OptionChanges,
       Form!AuthorityLost, Form!Keeps, Form!Opens, Form!Sends, Form!Elsewhere, Form!server,
       Form!vars
  <2>3. PICK c \in calls \cup stray : Form!ServeSave(c)
    BY <2>2 DEF Form!Serve, Form!ServeRead, Form!ServeNote, Form!ServeQuick, Form!server
  <2> DEFINE body == c.args.body
  <2>4. /\ CallSound(c) /\ c.op = "save" /\ c.args.key \in Form!Keys
        /\ Form!Verdict(c.args.key, body) = "ok"
        /\ saved' = [saved EXCEPT ![c.args.key] = body]
        /\ record' = [record EXCEPT ![Form!Target(c.args.key)] = Form!Stored(c.args.key, body)]
    BY <2>3 DEF Form!ServeSave, FormInv, CallsTyped, CallSound
  <2>5. c.args.key = k
    BY <2>4 DEF FormInv, FormServer
  <2>6. editing
    BY <2>4, BoundsTyped DEF FormInv, FormServer, Form!Target, Form!Keys
  <2>7. body.version = record[0].version
    BY <2>4, <2>6 DEF Form!Verdict, Form!UpToDate, Form!Reconciled, Form!Outcome
  <2>8. record'[0].text = body.text
    BY <2>4, <2>6 DEF FormInv, FormServer, Form!Target, Form!Stored
  <2>9. c.args.typed
    BY <2>4, <2>6, <2>7, <2>8 DEF CallSound, Fresh
  <2>10. QED
    BY <2>4, <2>5, <2>9
<1>2. QED
  BY <1>1, FormInvariant, PTL DEF Form!Spec, Form!NoBlindOverwrite
=============================================================================
