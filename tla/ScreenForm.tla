----------------------------- MODULE ScreenForm -----------------------------
(***************************************************************************)
(* The page of a Contact or Lead form (frontend/features/screen-forms) and *)
(* what the server answers it: loading, saving, searching and checking the *)
(* options of a select, creating a Company from the form, and adding an    *)
(* internal note after a Contact is saved.                                 *)
(*                                                                         *)
(* Every request of the page is a call that is served once and whose       *)
(* answer arrives later; an answer may be lost, and a request may reach    *)
(* the server after the page has given it up.  Other users change the      *)
(* record and the options meanwhile.  What a handler of the page read when *)
(* it was started (a React closure) travels in its call.                   *)
(*                                                                         *)
(* One text stands for the fields of the profile, one select for all of    *)
(* them: the Company of a Contact or of a new Lead, the stage of a Lead    *)
(* that is edited.  A token <<option, version>> names an option as it was  *)
(* seen.  Wording, focus and layout are left out.                          *)
(***************************************************************************)
EXTENDS Naturals, FiniteSets

CONSTANTS
    Kinds,        \* the forms the behaviours use: "contact", "lead"
    Texts,        \* profiles that can be written
    Options,      \* 1..n: the options of the select, in the order of their labels
    Changing,     \* those that other users change
    Queries,      \* searches: each is the set of options it matches
    MaxKey,       \* bounds: keys of saves, of notes and of quick-created Companies,
    MaxVersion,   \* versions of a record and of an option,
    MaxToken,
    MaxCalls,     \* calls the page has open when the user starts one that is not a save,
    MaxFailures,  \* calls that fail
    MaxMount      \* and times the form is shown

ASSUME BoundsAssumption ==
    /\ Kinds \subseteq {"contact", "lead"}
    /\ Options \subseteq Nat \ {0} /\ Changing \subseteq Options
    /\ Queries \subseteq SUBSET Options /\ Options \in Queries
    /\ "none" \notin Texts
    /\ {MaxKey, MaxCalls, MaxFailures, MaxMount} \subseteq Nat
    /\ {MaxVersion, MaxToken} \subseteq Nat \ {0}

VARIABLES
    kind, editing,  \* the properties of the page's component
    may,      \* the actor is still an owner or administrator
    record,   \* record[i]: 0 is the record that is edited, k the one saved under k
    option,   \* option[o]: its version and whether it can be chosen
    saved, noted, made, \* receipts of saves, notes and quick-created Companies
    form,     \* state of ScreenProfileForm
    picker,   \* state of the OptionSelect the form shows
    draft,    \* what the inputs of the form hold
    calls,    \* requests the page waits for
    stray,    \* requests it has given up that may still reach the server
    keys,     \* keys drawn
    sent,     \* history: the body each key was drawn for, NoBody for other keys
    failures, mounts

server == <<may, record, option, saved, noted, made>>
page == <<form, picker, draft>>
counts == <<keys, sent, failures, mounts>>
vars == <<kind, editing, server, page, calls, stray, counts>>

Keys == 1 .. MaxKey
Unchosen == <<0, 0>>
Tokens == (Options \X (1 .. MaxToken)) \cup {Unchosen}
Bodies == [version : 0 .. MaxVersion, text : Texts, choice : Tokens]
NoBody == [version |-> 0, text |-> "none", choice |-> Unchosen]
NoRequest == [body |-> NoBody, key |-> 0]
NoConflict == [outcome |-> "none", token |-> Unchosen]
NoResult == [id |-> 0, version |-> 0]
NoNote == [version |-> 0, key |-> 0]
Details == [version : 0 .. MaxVersion, text : Texts \cup {"none"}, choice : Tokens]
NoDetail == [version |-> 0, text |-> "none", choice |-> Unchosen]
NoRecord == [version |-> 0, text |-> "none", choice |-> 0]
NoDraft == [text |-> "none", typed |-> FALSE]
NoPicker == [mount |-> 0]

Blank == [denied |-> FALSE, failed |-> FALSE, ready |-> FALSE, detail |-> NoDetail,
          busy |-> FALSE, stale |-> FALSE, conflict |-> NoConflict,
          unresolved |-> FALSE, result |-> NoResult, request |-> NoRequest,
          written |-> FALSE, noteFailed |-> FALSE, refetch |-> FALSE,
          noteVersion |-> 0, noteRequest |-> NoNote]

Pending == [code |-> "pending"]
Answer(code) == [code |-> code]
Call(op, args) == [op |-> op, args |-> args, answer |-> Pending]

\* load: the record or the capabilities of the form are fetched.
LoadCall == Call("load", <<>>)

Init ==
    /\ kind \in Kinds /\ editing \in BOOLEAN
    /\ may = TRUE
    /\ option \in [Options -> {[version |-> 1, on |-> TRUE], [version |-> 0, on |-> FALSE]}]
    /\ \E t \in Texts, o \in Options :
        /\ editing => option[o].on
        /\ record = [i \in {0} \cup Keys |->
                       IF i = 0 /\ editing
                       THEN [version |-> 1, text |-> t, choice |-> o] ELSE NoRecord]
    /\ saved = [k \in Keys |-> NoBody]
    /\ noted = [k \in Keys |-> NoResult]
    /\ made = [k \in Keys |-> 0]
    /\ form = Blank /\ picker = NoPicker /\ draft = NoDraft
    /\ calls = {LoadCall} /\ stray = {}
    /\ keys = 0 /\ sent = [k \in Keys |-> NoBody] /\ failures = 0 /\ mounts = 0
-----------------------------------------------------------------------------
(* Variants with a plausible bug, for mutation checks. *)
NeverReused(body) == FALSE

AnyVersion(body) == TRUE

FailedQuietly(f, p) == /\ form' = f
                       /\ picker' = [p EXCEPT !.loading = FALSE]

SelectStays(f) == form' = f /\ UNCHANGED picker /\ draft' = NoDraft
-----------------------------------------------------------------------------
(* What the server answers. *)
Token(o) == IF o = 0 THEN Unchosen ELSE <<o, option[o].version>>
Chosen(t) == t[1]
On(o) == o # 0 /\ option[o].on
Current(t) == t = Unchosen \/ (On(Chosen(t)) /\ Token(Chosen(t)) = t)

\* The select's value in the protected profile; a Contact's Company is left
\* out once it is archived, a Lead without an active stage has no profile.
Presented(i) == IF On(record[i].choice) THEN Token(record[i].choice) ELSE Unchosen
Detail(i) == [version |-> record[i].version, text |-> record[i].text,
              choice |-> Presented(i)]
HasProfile(i) == may /\ (kind = "lead" => On(record[i].choice))
ProfileOf(i) == IF HasProfile(i) THEN [code |-> "ok", detail |-> Detail(i)]
                ELSE Answer("denied")

Loaded == IF editing THEN ProfileOf(0)
          ELSE IF may THEN [code |-> "ok", detail |-> NoDetail] ELSE Answer("denied")

\* A page of the options a search finds after a cursor; one option per page.
Found(query, after) == {o \in query : On(o) /\ o > after}
First(s) == CHOOSE o \in s : \A p \in s : o <= p
Searched(query, after) ==
    LET found == Found(query, after) IN
    IF ~may THEN Answer("denied")
    ELSE IF found = {} THEN [code |-> "ok", items |-> {}, cursor |-> 0]
    ELSE [code |-> "ok", items |-> {Token(First(found))},
          cursor |-> IF Cardinality(found) > 1 THEN First(found) ELSE 0]

Outcome(t) == IF ~On(Chosen(t)) THEN "unavailable"
              ELSE IF Token(Chosen(t)) = t THEN "unchanged" ELSE "changed"
Checked(t) == IF may THEN [code |-> Outcome(t), current |-> Token(Chosen(t))]
              ELSE Answer("denied")

\* A save: the receipt of its key, then the version, then the option.  A
\* Lead's form is told which option to reconcile; a new Contact's is refused
\* as a record that does not exist, and the edit of a Contact leaves its
\* affiliation alone, whatever Company the command names.
Target(k) == IF editing THEN 0 ELSE k
UpToDate(body) == editing => record[0].version = body.version
Reconciled(t) == IF kind = "lead" THEN Outcome(t)
                 ELSE IF editing \/ Current(t) THEN "unchanged" ELSE "denied"
Verdict(k, body) == IF ~may THEN "denied"
                    ELSE IF saved[k] # NoBody THEN "replayed"
                    ELSE IF ~UpToDate(body) THEN "stale"
                    ELSE IF Reconciled(body.choice) = "unchanged" THEN "ok"
                    ELSE Reconciled(body.choice)
Stored(k, body) ==
    [version |-> IF editing THEN record[0].version + 1 ELSE 1, text |-> body.text,
     choice |-> IF editing /\ kind = "contact" THEN record[0].choice
                ELSE Chosen(body.choice)]
Result(k, body) == [id |-> Target(k), version |-> IF editing THEN body.version + 1 ELSE 1]

\* An internal note: a repeated one is answered from its receipt only while
\* the Contact still has the version the note names.
NoteVerdict(id, version, k) == IF ~may THEN "denied"
                               ELSE IF record[id].version # version THEN "stale"
                               ELSE IF noted[k] # NoResult THEN "replayed" ELSE "ok"

\* Quick create takes an option that does not exist yet.
Unmade == {o \in Options : option[o].version = 0}
-----------------------------------------------------------------------------
Answered(c, a) == /\ \/ c \in calls /\ UNCHANGED stray
                        /\ calls' = (calls \ {c}) \cup {[c EXCEPT !.answer = a]}
                     \/ c \in stray /\ stray' = stray \ {c} /\ UNCHANGED calls
                  /\ UNCHANGED <<kind, editing, page, counts>>

ServeRead(c) ==
    /\ \/ c.op = "load" /\ Answered(c, Loaded)
       \/ c.op = "profile" /\ Answered(c, ProfileOf(c.args.id))
       \/ c.op = "check" /\ Answered(c, Checked(c.args.token))
       \/ c.op = "search" /\ Answered(c, Searched(c.args.query, c.args.after))
    /\ UNCHANGED server

ServeSave(c) ==
    LET k == c.args.key  body == c.args.body  verdict == Verdict(k, body) IN
    /\ c.op = "save"
    /\ verdict = "ok" => record[0].version < MaxVersion
    /\ Answered(c, IF verdict \in {"ok", "replayed"}
                   THEN [code |-> "ok", result |-> Result(k, body)] ELSE Answer(verdict))
    /\ IF verdict = "ok"
       THEN /\ record' = [record EXCEPT ![Target(k)] = Stored(k, body)]
            /\ saved' = [saved EXCEPT ![k] = body]
       ELSE UNCHANGED <<record, saved>>
    /\ UNCHANGED <<may, option, noted, made>>

ServeNote(c) ==
    LET id == c.args.id  k == c.args.key
        verdict == NoteVerdict(id, c.args.version, k) IN
    /\ c.op = "note"
    /\ Answered(c, Answer(IF verdict = "replayed" THEN "ok" ELSE verdict))
    /\ noted' = IF verdict = "ok"
                THEN [noted EXCEPT ![k] = [id |-> id, version |-> c.args.version]] ELSE noted
    /\ UNCHANGED <<may, record, option, saved, made>>

ServeQuick(c) ==
    LET k == c.args.key IN
    /\ c.op = "quick"
    /\ \/ ~may /\ Answered(c, Answer("denied")) /\ UNCHANGED <<option, made>>
       \/ /\ may /\ made[k] # 0
          /\ Answered(c, [code |-> "ok", token |-> <<made[k], 1>>])
          /\ UNCHANGED <<option, made>>
       \/ /\ may /\ made[k] = 0
          /\ \E o \in Unmade :
                /\ option' = [option EXCEPT ![o] = [version |-> 1, on |-> TRUE]]
                /\ made' = [made EXCEPT ![k] = o]
                /\ Answered(c, [code |-> "ok", token |-> <<o, 1>>])
    /\ UNCHANGED <<may, record, saved, noted>>

Serve == \E c \in calls \cup stray :
            /\ c.answer = Pending
            /\ ServeRead(c) \/ ServeSave(c) \/ ServeNote(c) \/ ServeQuick(c)
-----------------------------------------------------------------------------
(* The page. *)
ViewOf(f) == IF f.denied THEN "denied" ELSE IF f.failed THEN "error"
             ELSE IF ~f.ready THEN "loading"
             ELSE IF f.result # NoResult THEN "result" ELSE "form"
View == ViewOf(form)

\* clearProtectedState, whoever calls it.
Cleared == [Blank EXCEPT !.denied = TRUE]

\* The form is replaced by another view: its inputs and its select are gone.
Leave(f) == form' = f /\ picker' = NoPicker /\ draft' = NoDraft

\* The page's answer to f, if it no longer shows the form.
Becomes(f) == IF ViewOf(f) = "form" THEN form' = f /\ UNCHANGED <<picker, draft>>
              ELSE Leave(f)

CheckCall(t, m) == Call("check", [token |-> t, mount |-> m])
SearchCall(q, after, t, m) ==
    Call("search", [query |-> q, after |-> after, selected |-> t, mount |-> m])

\* loadSelected: the select's token is checked; Save waits for the answer.
Checking(f) == [f EXCEPT !.unresolved = TRUE]
Rechecked(p) == [p EXCEPT !.failed = FALSE, !.loading = TRUE]

\* The form is shown: its select searches, and checks a Lead's value.
Mount(f) ==
    LET m == mounts + 1  t == f.detail.choice  checks == kind = "lead" /\ t # Unchosen IN
    /\ mounts < MaxMount
    /\ mounts' = m
    /\ form' = IF checks THEN Checking(f) ELSE f
    /\ picker' = [mount |-> m, items |-> {t} \ {Unchosen}, selected |-> t,
                  replacement |-> Unchosen, failed |-> FALSE, loading |-> TRUE,
                  cursor |-> 0, quick |-> 0, quickBusy |-> FALSE]
    /\ \E text \in IF editing THEN {f.detail.text} ELSE Texts :
            draft' = [text |-> text, typed |-> ~editing]

Live(c) == picker # NoPicker /\ picker.mount = c.args.mount

\* Calls that a handler starts when it handles an answer.
MountCalls(f) == {SearchCall(Options, 0, f.detail.choice, mounts + 1)}
    \cup (IF kind = "lead" /\ f.detail.choice # Unchosen
          THEN {CheckCall(f.detail.choice, mounts + 1)} ELSE {})

LoadEnds(a) ==
    LET f == [form EXCEPT !.ready = TRUE, !.detail = a.detail] IN
    \/ a.code = "denied" /\ Leave(Cleared) /\ UNCHANGED mounts
    \/ a.code = "failed" /\ Leave([form EXCEPT !.failed = TRUE]) /\ UNCHANGED mounts
    \/ /\ a.code = "ok"
       /\ IF ViewOf(f) = "form" THEN Mount(f) ELSE Leave(f) /\ UNCHANGED mounts

\* The note a save is followed by; its request keeps its key while the
\* Contact's version it names is the same.
NoteKey(version) == IF form.noteRequest.version = version
                    THEN form.noteRequest.key ELSE keys + 1
NoteCall(id, version, first, n) ==
    Call("note", [id |-> id, version |-> version, key |-> NoteKey(version),
                  first |-> first, nr |-> n])
NoteSent(f, version) ==
    [f EXCEPT !.noteRequest = [version |-> version, key |-> NoteKey(version)]]
NoteDrawn(version) == keys' = IF NoteKey(version) > keys THEN keys + 1 ELSE keys

SaveEnds(c, a) ==
    LET idle == [form EXCEPT !.busy = FALSE] IN
    \/ a.code = "failed" /\ form' = idle /\ UNCHANGED <<picker, draft, keys>>
    \/ a.code = "denied" /\ Leave(Cleared) /\ UNCHANGED keys
    \/ /\ a.code = "stale"
       /\ form' = [idle EXCEPT !.stale = TRUE] /\ UNCHANGED <<picker, draft, keys>>
    \/ /\ a.code \in {"changed", "unavailable"} /\ UNCHANGED <<draft, keys>>
       /\ LET f == [idle EXCEPT !.conflict = [outcome |-> a.code,
                                              token |-> c.args.body.choice]] IN
          IF picker = NoPicker THEN form' = f /\ UNCHANGED picker
          ELSE IF a.code = "changed"
          THEN form' = Checking(f) /\ picker' = Rechecked(picker)
          ELSE /\ form' = [f EXCEPT !.unresolved = FALSE]
               /\ picker' = [picker EXCEPT !.selected = Unchosen, !.replacement = Unchosen]
    \/ /\ a.code = "ok"
       /\ IF c.args.note
          THEN /\ keys < MaxKey /\ NoteDrawn(a.result.version)
               /\ form' = NoteSent([form EXCEPT !.request = NoRequest], a.result.version)
               /\ UNCHANGED <<picker, draft>>
          ELSE /\ Leave([idle EXCEPT !.request = NoRequest, !.result = a.result])
               /\ UNCHANGED keys

SaveCalls(c, a) ==
    IF a.code = "changed" /\ picker # NoPicker
    THEN {CheckCall(c.args.body.choice, picker.mount)}
    ELSE IF a.code = "ok" /\ c.args.note
    THEN {NoteCall(a.result.id, a.result.version, TRUE, 1)} ELSE {}

\* The save that a note follows ends with the note: its result is shown.
AfterNote(c, f) ==
    IF c.args.first
    THEN Leave([f EXCEPT !.busy = FALSE,
                         !.result = [id |-> c.args.id, version |-> c.args.version]])
    ELSE Becomes(f)
NoteEnds(c, a) ==
    \/ a.code = "denied" /\ Leave(Cleared)
    \/ a.code = "failed" /\ AfterNote(c, [form EXCEPT !.noteFailed = TRUE])
    \/ a.code = "stale" /\ AfterNote(c, [form EXCEPT !.noteFailed = TRUE, !.refetch = TRUE])
    \/ /\ a.code = "ok"
       /\ AfterNote(c, [form EXCEPT !.written = FALSE, !.noteFailed = FALSE, !.refetch = FALSE])

\* refetchContactForNote: the note will be sent for the version it finds.
ProfileEnds(a) ==
    \/ a.code = "denied" /\ Leave(Cleared)
    \/ a.code = "failed" /\ Becomes([form EXCEPT !.noteFailed = TRUE])
    \/ /\ a.code = "ok"
       /\ Becomes([form EXCEPT !.noteVersion = a.detail.version, !.refetch = FALSE,
                               !.noteRequest = NoNote])

\* Answers of the select's requests.  The form's callbacks run whether or
\* not the select that asked is still shown.
CheckFailed(f, p) == /\ form' = f
                     /\ picker' = [p EXCEPT !.failed = TRUE, !.loading = FALSE]
Replaced(p, now) == [p EXCEPT !.items = @ \cup {now}, !.replacement = now,
                              !.loading = FALSE]
CheckEnds(c, a) ==
    LET resolved == [form EXCEPT !.unresolved = FALSE]
        shown(p) == IF Live(c) THEN p ELSE picker IN
    \/ a.code = "denied" /\ Leave(Cleared)
    \/ /\ a.code = "failed" /\ UNCHANGED draft
       /\ IF Live(c) THEN CheckFailed(form, picker) ELSE UNCHANGED <<form, picker>>
    \/ /\ a.code = "unavailable" /\ form' = resolved /\ UNCHANGED draft
       /\ picker' = shown([picker EXCEPT !.selected = Unchosen,
                                         !.replacement = Unchosen, !.loading = FALSE])
    \/ /\ a.code = "unchanged" /\ UNCHANGED draft
       /\ form' = [resolved EXCEPT !.conflict = NoConflict]
       /\ picker' = shown([picker EXCEPT !.items = @ \cup {a.current},
                            !.selected = a.current, !.replacement = Unchosen,
                            !.loading = FALSE])
    \/ /\ a.code = "changed" /\ UNCHANGED <<form, draft>>
       /\ picker' = shown(Replaced(picker, a.current))

SearchEnds(c, a) ==
    LET kept == IF c.args.after # 0 THEN picker.items
                ELSE picker.items \cap {c.args.selected}
    IN \/ a.code = "denied" /\ Leave(Cleared)
       \/ /\ a.code # "denied" /\ UNCHANGED <<form, draft>>
          /\ picker' = IF ~Live(c) THEN picker
                       ELSE IF a.code = "failed" THEN [picker EXCEPT !.loading = FALSE]
                       ELSE [picker EXCEPT !.items = kept \cup a.items,
                                           !.cursor = a.cursor, !.loading = FALSE]

QuickEnds(c, a) ==
    \/ a.code = "denied" /\ Leave(Cleared)
    \/ /\ a.code # "denied" /\ UNCHANGED <<form, draft>>
       /\ picker' = IF ~Live(c) THEN picker
                    ELSE IF a.code = "failed" THEN [picker EXCEPT !.quickBusy = FALSE]
                    ELSE [picker EXCEPT !.items = {a.token}, !.selected = a.token,
                                        !.quick = 0, !.quickBusy = FALSE]

\* A call ends with the server's answer, or as a call that failed.
Ends(c, a) ==
    /\ \/ c.op = "load" /\ LoadEnds(a) /\ UNCHANGED keys
       \/ c.op = "save" /\ SaveEnds(c, a) /\ UNCHANGED mounts
       \/ /\ UNCHANGED <<keys, mounts>>
          /\ \/ c.op = "note" /\ NoteEnds(c, a)
             \/ c.op = "profile" /\ ProfileEnds(a)
             \/ c.op = "check" /\ CheckEnds(c, a)
             \/ c.op = "search" /\ SearchEnds(c, a)
             \/ c.op = "quick" /\ QuickEnds(c, a)
    /\ calls' = (calls \ {c})
            \cup (IF c.op = "load" /\ mounts' # mounts
                  THEN MountCalls([form EXCEPT !.detail = a.detail])
                  ELSE IF c.op = "save" THEN SaveCalls(c, a) ELSE {})
    /\ UNCHANGED <<kind, editing, server, sent>>

Return == \E c \in calls : /\ c.answer # Pending /\ Ends(c, c.answer)
                           /\ UNCHANGED <<stray, failures>>

\* The connection breaks before or after the server has worked on it.
Fail == \E c \in calls :
            /\ failures < MaxFailures /\ failures' = failures + 1
            /\ Ends(c, Answer("failed"))
            /\ \/ c.answer = Pending /\ c.op \in {"save", "note", "quick"}
                  /\ stray' = stray \cup {c}
               \/ UNCHANGED stray
-----------------------------------------------------------------------------
(* The user. *)
Sends(c) == /\ calls' = calls \cup {c}
            /\ UNCHANGED <<kind, editing, server, stray, failures, mounts>>
Opens(c) == Cardinality(calls) < MaxCalls /\ Sends(c)

Keeps == UNCHANGED <<kind, editing, server, calls, stray, counts>>

Write == \E t \in Texts : /\ View = "form" /\ draft' = [text |-> t, typed |-> TRUE]
                          /\ UNCHANGED <<form, picker>> /\ Keeps

WriteNote == /\ View = "form" /\ kind = "contact"
             /\ form' = [form EXCEPT !.written = TRUE]
             /\ UNCHANGED <<picker, draft>> /\ Keeps

Settled(t) == [form EXCEPT !.unresolved = FALSE,
                           !.conflict = IF t = Unchosen THEN @ ELSE NoConflict]

Choose == /\ View = "form"
          /\ \E t \in (picker.items \cup {Unchosen}) \ {picker.selected} :
                /\ form' = Settled(t)
                /\ picker' = [picker EXCEPT !.selected = t, !.replacement = Unchosen]
          /\ UNCHANGED draft /\ Keeps

UseCurrent == /\ View = "form" /\ picker.replacement # Unchosen
              /\ form' = Settled(picker.replacement)
              /\ picker' = [picker EXCEPT !.selected = picker.replacement,
                                          !.replacement = Unchosen]
              /\ UNCHANGED draft /\ Keeps

\* Search, Refresh companies or Load more; quick create is not shown meanwhile.
Search ==
    /\ View = "form" /\ ~picker.loading
    /\ picker' = [picker EXCEPT !.loading = TRUE, !.quick = 0, !.quickBusy = FALSE]
    /\ \E q \in Queries, after \in {0, picker.cursor} :
            Opens(SearchCall(q, after, picker.selected, picker.mount))
    /\ UNCHANGED <<form, draft, keys, sent>>

RetryCheck ==
    LET t == IF form.conflict # NoConflict THEN form.conflict.token
             ELSE form.detail.choice IN
    /\ View = "form" /\ picker.failed /\ ~picker.loading /\ t # Unchosen
    /\ form' = Checking(form) /\ picker' = Rechecked(picker)
    /\ Opens(CheckCall(t, picker.mount))
    /\ UNCHANGED <<draft, keys, sent>>

QuickCreate ==
    LET k == IF picker.quick # 0 THEN picker.quick ELSE keys + 1 IN
    /\ View = "form" /\ kind = "lead" /\ ~editing
    /\ picker.items = {} /\ ~picker.loading /\ ~picker.quickBusy
    /\ k <= MaxKey /\ keys' = IF k > keys THEN k ELSE keys
    /\ picker' = [picker EXCEPT !.quick = k, !.quickBusy = TRUE]
    /\ Opens(Call("quick", [key |-> k, mount |-> picker.mount]))
    /\ UNCHANGED <<form, draft, sent>>

\* A token that is no longer among the items is not submitted.
Command == [version |-> form.detail.version, text |-> draft.text,
            choice |-> IF picker.selected \in picker.items
                       THEN picker.selected ELSE Unchosen]
MaySave == ~form.busy /\ ~form.stale /\ form.conflict = NoConflict /\ ~form.unresolved
SameRequest(body) == form.request.body = body

Submit ==
    LET body == Command
        k == IF SameRequest(body) THEN form.request.key ELSE keys + 1 IN
    /\ View = "form" /\ MaySave
    /\ kind = "lead" => body.choice # Unchosen
    /\ k <= MaxKey /\ keys' = IF k > keys THEN k ELSE keys
    /\ sent' = [sent EXCEPT ![k] = body]
    /\ form' = [form EXCEPT !.busy = TRUE, !.request = [body |-> body, key |-> k]]
    /\ Sends(Call("save", [key |-> k, body |-> body, note |-> form.written,
                           typed |-> draft.typed]))
    /\ UNCHANGED <<picker, draft>>

\* Reload latest, or Try again after a load that failed.
Reload == /\ View = "error" \/ (View = "form" /\ form.stale)
          /\ Leave([form EXCEPT !.ready = FALSE, !.denied = FALSE, !.failed = FALSE,
                                !.detail = NoDetail])
          /\ Opens(LoadCall) /\ UNCHANGED <<keys, sent>>

\* Retry internal note, which does not wait for an earlier retry.
RetryNote ==
    LET version == IF form.noteVersion # 0 THEN form.noteVersion ELSE form.result.version
        again == Cardinality({c \in calls : c.op = "note"}) IN
    /\ View = "result" /\ form.noteFailed /\ ~form.refetch /\ form.written
    /\ NoteKey(version) <= MaxKey /\ NoteDrawn(version)
    /\ form' = NoteSent(form, version)
    /\ Opens(NoteCall(form.result.id, version, FALSE, again + 1))
    /\ UNCHANGED <<picker, draft, sent>>

ReloadForNote == /\ View = "result" /\ form.noteFailed /\ form.refetch
                 /\ Opens(Call("profile", [id |-> form.result.id]))
                 /\ UNCHANGED <<page, keys, sent>>
-----------------------------------------------------------------------------
(* Other users. *)
Elsewhere == UNCHANGED <<kind, editing, saved, noted, made, page, calls, stray, counts>>

RecordChanges == \E i \in {0} \cup Keys, t \in Texts :
    /\ record[i].version \in 1 .. MaxVersion - 1
    /\ record' = [record EXCEPT ![i].version = @ + 1, ![i].text = t]
    /\ UNCHANGED <<may, option>> /\ Elsewhere

OptionChanges == \E o \in Changing, on \in BOOLEAN :
    /\ On(o) /\ option[o].version < MaxToken
    /\ option' = [option EXCEPT ![o] = [version |-> @.version + 1, on |-> on]]
    /\ UNCHANGED <<may, record>> /\ Elsewhere

AuthorityLost == /\ may /\ may' = FALSE
                 /\ UNCHANGED <<record, option>> /\ Elsewhere

Users == \/ Write \/ WriteNote \/ Choose \/ UseCurrent \/ Search \/ RetryCheck
         \/ QuickCreate \/ Submit \/ Reload \/ RetryNote \/ ReloadForNote
Next == Serve \/ Return \/ Fail \/ Users \/ RecordChanges \/ OptionChanges \/ AuthorityLost
Spec == Init /\ [][Next]_vars
-----------------------------------------------------------------------------
TypeOK ==
    /\ kind \in Kinds /\ editing \in BOOLEAN /\ may \in BOOLEAN
    /\ record \in [{0} \cup Keys -> [version : 0 .. MaxVersion,
                     text : Texts \cup {"none"}, choice : Options \cup {0}]]
    /\ option \in [Options -> [version : 0 .. MaxToken, on : BOOLEAN]]
    /\ saved \in [Keys -> Bodies \cup {NoBody}] /\ sent \in [Keys -> Bodies \cup {NoBody}]
    /\ noted \in [Keys -> [id : {0} \cup Keys, version : 0 .. MaxVersion]]
    /\ made \in [Keys -> Options \cup {0}]
    /\ form.detail \in Details \cup {NoDetail}
    /\ form.request.body \in Bodies \cup {NoBody} /\ form.request.key \in {0} \cup Keys
    /\ form.noteRequest.key \in {0} \cup Keys
    /\ (View = "form") = (picker # NoPicker)
    /\ picker # NoPicker => /\ picker.items \subseteq Tokens \ {Unchosen}
                            /\ {picker.selected, picker.replacement} \subseteq Tokens
    /\ form.busy => View \in {"form", "denied"}
    /\ keys \in 0 .. MaxKey

\* A form that is submitted again with nothing changed is saved once, however
\* its first answer was lost or late: between two saves of the same body
\* another one was submitted (the request kept in ScreenProfileForm.submit).
SavedOnce ==
    \A j, k \in Keys : j < k /\ saved[j] # NoBody /\ saved[j] = saved[k]
        => \E i \in j + 1 .. k - 1 : sent[i] \notin {NoBody, saved[j]}

\* An edit changes the text of a record only if its user typed one: a text
\* that a form merely showed never replaces what another user has written
\* since it was loaded (the version of ScreenProfileForm's command).
NoBlindOverwrite ==
    [][\A k \in Keys :
        saved[k] = NoBody /\ saved'[k] # NoBody /\ record'[0].text # record[0].text
        => \E c \in calls \cup stray :
            /\ c.op = "save" /\ c.args.key = k /\ c.args.typed]_vars

\* While Save waits for an option to be settled, its check is running, can be
\* retried or offers its replacement, or the select no longer holds the
\* option, so that choosing one settles it (OptionSelect.loadSelected and the
\* form's unresolvedOptions and selectionConflict).  A Company that was created
\* from the form is selected without settling the refusal of another.
Settling == \/ \E c \in calls : c.op = "check"
            \/ picker.failed \/ picker.replacement # Unchosen
            \/ picker.selected = Unchosen
SaveCanReturn ==
    View = "form" =>
        /\ form.unresolved => Settling
        /\ kind = "lead" /\ form.conflict # NoConflict
            => Settling \/ \E k \in Keys : made[k] = Chosen(picker.selected)

\* A record that was saved has the option its form was saved with.
SavedAsChosen ==
    [][\A k \in Keys : saved[k] = NoBody /\ saved'[k] # NoBody
        => record'[Target(k)].choice = Chosen(saved'[k].choice)]_vars
=============================================================================
