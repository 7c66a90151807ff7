# Verification of nfv1

nfv1 is a multi-tenant CRM: a Next.js application whose server code keeps all
state in PostgreSQL.  Every command is one READ COMMITTED transaction; requests
run in any number of server processes at the same time, and e-mails are sent by
worker processes that read an outbox table.  What is hard here is therefore not
in one function but between transactions: rows read before a lock and used after it,
locks taken in different orders, commands that are repeated because their answer
was lost, workers that die or stall, and pages whose answers come late, out of
order or not at all.  This directory models those parts in TLA+, checks small
instances with TLC and proves properties with TLAPS for every instance.

Paths below are relative to `src/src`, if not stated otherwise.

## Inventory

| Component | State | Operations | What is hard | Correct if |
|---|---|---|---|---|
| Email outbox (`server/email`) | rows of `outbox_messages`; a claim per worker; requests at the provider | enqueue, claim, send, finalize success or failure | two workers, leases that run out, crashes, lost answers of the provider | one lease holder, one mail per message, dead letter exactly at the last attempt, every message settles |
| Identity (`server/identity`, `server/account`, `server/security`) | user, credential, tokens, sessions | login, logout (one, all), verify, resend, request and complete a reset, change the password | passwords checked outside the transaction, overlapping requests for links, row locks in different orders | revoked sessions stay out, links work once, passwords change only with proof |
| Tenant administration (`server/tenant-admin`) | memberships, teams, invitations, receipts | status, role and team changes, ownership transfer, invitation commands, acceptance | last seat, one owner, stale versions, demoted actors, repeats, two lock orders | seat limit, one active owner, nothing lost, nothing applied twice |
| Workspaces and the way in (`server/workspaces`, `server/invitations`, the onboarding pages) | onboarding, workspace, its first membership, session and its active workspace; cookies and tabs of a browser | registration, verification, plan, creation, acceptance, switch | lost answers, tabs that share cookies, intents left by links, several people at one browser | one workspace per account; nobody gets in without an invitation; a lost answer of a switch never locks the user out |
| Backend platform (`backend/platform`) | receipts, audit and event rows | transaction, key lock, receipt, second reading of authority | receipts that expire, authority that changes while a command waits | used by the modules below |
| Leads (`backend/modules/leads`) | lead: lifecycle, version, owner, links | lifecycle, edit, stage | version checks against conversion and review | only allowed transitions; converted is final |
| Conversion (`leads`, `sales`) | deal and its lineage | preview, convert | everything previewed can change before the commit | one deal per converted lead, made of what was previewed |
| Identity review (`identity-review`) | review, recorded candidates, decisions | open, hold, resolve, candidate view | candidates appear and change while a decision waits | decided with every candidate known, by who may see the lead; final |
| Intake (`leads`) | inquiry, lead, review | submit inquiry, create and edit a lead by form | two inquiries or decisions about one person, forms that change a lead under review | one lead per inquiry; lead, review and decision agree; no contact twice |
| Screen forms (`frontend/features/screen-forms`, `screen-forms`) | page with its request, its select and its note | load, search, check, save, quick-create, add a note | answers lost or late, options and records that change | saved once, nothing overwritten blindly, Save comes back |
| Sales deals (`sales`) | deals, their history, the outcome of the lead | create, edit, move, archive, restore | updates whose row count nobody reads, repeats after a right was lost, two lock orders | history and outcome agree with the deal; closed deals stay; live parties |
| Customer graph (`customer-graph`, `companies`, `contacts`) | companies, contacts, points of identity, affiliations, hierarchy | create, edit, archive, restore, affiliate, list and detail | parents set at the same time, pages read in several statements, updates whose row count nobody reads | no circle of parents; rows agree; a page shows one version |
| Administration console (`app/workspace/settings`) | rows and drafts of a page, busy marks, session cookie | role, status, teams, invitations, transfer | late and reordered answers, other administrators, no timeouts | acts on what was shown, says what is true, is not busy for ever |
| Notes, activities, navigation | append-only rows | create, list | little: receipts only | - |
| Rate limiting, catalog, routes, schema | windows, static data | count, read | a refused request counts in all dimensions | - |

Interactions: identity, tenant administration and the intake insert rows into
the outbox inside their own transactions; routes resolve the session and pass a
context to tenant administration and to the CRM commands; tenant administration
changes the memberships that CRM commands read again before they commit; the
customer graph changes the companies and contacts a review and a conversion
depend on; forms make and change leads, contacts and companies; a resolved
review is a precondition of a conversion; a closing deal writes the
outcome of its lead.

`PROJECT.json` lists every component with its status and every hazard found in
the code at its line, with the properties that would catch it.

## Modules

| Module | Role |
|---|---|
| `EmailDelivery` | abstract: what the outbox promises to those who enqueue |
| `EmailOutbox` | rows, workers, provider; implements `EmailDelivery` |
| `EmailOutboxProofs` | theorems about `EmailOutbox` |
| `IdentityCredentials` | one account with its credential, links and sessions |
| `IdentityProofs` | theorems about `IdentityCredentials` |
| `TenantAdmin` | memberships, teams and invitations of one workspace |
| `TenantAdminProofs` | theorems about `TenantAdmin` and, as its instance `Console`, `AdminConsole` |
| `AdminConsole` | the settings pages of one administrator and the routes they call |
| `WorkspaceEntry` | one browser from registration to a workspace |
| `EntryProofs` | theorems about `WorkspaceEntry` |
| `LeadIntake` | leads, contacts and the reviews between them |
| `LeadIntakeProofs` | theorems about `LeadIntake` and, as its instance `Form`, `ScreenForm` |
| `LeadConversion` | one lead with its review, its company and its deals |
| `LeadProofs` | theorems about `LeadConversion` |
| `DealBook` | abstract: what the deals promise to the boards and the leads |
| `SalesDeals` | deals, their stages and the outcome of converted leads; implements `DealBook` |
| `SalesDealsProofs` | theorems about `SalesDeals` |
| `CustomerDirectory` | abstract: what companies and contacts promise to forms and pages |
| `CustomerGraph` | companies, contacts and the pages that show them; implements `CustomerDirectory` |
| `CustomerGraphProofs` | theorems about `CustomerGraph` |
| `ScreenForm` | one Contact or Lead form with its server |
| `MC...` | instances for TLC; symmetry, start states and bounds |

The modules of the server (`TenantAdmin`, `LeadIntake`, `LeadConversion`,
`SalesDeals`, `CustomerGraph`, `IdentityCredentials`) interleave the statements
of transactions; those of the browser (`AdminConsole`, `ScreenForm`,
`WorkspaceEntry`) interleave what a page does with requests that are served in
one step each, since the former show what a step may do.  They meet in the rows:
each gives the steps of the others that matter to it as steps of its environment
(`MembershipChanges`, `CompanyChanges`, `ContactChanges`, `Meanwhile`,
`RecordChanges`).

Each module keeps variants of some definitions ("Variants with a plausible
bug"); each property of a passing run is shown to fail when one definition is
replaced by its variant, so that none of them holds by the shape of the model.

### EmailOutbox

`outbox[m]` is a row: status, attempts, lease, owner, generation, provider key.
`phase[w]` and `claim[w]` say how far a worker is in `processOneOutbox`
(`email/outbox.ts:64-75`).  `SelectCandidate` and `CommitClaim` are the two ends
of the claim transaction (FOR UPDATE SKIP LOCKED); `Send`, `ProviderAccepts`,
`SendSucceeds` and `SendFails` take the request apart from its effect and its
answer, so a timeout may hide a mail that was made.  Both finalizing updates
have the guard status, owner and generation; `FinalizeSuccessThrows` is the
update that fails, or commits without an answer, inside the `try` block and is
followed by `FinalizeFailure`.  Time is abstract: `ExpireLease` and `BecomeDue`.
The provider (external) makes one mail per idempotency key.

### IdentityCredentials

A request goes through `Plan(op)`, the locks of its statements in order.
`Begin` is what is read before the transaction (in `loginPassword` the hash and
the version of the user, in `completePasswordReset` the first look at the
token), `Take` grants a lock and reads the row again, the effect is one step at
the commit.  A multi-row update lists its rows when it starts (`listed`), waits
for them, and misses rows committed since, which is how READ COMMITTED behaves.  `BreakDeadlock` ends one transaction of a
cycle of waits.

### TenantAdmin

Commands arrive on `Connections` under idempotency keys, and may be repeated,
also while a first copy runs.  An administrator's command takes the workspace
row first and everything after it is one step, since all that it reads is
written only under that lock; an acceptance takes the invitation row before
(`TakeInvitation`) and waits for the workspace holding it.  `Admitted` is what
is checked before the receipt is looked up, `Allowed` what is checked after it,
`Commit` writes the receipt.  `Deny` includes the unique index that an expired
receipt still occupies.  The version a command carries is what its sender saw
(`seen`), taken from any earlier state.

### LeadConversion

The commands on one lead take their locks by `Plan` and remember in `seen` what
they read under each.  The actor is read again with the last locks
(`revalidateActiveActor`, `lockReferences`), conversion reads the lead, review
and company, a resolution compares the candidates it finds with those recorded
at intake.  Meanwhile `MembershipChanges` and `CompanyChanges` stand for tenant
administration and the customer graph.  A deal is recorded with what its lineage
row holds.  Abstractions: the contact is reviewed and converted like the
company and is not modelled beside it; team visibility, the inquiry's content
and the pipeline only add reasons to refuse, which `Abandon` covers; the stage
is not part of the state; the locks of the references and of the actor are
taken together, as nothing is read between them; a repeated decision takes the
locks of the companies although it needs none.

### SalesDeals

The commands of `deal.service.ts`, in the form of `LeadConversion`: `Plan` is
the order of the statements that lock, `Reading` what each lock lets the command
see, and the effect is one step at the commit.  `Admitted` is the first,
unlocked look at the actor; `ActorLocks` is `revalidateActiveActor`, which also
takes the workspace, so that no two deal commands commit between one another's
reading and writing.  The updates keep their `where version=...` (`Written`):
a version that no longer matches would lose the row and keep its history, and
the lock on the deal alone prevents it.  A move that is repeated is authorized
again (`MayReplay`), the other commands return what is stored.  `Derived` is
the outcome written to the lead; the unique index on the lineage leaves one
deal per lead, so "any of its deals was won" is the class of that deal.
`DealBook` has neither requests nor locks: a change is made at once, to the deal
as it is, because of a command (`carried`, mapped to `effects`) and with the right
the member of that command has by then (`Client[k]`, not anybody's); the history
of a deal grows with its stage, and the outcome of a converted lead is a function
of its deal.
Abstractions: contacts go the way of the company and teams the way of the
responsible member; stages and pipeline never change, since no code writes them
after provisioning, and are locked only; leads whose status was set by hand
(`status_source='manual'`) are left out, as no code does that.

### CustomerGraph

In the form of `SalesDeals`, for `customer-graph.service.ts`.  An edit that sets
a parent takes the advisory lock of the hierarchy, walks upwards without locks,
locks what it met and compares (`Circular`, `Ancestry`, `Unmoved`).  These locks
and the comparison alone keep two edits from closing a circle, as the proof
shows; the advisory lock spares them the deadlock, or the refusal, in which they
would end otherwise.  `points` and
`affiliated` are the other tables an edit writes.  A page (`List`, `Open`,
`ReadTeams`, `Fence`, `ReadChannels`, `FinishDetail`) is a transaction of several
statements, each with a snapshot of its own, and is refused if the record or the
reader's rights changed before its final fence.  What is read after the fence is
read under no lock, and `PagesAreCurrent` says that it still fits the version
shown or is outdated as a whole.  `CustomerDirectory` has no requests, locks and
walks: a record changes at once, because of a command that was not carried out
before (`done`, mapped to the receipts) and whose own member, `Client[k]`, manages
records at that moment; its addresses and affiliations are functions of it.  The
refinement maps the primary points of a record to its address.

### LeadIntake

`Inquire` is `submitLeadInquiryV1`, `Create` and `Edit` the lead forms of
`screen-forms.owner.ts`, `Hold`, `CreateContact` and `LinkContact` the decisions
of `decideLeadIdentityReviewV1`.  A person is a set of marks (addresses and
numbers), the candidates of a lead are the contacts that share one.  Inquiries
and decisions that create lock the marks (`IdentityLocks`), search, lock what
they found and search again (`Refreshed`, twice); a form searches once, without
these locks, and is therefore not part of what `OffersAllContacts` says.  A lead
of a form has no query, so every decision about it is refused: the finding
below.

### ScreenForm

Every fetch is a call that is served once, at any time, and whose answer arrives
later or is lost (`Serve`, `Return`, `Fail`); a call of a page that was left, or
mounted anew, goes on as `stray`.  What a handler read when it was started (a
closure) travels in its call.  One text stands for the fields of the profile and
one select for all selects.  The request a page keeps (`form.request`, body and
key) is what makes a repeated submission the same (`SameRequest`).

### AdminConsole

The pages of `app/workspace/settings` with the routes they call, for one
administrator; each route is one step (`Serve`), taken apart in `TenantAdmin`.
Answers carry what the route read; a page merges them as the code does
(`Reloaded`, `Merged`).  Every click makes a new key, so only versions protect
it.  Reloads in two halves (`ReadHalf`) are the two requests of the teams page.
`session` and `cookie` are the rotation of the session by a confirmation of
identity and by a transfer.  The others (`OtherMember`, `OtherInvitation`) use the
same routes: they change roles, statuses and teams, that of the administrator at
the page too, and whoever owns the workspace passes it on, to him as well.

### WorkspaceEntry

A jar of cookies (session, intents of a verification and of an invitation, the
way back) is shared by the tabs; a request takes the cookies when it is sent
(`Send`), is served later and its answer sets cookies when it arrives (`Return`)
or is lost (`Lose`).  `ServeCreate` has the receipt, the onboarding row that
only one creation may use (`Eligible`) and the plan; `ServeSwitch` replaces the
session's token and keeps the new one in the receipt under the old hash.
Different people may sit at the same browser (`Visitors`).  The links from mails
are opened in any tab at any time (`OpenVerification`, `OpenInvitation`).

## Runs and bounds

| Run | Question | Instance |
|---|---|---|
| `outbox` | leases, keys, attempts, refinement, settling | 2 workers with one worker id, 2 messages (one unreadable), 3 attempts, 1 crash, 1 stall |
| `identity` | sessions, links, passwords | 2 requests at a time, 2 passwords, 2 links of each purpose, 2 sessions, a current hash |
| `tenant` | owner, seats, repeats, rights | 4 users, 2 teams, 2 invitations, 2 commands of one family (members or invitations), 3 seats of which one is free |
| `lead_conversion` | deals, repeats, previews, authority, candidates | 2 members with a command each, 2 requests, 2 companies with 2 versions in sum, review pending or resolved |
| `sales_deals` | rows of a deal, repeats, parties, authority | 2 members with a command each, 2 requests, a converted deal and one to be made, 2 open stages, won and lost |
| `customer_graph` | hierarchy, rows, pages | 2 managers with a command each, 2 requests and a page, 3 companies and one to be made, a contact and one to be made |
| `lead_intake` | reviews, candidates, decisions | 2 members with a command each, 2 leads under review that share an address, 2 contacts, room for 2 leads and 2 contacts |
| `screen_form` | saves, Save, texts | 2 texts, 2 options, 2 submissions, 2 disturbances (a failure, a changed record or option), one call beside the main one |
| `admin_console` | clicks, notices, busy marks | owner, administrator and a member, 2 teams, 3 invitations, 2 requests at once, 2 or 3 clicks, 1 change by others, 1 lost answer |
| `workspace_entry` | workspaces, memberships, switches | 3 people of whom 2 use the browser, 2 tabs, 3 workspaces, 2 links, 2 invitations, 4 tokens, 5 actions of the visitors, 1 mishap, 4 start states |
| `intake_forms` | finding 1 | the owner fills in a form and decides about its lead |
| `form_company` | finding 2 | `screen_form` with Contact forms only |

Why these are enough to be of use: the races found and excluded are between two
transactions and, at most, one step of the environment between them, and every
run has two concurrent requests and the step of the environment.  In `outbox`
two workers share one id because `email-${process.pid}` coincides between
containers, and three attempts separate the first, a middle and the last one;
the proofs remove these bounds.  In `tenant` there is one seat fewer than users
who want it; a command of the other family changes rows that the first family
reads only through the memberships, which both have.  In `workspace_entry` five
actions reach a switch, a lost answer and its repetition, or a creation in two
tabs, from start states that are themselves reached by such actions.  In
`screen_form` the module MCScreenForm names which disturbances are combined.
`MaxVersions`, `MemberStates`, `MaxCrashes`, `MaxStalls`, `MaxClicks`,
`MaxOthers`, `MaxSteps`, `MaxMishaps`, `Contents`, `Operations` and the sets of
keys, links and sessions are bounds named in the modules; five attempts in the
code are three in the run.

Some properties are conjunctions of what belongs together: `ChangesAreCurrent`,
`ActsAreCurrent` and `DecisionsAreCurrent` say that what a command was given,
who gave it and what it refers to are still so at its commit; `ReviewsMatchLeads`
and `RowsAgree` relate rows of different tables.

Deadlock is checked wherever the system cannot stop.  It is off in `outbox`,
where all messages settle and workers then only poll, and in the modules of the
browser, whose users may stop and whose bounds use their actions up.

## Fairness

`outbox`: weak fairness of each worker's step as a whole and of the clock.  The
loop in `email/worker.ts:23-26` runs until it is stopped, the container has
`restart: unless-stopped`, and leases and delays end by time alone.  Nothing is
assumed of the provider, who may never answer, or of those who enqueue.  Crashes
are finitely many (`MaxCrashes`): a message that always kills its worker is
outside the liveness property, and listed as a hazard.

`admin_console`: weak fairness of serving a request and of returning an answer,
for each of the requests under way.  A server process answers what it has
accepted and the browser delivers what arrives; a request or answer that is lost
is a step of its own (`Lose`), and `BusyEnds` promises nothing after one, because
the pages have neither a timeout nor a catch.  Nothing is assumed of the
administrator.  The state constraint of this run bounds drafts and ticked boxes,
which no request in flight changes.

## Findings

Two runs violate a sentence of the repository's documents or what its tests
expect.

1. `HeldLeadsCanBeDecided` (`intake_forms`): a lead that a form has held for
   review is refused every decision as stale, since its intake has no candidate
   query (`screen-forms.owner.ts:733-752`,
   `resolve-lead-identity-review.orchestrator.ts:91`).
2. `SavedAsChosen` (`form_company`): an existing Contact that is saved with
   another Company keeps its old one (`customer-graph.service.ts:793-952`).

Others were found while the models were written, and are described here instead
of by a run.  The models contain the behaviour; what the modules state holds
with it.

Tenant administration (`server/tenant-admin`):
- An acceptance locks invitation and workspace, administrators' commands on an
  invitation the other way round; PostgreSQL aborts one
  (`invitations.ts:21`, `:4-6`).  `handover/DONOR-FIRST-DATABASE-HANDOVER.md:40`
  speaks of a stable lock order.
- `changeMembership`, `changeTeam`, `assignMembershipTeams` and
  `revokeInvitation` hash the route's context with their input, so a repetition
  after the actor's own row changed is a conflict (`administration.ts:6`).
- A user who accepts twice under two keys is told the role of the membership
  first and of the invitation then (`invitations.ts:24`, `:36`).
- `createInvitation` for an address with a pending invitation answers success
  with the old role and a token that may have lapsed, and mails nothing
  (`invitations.ts:4`).

Identity (`server/identity`, `server/account`):
- Two reset requests that overlap leave two working links (`service.ts:149`).
- A login that renews an outdated hash writes the password it verified over one
  set meanwhile (`service.ts:213`).  `ChangesProveThePassword` therefore has
  `Outdated = FALSE`; with `TRUE` TLC shows the login that undoes a reset.

Leads and intake:
- The candidates of a review are recorded when it is opened and never renewed; a
  changed candidate makes it undecidable (`resolve-...orchestrator.ts:178`).
- A lead of an inquiry has no summary of a screen review and cannot be edited by
  form; `findByLead` takes any one of a lead's reviews
  (`identity-review.repository.ts:370`).
- Keys of form intakes are cut to 128 characters (`screen-forms.owner.ts:738`).

Customer graph:
- The form of a Contact shows the direct phone of its creation after an edit
  that goes through the row (`screen-profile.participant.ts:209`).
- Exchanging primary and secondary address fails on the unique index; a
  suspended responsible member makes the edit form unavailable; the hash of an
  affiliation omits the contact.

Screen forms (`screen-profile-form.tsx`):
- `load` never resets `stale`, so a form that was refused as stale cannot be
  saved after its latest version was loaded (`:533`).
- After a lost answer the notice says that no unconfirmed changes were applied
  (`:581`), although they may have been; a changed draft after the lost answer
  of a creation makes a second record, and a note can be stored twice.
- A Company created from the form leaves the refusal of another unsettled; a
  late check overwrites a newer choice.

Administration console (`admin-client.tsx`):
- `TeamsClient.reload` takes over versions but not teams and says "Latest values
  loaded." (`:1165-1174`), so the next save overwrites others' teams.
- An archived team stays in a person's boxes and every save of members is then
  refused; `mutate` has no catch and a failed fetch leaves the page busy.
- A transfer whose answer was lost is repeated under a new key; the page says
  that no role changes were saved although they were (`:1377`).

The way in:
- The page that waits for a verification takes the continuation only from the
  intent (`verify-email/page.tsx:9`), so a mail sent again from there leads to no
  invitation, although `forms.tsx:119` promises it.
- A creation repeated under another name after a lost answer is a conflict for
  ever; a workspace may be made with a plan chosen in another tab; an acceptance
  uses the invitation in the cookie at that moment and not the one shown.
- Leaving the page of a switch whose answer was lost signs the browser out: the
  token it holds is no longer valid and the key is gone (`left` in
  `SwitchCanBeRepeated`).

## Proofs

Each proof module states an inductive invariant (`IInv`), proves that it holds
at the start and is kept by every step, one lemma per action, and derives the
theorems from it.  None of the properties of the runs is inductive as it stands.
The constants are arbitrary: any number of members, requests, keys, messages or
tabs.  What is assumed of them is the ASSUME of the module, which TLC evaluates
on the instances of the runs.  The only bounds that stay are the constants
that name one, and they are arbitrary too.

| Module | Theorem | Property |
|---|---|---|
| `EmailOutboxProofs` | `TypeCorrect` | `TypeOK` |
| | `LeaseHolderIsUnique` | `OneLeaseHolder` |
| | `AtMostOneMail` | `OneMailPerMessage` |
| | `DeliveredMeansAccepted` | `DeliveredWasAccepted` |
| | `DeadLetterMeansExhausted` | `DeadLetterAtLimit` |
| | `SettledRowsStay` | `AttemptsAndOutcomesStay` |
| | `OutboxImplementsDelivery` | the refinement of `EmailDelivery` |
| `TenantAdminProofs` | `TypeCorrect` | `TypeOK` |
| | `OwnerIsUnique` | `OneActiveOwner` |
| | `SeatsSuffice` | `SeatLimitRespected` |
| | `CommandsApplyOnce` | `AppliedOnce` |
| | `ChangesAreRightful` | `MembershipsChangeByRight` |
| | `ConsoleInvariant` | `ConsoleInv`, what the three below rest on |
| | `ConsoleTypeCorrect` | `TypeOK` of `AdminConsole` |
| | `ConsoleSuccessIsShown` | `SuccessIsShown` of `AdminConsole` |
| | `ConsoleActsOnWhatWasShown` | `ActsOnWhatWasShown` of `AdminConsole` |
| `IdentityProofs` | `TypeCorrect` | `TypeOK` |
| | `EndedSessionsStayOut` | `RevokedSessionsStayOut` |
| | `OneLinkWorks` | `LinksWorkOnce` |
| | `ChangesAreProved` | `ChangesProveThePassword` |
| `LeadProofs` | `TypeCorrect` | `TypeOK` |
| | `ConvertedOnce` | `DealMatchesLead` |
| | `CommitsAreCurrent` | `ChangesAreCurrent` |
| `SalesDealsProofs` | `TypeCorrect` | `TypeOK` |
| | `RowsAlwaysAgree` | `DealRowsAgree` (in the run as part of `BookSpec`) |
| | `ActsStayCurrent` | `ActsAreCurrent` |
| | `DealsKeepTheBook` | the refinement of `DealBook` (`BookSpec`) |
| `CustomerGraphProofs` | `TypeCorrect` | `TypeOK` |
| | `NoCircle` | `NoParentCycle` (in the run as part of `DirectorySpec`) |
| | `RowsAlwaysAgree` | `RowsAgree` |
| | `PagesStayCurrent` | `PagesAreCurrent` |
| | `RecordsKeepTheDirectory` | the refinement of `CustomerDirectory` (`DirectorySpec`) |
| `LeadIntakeProofs` | `TypeCorrect` | `TypeOK` |
| | `ReviewsAlwaysMatch` | `ReviewsMatchLeads` |
| | `DecisionsStayCurrent` | `DecisionsAreCurrent` |
| | `AllContactsOffered` | `OffersAllContacts` |
| | `FormInvariant` | `FormInv`, what the four below rest on |
| | `FormTypeCorrect` | `TypeOK` of `ScreenForm` |
| | `FormSavedOnce` | `SavedOnce` of `ScreenForm` |
| | `FormSaveCanReturn` | `SaveCanReturn` of `ScreenForm` |
| | `FormNoBlindOverwrite` | `NoBlindOverwrite` of `ScreenForm` |
| `EntryProofs` | `OneEach` | `OneCompanyWorkspace` |
| | `OwnInvitations` | `JoinedByInvitation` |
| | `TypeCorrect` | `TypeOK` |
| | `SwitchesCanBeRepeated` | `SwitchCanBeRepeated` |

**Outbox.** The argument is in generations: a claim in hand never has a later
generation than its row, two claims on a row never have the same one, and a
claim being made holds the row's lock, so that its generation is exactly one
more.  That makes the guard of the finalizing updates true for at most one
worker, although the worker ids may coincide (`LeaseHolderIsUnique`).  The keys
need one fact more: a key, in a row, a claim or a request, is the id of its own
message; so equal messages mean equal keys, and the provider's rule gives one
mail.  That a worker at `succeeding` has an accepted request is what
`DeliveredMeansAccepted` adds, and that the attempts in a claim that still holds
its lease are those of the row what `DeadLetterMeansExhausted` adds.  The
refinement follows from the invariants, step by step: a step of the outbox is a
step of `EmailDelivery` on the mapped state, or leaves it unchanged.
`DeliveredMeansAccepted`, `DeadLetterMeansExhausted` and `SettledRowsStay` are
proved and not checked in a run beside it.

**Tenant administration.** A receipt, live or expired, is kept for exactly the
commands that took effect (`ReceiptsTell`); this is what stops a repetition,
after an expiry by the unique index.  Every token there is was mailed, and an
acceptance that holds its invitation row holds the row of the token it was sent
with (`HeldRowsMatch`), because a new token needs the row; so what was checked
before the workspace was locked still holds after.  Assumed is that the users are
finitely many, as cardinalities need, and that the workspace starts with one
owner and within its seats.

**Credentials.** `Footing` says, for a request that got so far in its plan, what
it read and is still so: it holds the lock, each commit that would change the
row holds it too, and locks have one holder.  A session that is ended stays out
since its version is below the user's or its row is revoked, and neither is ever
undone; a link takes effect once because it is consumed under its lock.
`ChangesAreProved` is proved for `Outdated = FALSE`, the value in the run, since
a login that renews an outdated hash breaks it (see Findings).  Assumed is that the locks of
different rows have different names.

**Leads.** Three locks carry everything: the lead's, the review's and the
workspace's (`Knows`).  A decided review is never pending again, so a deal comes
after the last change of the lead's company (`ReviewedFirst`); and what took
effect shows in the version of the lead, or for a review on hold of the review,
so that a repetition finds another version than it was made for (`EffectsTell`).
Receipts are not needed for that, which is why their expiry does no harm.

**Deals.** `Knows` again, here with the lock of the key, of the deal and of the
workspace.  `DealRowsAgree` needs that a move finds the row at the version it
asks for: the update repeats the version in its WHERE, the insertion into the
history does not, and only the lock on the deal keeps the two together.  A
creation has no version to fail on, so it takes effect once only as long as its
receipt is there (`EffectsTell`).  With that, every commit is a step of `DealBook`: what it
has seen is what the tables hold, its actor included, who is the member that sent
the command (`Owned`), so its guard is the guard of the book, the
entry it writes names the stage and the version that were there, and the outcome
is the class of the stage; all other steps leave the book alone.  A run of
`DealBook` has `DealRowsAgree` by its steps, so the run of `SalesDeals` checks
the refinement alone.  Assumed are the rows the instance starts with:
deals that are there have a stage and a version, and a history of one entry.

**Customer graph.** An edit that sets a parent has locked its company and
everything it met above the parent, and has compared the parents it read before
with the rows it locked (`Knows`).  So at its commit the companies it met are
closed upwards and do not contain its own: whatever happens elsewhere, the new
link leads into a set that does not lead back, and no circle is closed
(`NoNewCycle`).  That a company is on a circle is said without recursion, by the
least set closed upwards (`Above`), since the provers cannot unfold a recursive
walk.  Every update finds the version it asks for, as the record was locked
before it was read, which is what keeps points and affiliations in agreement with
their record.  A version only rises; hence a page whose version is still that of
the row shows the row of now, also where it was read after the fence.  What a
command has found of its actor, of the responsible member and of the company it
links to is still so at its commit, as it holds their locks, and its key has no
receipt, as it holds the lock of the key (`Vouches`).  The actor is the member who
sent the command (`Owned`), so a member who was demoted or suspended while the
command waited changes nothing.  Together
with the above every commit is a step of `CustomerDirectory`.  There a new link
leads into a set closed upwards and without the company, so the run that checks
the refinement need not check `NoParentCycle` beside it.  Assumed
is `StartAssumption`: the records at the start are rows of their kind, refer to
companies that are there and have no circle.

**Lead intake.** What a command knows depends on how far it is (`Knows`): the key
is unused, and lead, review, member, company and contact are as it read them,
because it holds their locks and so would whoever changes them.  No lock covers
the rows a search does *not* find; there the locks on the marks help.  Only decisions make contacts, each holds the locks of
all its marks, so while a command holds the lock of a mark nobody else makes a
contact with it, and the result of its second search stays complete (`HasMarks`).
A decision locks and searches by the query of the lead but copies the marks of
the lead: that the two are the same needs that an edit by form never touches a
lead that has a query (`Summarized`).  Assumed is that the
operations of a key are operations, and that the two markers `None` and
`Earlier` are nobody's identity.

**Form.** `SavedOnce` rests on the key a form keeps.  Only a body that differs
from the one last submitted draws a new key (`LastRequest`: the kept request is
the last key drawn and the body it was drawn for), so between two keys drawn for
the same body another body was sent (`SentOnce`), and the service saves under a
key what was sent under it or nothing.  The kept request is lost only with access
and with the result of a save, from where no form is submitted again.
`NoBlindOverwrite` rests on versions: a text that was read stays the text of its
version (`Fresh`), in an answer, in the form and in a call alike, also in a call
of a page that was left; so a save that is accepted at its version and was not
typed writes what is there.  For `SaveCanReturn` the invariant names the reason
Save waits (`Reasons`): a check of the page that is mounted, an error that can be
retried or a replacement that is offered.  A check
may still fail for a select that is no longer there: nothing is aborted, but the
state its handler sets is that of its own, unmounted select, so it marks the one
that is there now neither as failed nor as settled (`Live`).
That a form is busy with one submission at most and loads once at a time
(`Flight`) is what keeps these facts from one answer to the next.  Assumed is
`BoundsAssumption`: options are numbered from 1, no text of the instance is the
mark for "no text", and the bounds are numbers.

**Console.** The pages know nothing but versions.  A row that still has the
version it was shown with is the row that was shown (`Shown`, `ShownLetter`); no
step of the workspace, by whomever, takes that back (`Onward`), because each
change of a row raises its version.
The invariant says it of every copy: in the lists, in the dialog that asks for
confirmation, in a request and in the body of an answer, which may arrive after
others that were asked for later.  The route compares versions, so what it
changes is what was shown (`ActsOnWhatWasShown`).  An answer of success tells only
what stays so until a row gets another version (`Tells`): a version that was
passed, an invitation that was pending (`Invited`), a membership that got the
workspace (`Owns`).  More cannot be said: the new owner may pass the workspace on
or back, and others revoke the invitation, while the page still says what it said
at the answer; but both raise the version, so a membership or an invitation that
has the version of the answer is as the answer told.  For an invitation the page
keeps nothing of the answer but its success; `letter` in a draft is an auxiliary
field that keeps the rest for `SuccessIsShown`.  A notice
that a row was saved is shown with the reload that follows it, whose rows are read
after the change and hence beyond the version the change was made from
(`SuccessIsShown`).  Assumed is `ConsoleAssumption`: rows at the start are rows,
and the workspace starts with one owner at most, which is `OwnerIsUnique`, proved of
`TenantAdmin` in the same module.

**Entry.** Who owns a workspace rests on the rows: an account that owns none has
no receipt of a creation, one that is not registered owns none.  Who joined
rests on the browser too: whatever is stored, sent and answered, the intent
among the cookies of a request is an invitation there is, and the route compares
its address with the person of the session.  That a switch can be repeated rests
on the tokens (`Handed`): a new token goes to one tab, in the answer or by the
receipt whose key that tab keeps, no other tab has this key (`KeysOnce`), and
until the browser stores the token no cookie and no request carries it
(`TokensOnce`), so that no login and no switch, which end the token they come
with, can end this one first.  When an answer arrives at last, its page fits the
request that asked for it (`Typed`), since a tab that goes elsewhere drops what
it waited for; so the page that stores the token is the one that has the key.
Assumed is that the rows at the start are such rows, that there is somebody, and
that who is signed in at the start is one of them (`EntryAssumption`).

Two modules hold the proofs of two components each, the server's part and the
page that sends its commands; the second is an instance with variables of its
own, and no fact of the one is used for the other.

Only model-checked are the two liveness properties, `EveryMessageSettles` and
`BusyEnds`: fairness and ENABLED are out of the prover's reach.  The two findings
are shown by TLC's counterexamples.  Every other property of the runs is a
theorem.

## Not modelled

See `PROJECT.json` for each component and its reason.  In short: sign-in with an
OIDC provider, expiry of sessions, workspace name and role policies, team names,
the lists, boards and details of leads and deals, the Company form and paging of
options, activities, navigation, rate limits, audit and event rows, migrations,
deployment, the marketing pages and the shared components.

## Plan

Done: `EmailDelivery`, `EmailOutbox`, `IdentityCredentials`, `TenantAdmin`,
`LeadConversion`, `DealBook`, `SalesDeals`, `CustomerDirectory`, `CustomerGraph`,
`LeadIntake`, `WorkspaceEntry`, `ScreenForm` and `AdminConsole`, with proofs.

Next, in this order:

1. A composition of `LeadConversion` and `SalesDeals` through the lineage: the
   outcome of a lead from its intake to the end of its deal, as `DealBook` has it
   from the conversion on.
2. That every command ends, with fair row locks and PostgreSQL's deadlock
   detection, on any of the server's modules.
