----------------------------- MODULE EmailOutbox -----------------------------
(***************************************************************************)
(* The email outbox and its workers (src/src/server/email).  Messages are  *)
(* rows of outbox_messages; any number of worker processes claim a row     *)
(* with FOR UPDATE SKIP LOCKED, hold a 30 s lease on it while they call    *)
(* the provider, and finalize it with an UPDATE guarded by the claim's     *)
(* owner and lease generation.                                             *)
(*                                                                         *)
(* Time is abstract: "due" says available_at <= now(), and a lease is      *)
(* live or expired.  An expiry under a worker that still holds the claim   *)
(* is a stall of that worker.  The order of the candidates (available_at,  *)
(* created_at) is left open: SKIP LOCKED may skip any of them.             *)
(***************************************************************************)
EXTENDS Naturals, FiniteSets

CONSTANTS
    Messages,      \* ids of rows whose topic is one of the three email topics
    Workers,       \* worker processes
    OwnerOf,       \* OwnerOf[w]: the worker id `email-${process.pid}`
    Unreadable,    \* messages whose envelope this deployment cannot decrypt
    MaxAttempts,   \* failed attempts after which a message is a dead letter
    MaxCrashes,    \* bound: crashes of worker processes in a behaviour
    MaxStalls      \* bound: leases that expire under a live worker

ASSUME OutboxAssumption ==
    /\ MaxAttempts \in Nat \ {0}
    /\ MaxCrashes \in Nat
    /\ MaxStalls \in Nat
    /\ Unreadable \subseteq Messages
    /\ "none" \notin Messages
    /\ \A w \in Workers : OwnerOf[w] # "none"

VARIABLES
    outbox,     \* outbox[m]: the row of message m
    phase,      \* phase[w]: how far worker w is in processOneOutbox
    claim,      \* claim[w]: the OutboxClaim w works on
    inFlight,   \* requests sent to the provider
    accepted,   \* requests the provider made a mail of
    crashes, stalls

vars == <<outbox, phase, claim, inFlight, accepted, crashes, stalls>>

Owners == {OwnerOf[w] : w \in Workers}

\* A provider key is the id of a row; a row that was never claimed has none.
NoKey == "none"
NoClaim == [message |-> "none"]
Requests == [message : Messages, key : Messages]

Statuses == {"absent", "pending", "processing", "retry", "delivered",
             "dead_letter"}

Rows == [status : Statuses,
         attempts : 0..MaxAttempts,
         due : BOOLEAN,
         lease : {"none", "live", "expired"},
         owner : Owners \cup {"none"},
         generation : Nat,
         key : Messages \cup {NoKey}]

Claims == [message : Messages, attempts : 0..MaxAttempts, owner : Owners,
           generation : Nat, key : Messages]

\* Working: inside processOneOutbox with a claim in hand.
Working == {"claiming", "claimed", "sending", "succeeding", "failing"}
Phases == Working \cup {"idle", "down"}

Init == /\ outbox = [m \in Messages |->
                       [status |-> "absent", attempts |-> 0, due |-> FALSE,
                        lease |-> "none", owner |-> "none", generation |-> 0,
                        key |-> NoKey]]
        /\ phase = [w \in Workers |-> "idle"]
        /\ claim = [w \in Workers |-> NoClaim]
        /\ inFlight = {} /\ accepted = {}
        /\ crashes = 0 /\ stalls = 0
-----------------------------------------------------------------------------
(* Variants with a plausible bug, for mutation checks. *)
RowLockIgnored(m) == FALSE

RetryOnly(m) == /\ outbox[m].due
                /\ outbox[m].status \in {"pending", "retry"}

KeyRotatesOnReclaim(m) == IF outbox[m].key = NoKey THEN m
                          ELSE CHOOSE k \in Messages : k # outbox[m].key

HoldsLeaseByGeneration(c) == outbox[c.message].generation = c.generation

FailedStatusLate(attempts) ==
    IF attempts > MaxAttempts THEN "dead_letter" ELSE "retry"

-----------------------------------------------------------------------------
\* The row lock a claim transaction holds from its SELECT to its commit.
RowLocked(m) == \E w \in Workers : /\ phase[w] = "claiming"
                                   /\ claim[w].message = m

Claimable(m) == /\ outbox[m].due
                /\ \/ /\ outbox[m].status \in {"pending", "retry"}
                      /\ outbox[m].lease # "live"
                   \/ /\ outbox[m].status = "processing"
                      /\ outbox[m].lease = "expired"

\* provider_idempotency_key = coalesce(provider_idempotency_key, id)
ClaimKey(m) == IF outbox[m].key = NoKey THEN m ELSE outbox[m].key

\* The guard of both finalizing UPDATEs.
HoldsLease(c) == /\ outbox[c.message].status = "processing"
                 /\ outbox[c.message].owner = c.owner
                 /\ outbox[c.message].generation = c.generation

\* Where the failure that makes the count `attempts` leads.
FailedStatus(attempts) ==
    IF attempts >= MaxAttempts THEN "dead_letter" ELSE "retry"

\* Both finalizing UPDATEs set the status and give the lease back.
Released(row, status) ==
    [row EXCEPT !.status = status, !.lease = "none", !.owner = "none"]

MarkDelivered(c) ==
    outbox' = [outbox EXCEPT ![c.message] = Released(@, "delivered")]

\* attempts comes from the claim, not from the row; available_at is now + 1 s.
MarkFailed(c) ==
    outbox' = [outbox EXCEPT ![c.message] =
                 [Released(@, FailedStatus(c.attempts + 1)) EXCEPT
                    !.attempts = c.attempts + 1, !.due = FALSE]]

\* An UPDATE that finds the guard false matches no row and changes nothing.
IfLeased(c, Mark(_)) == \/ HoldsLease(c) /\ Mark(c)
                        \/ ~HoldsLease(c) /\ UNCHANGED outbox

GoTo(w, p) == phase' = [phase EXCEPT ![w] = p]

Finish(w) == GoTo(w, "idle") /\ claim' = [claim EXCEPT ![w] = NoClaim]
-----------------------------------------------------------------------------
\* A transaction of another component commits a row for an email.
Enqueue(m) ==
    /\ outbox[m].status = "absent"
    /\ outbox' = [outbox EXCEPT ![m].status = "pending", ![m].due = TRUE]
    /\ UNCHANGED <<phase, claim, inFlight, accepted, crashes, stalls>>

\* claimOutbox: the candidate's row is locked, its new values computed.
SelectCandidate(w, m) ==
    /\ phase[w] = "idle"
    /\ Claimable(m)
    /\ ~RowLocked(m)
    /\ GoTo(w, "claiming")
    /\ claim' = [claim EXCEPT ![w] =
                   [message |-> m, attempts |-> outbox[m].attempts,
                    owner |-> OwnerOf[w],
                    generation |-> outbox[m].generation + 1,
                    key |-> ClaimKey(m)]]
    /\ UNCHANGED <<outbox, inFlight, accepted, crashes, stalls>>

\* claimOutbox: the update commits and the row lock is gone.
CommitClaim(w) ==
    /\ phase[w] = "claiming"
    /\ GoTo(w, "claimed")
    /\ LET c == claim[w] IN
         outbox' = [outbox EXCEPT ![c.message] =
                      [@ EXCEPT !.status = "processing", !.lease = "live",
                                !.owner = c.owner, !.key = c.key,
                                !.generation = c.generation]]
    /\ UNCHANGED <<claim, inFlight, accepted, crashes, stalls>>

\* processOneOutbox: decryptEnvelope throws.
ReadEnvelopeFails(w) ==
    /\ phase[w] = "claimed"
    /\ claim[w].message \in Unreadable
    /\ GoTo(w, "failing")
    /\ UNCHANGED <<outbox, claim, inFlight, accepted, crashes, stalls>>

\* processOneOutbox: the request leaves for the provider.
Send(w) ==
    /\ phase[w] = "claimed"
    /\ claim[w].message \notin Unreadable
    /\ GoTo(w, "sending")
    /\ inFlight' = inFlight \cup {[message |-> claim[w].message,
                                   key |-> claim[w].key]}
    /\ UNCHANGED <<outbox, claim, accepted, crashes, stalls>>

\* The provider makes a mail of a request, once per idempotency key; it may do
\* so long after the worker's 10 s timeout, or after the worker is gone.
ProviderAccepts(r) ==
    /\ r \in inFlight \ accepted
    /\ \A other \in accepted : other.key # r.key
    /\ accepted' = accepted \cup {r}
    /\ UNCHANGED <<outbox, phase, claim, inFlight, crashes, stalls>>

\* The provider answers with a message id: the key names an accepted request.
SendSucceeds(w) ==
    /\ phase[w] = "sending"
    /\ \E r \in accepted : r.key = claim[w].key
    /\ GoTo(w, "succeeding")
    /\ UNCHANGED <<outbox, claim, inFlight, accepted, crashes, stalls>>

\* Timeout, network error, refusal or an answer without an id: send throws.
SendFails(w) ==
    /\ phase[w] = "sending"
    /\ GoTo(w, "failing")
    /\ UNCHANGED <<outbox, claim, inFlight, accepted, crashes, stalls>>

FinalizeSuccess(w) ==
    /\ phase[w] = "succeeding"
    /\ ~RowLocked(claim[w].message)
    /\ IfLeased(claim[w], MarkDelivered)
    /\ Finish(w)
    /\ UNCHANGED <<inFlight, accepted, crashes, stalls>>

\* The query throws after a send that succeeded; its update may be committed.
FinalizeSuccessThrows(w) ==
    /\ phase[w] = "succeeding"
    /\ ~RowLocked(claim[w].message)
    /\ IfLeased(claim[w], MarkDelivered) \/ UNCHANGED outbox
    /\ GoTo(w, "failing")
    /\ UNCHANGED <<claim, inFlight, accepted, crashes, stalls>>

FinalizeFailure(w) ==
    /\ phase[w] = "failing"
    /\ ~RowLocked(claim[w].message)
    /\ IfLeased(claim[w], MarkFailed)
    /\ Finish(w)
    /\ UNCHANGED <<inFlight, accepted, crashes, stalls>>

\* The process dies, or a database error escapes from claimOutbox or from
\* finalizeOutboxFailure and ends it; an open claim transaction rolls back.
Crash(w) ==
    /\ phase[w] # "down"
    /\ crashes < MaxCrashes
    /\ crashes' = crashes + 1
    /\ GoTo(w, "down")
    /\ claim' = [claim EXCEPT ![w] = NoClaim]
    /\ UNCHANGED <<outbox, inFlight, accepted, stalls>>

\* The container is restarted (restart: unless-stopped).
Restart(w) ==
    /\ phase[w] = "down"
    /\ GoTo(w, "idle")
    /\ UNCHANGED <<outbox, claim, inFlight, accepted, crashes, stalls>>

Abandoned(m) ==
    \A w \in Workers : phase[w] \in Working /\ claim[w].message = m
                         => claim[w].generation # outbox[m].generation

\* lease_until passes: the holder is gone, or it stalls past its lease.
ExpireLease(m) ==
    /\ outbox[m].lease = "live"
    /\ \/ Abandoned(m) /\ UNCHANGED stalls
       \/ ~Abandoned(m) /\ stalls < MaxStalls /\ stalls' = stalls + 1
    /\ outbox' = [outbox EXCEPT ![m].lease = "expired"]
    /\ UNCHANGED <<phase, claim, inFlight, accepted, crashes>>

\* available_at passes.
BecomeDue(m) ==
    /\ outbox[m].status = "retry"
    /\ ~outbox[m].due
    /\ outbox' = [outbox EXCEPT ![m].due = TRUE]
    /\ UNCHANGED <<phase, claim, inFlight, accepted, crashes, stalls>>

WorkerStep(w) ==
    \/ \E m \in Messages : SelectCandidate(w, m)
    \/ CommitClaim(w)
    \/ ReadEnvelopeFails(w) \/ Send(w)
    \/ SendSucceeds(w) \/ SendFails(w)
    \/ FinalizeSuccess(w) \/ FinalizeSuccessThrows(w) \/ FinalizeFailure(w)
    \/ Restart(w)

Clock(m) == ExpireLease(m) \/ BecomeDue(m)

Next == \/ \E w \in Workers : WorkerStep(w) \/ Crash(w)
        \/ \E m \in Messages : Enqueue(m) \/ Clock(m)
        \/ \E r \in Requests : ProviderAccepts(r)

Spec == Init /\ [][Next]_vars

\* Workers loop until they are stopped and are restarted when they exit; time
\* passes.  Nothing is assumed of the provider or of who enqueues.
Fairness == /\ \A w \in Workers : WF_vars(WorkerStep(w))
            /\ \A m \in Messages : WF_vars(Clock(m))

FairSpec == Spec /\ Fairness
-----------------------------------------------------------------------------
TypeOK == /\ outbox \in [Messages -> Rows]
          /\ phase \in [Workers -> Phases]
          /\ claim \in [Workers -> Claims \cup {NoClaim}]
          /\ \A w \in Workers :
               IF phase[w] \in Working THEN claim[w] \in Claims
                                       ELSE claim[w] = NoClaim
          /\ inFlight \subseteq Requests
          /\ accepted \subseteq inFlight
          /\ crashes \in 0..MaxCrashes
          /\ stalls \in 0..MaxStalls

\* However often leases expire under stalled workers with equal worker ids,
\* at most one worker passes the guard of the finalizing updates for a row.
OneLeaseHolder ==
    \A v, w \in Workers :
        /\ phase[v] \in Working \ {"claiming"}
        /\ phase[w] \in Working \ {"claiming"}
        /\ claim[v].message = claim[w].message
        /\ HoldsLease(claim[v])
        /\ HoldsLease(claim[w])
        => v = w

\* A message that is retried, reclaimed after a crash, or sent by two workers
\* at once becomes at most one mail, and never under another message's key.
OneMailPerMessage ==
    \A r, s \in accepted : r.message = s.message \/ r.key = s.key => r = s

\* A row says "delivered" only if the provider made a mail of it.
DeliveredWasAccepted ==
    \A m \in Messages : outbox[m].status = "delivered"
                          => \E r \in accepted : r.message = m

\* The workers give a message up exactly at its last failed attempt.
DeadLetterAtLimit ==
    \A m \in Messages : outbox[m].status = "dead_letter"
                          <=> outbox[m].attempts = MaxAttempts

\* A stale finalizer never takes an attempt back or overwrites another
\* worker's outcome: attempts grow one by one, and a settled row stays as it is.
RowStep(m) ==
    /\ outbox'[m].attempts \in {outbox[m].attempts, outbox[m].attempts + 1}
    /\ outbox[m].status \in {"delivered", "dead_letter"}
         => outbox'[m] = outbox[m]

AttemptsAndOutcomesStay == [][\A m \in Messages : RowStep(m)]_vars

\* The outbox implements the delivery service its clients rely on.
Fate(m) == IF outbox[m].status \in {"pending", "processing", "retry"}
           THEN "queued" ELSE outbox[m].status
Mailed(m) == Cardinality({r \in accepted : r.message = m})

Delivery == INSTANCE EmailDelivery WITH fate <- [m \in Messages |-> Fate(m)],
                                        mailed <- [m \in Messages |-> Mailed(m)]
DeliverySpec == Delivery!Spec

\* Every message that was enqueued is delivered or given up in the end, also
\* when workers crash with a lease in hand.
EveryMessageSettles ==
    \A m \in Messages : outbox[m].status # "absent"
        ~> outbox[m].status \in {"delivered", "dead_letter"}
=============================================================================
