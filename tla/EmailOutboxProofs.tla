-------------------------- MODULE EmailOutboxProofs --------------------------
(***************************************************************************)
(* Proofs about EmailOutbox, for any messages, workers, worker ids and     *)
(* limits.                                                                 *)
(*                                                                         *)
(* The inductive invariant says what a claim in hand still knows about its *)
(* row.  A claim being made is ahead of its row by one generation and      *)
(* alone, because of the row lock; an older claim is never ahead; claims   *)
(* on one row differ in generation; so a claim that passes the guard of    *)
(* the finalizing updates is the last one made and knows the attempts.     *)
(***************************************************************************)
EXTENDS EmailOutbox, FiniteSetTheorems, TLAPS

ClaimHeld(w) == phase[w] \in Working \ {"claiming"}

KeysNameRows ==
    /\ \A m \in Messages : outbox[m].key \in {NoKey, m}
    /\ \A w \in Workers : phase[w] \in Working => claim[w].key = claim[w].message
    /\ \A r \in inFlight : r.key = r.message

OnlyQueuedRowsAreWorked ==
    /\ \A w \in Workers : phase[w] \in Working
                            => outbox[claim[w].message].status # "absent"
    /\ \A r \in inFlight : outbox[r.message].status # "absent"

SuccessWasAccepted ==
    \A w \in Workers : phase[w] = "succeeding"
                         => \E r \in accepted : r.message = claim[w].message

LeasedRowsAreProcessing ==
    \A m \in Messages : outbox[m].lease # "none" => outbox[m].status = "processing"

\* What the row lock gives a claim transaction.
OpenClaimIsAlone ==
    \A w \in Workers : phase[w] = "claiming" =>
        /\ outbox[claim[w].message].status \in {"pending", "retry", "processing"}
        /\ claim[w].generation = outbox[claim[w].message].generation + 1
        /\ claim[w].attempts = outbox[claim[w].message].attempts
        /\ \A v \in Workers : /\ phase[v] = "claiming"
                              /\ claim[v].message = claim[w].message
                              => v = w

HeldClaimsAreOld ==
    \A w \in Workers : ClaimHeld(w) =>
        /\ claim[w].generation <= outbox[claim[w].message].generation
        /\ HoldsLease(claim[w])
             => claim[w].attempts = outbox[claim[w].message].attempts

HeldClaimsDiffer ==
    \A v, w \in Workers :
        /\ ClaimHeld(v) /\ ClaimHeld(w)
        /\ claim[v].message = claim[w].message
        /\ claim[v].generation = claim[w].generation
        => v = w

IInv == /\ TypeOK
        /\ KeysNameRows
        /\ OnlyQueuedRowsAreWorked
        /\ SuccessWasAccepted
        /\ DeliveredWasAccepted
        /\ DeadLetterAtLimit
        /\ LeasedRowsAreProcessing
        /\ OpenClaimIsAlone
        /\ HeldClaimsAreOld
        /\ HeldClaimsDiffer
-----------------------------------------------------------------------------
LEMMA ReleasedRow ==
    ASSUME NEW row \in Rows, NEW s \in Statuses
    PROVE  /\ Released(row, s) \in Rows
           /\ Released(row, s).status = s
           /\ Released(row, s).generation = row.generation
           /\ Released(row, s).key = row.key
           /\ Released(row, s).attempts = row.attempts
           /\ Released(row, s).lease = "none"
  BY DEF Rows, Released, Statuses

LEMMA RetriedRow ==
    ASSUME NEW row \in Rows, NEW k \in 0..MaxAttempts
    PROVE  LET r == [row EXCEPT !.attempts = k, !.due = FALSE]
           IN  /\ r \in Rows
               /\ r.status = row.status
               /\ r.generation = row.generation
               /\ r.key = row.key
               /\ r.attempts = k
               /\ r.lease = row.lease
  BY DEF Rows

LEMMA AttemptsBelowLimit ==
    ASSUME NEW row \in Rows, row.attempts # MaxAttempts
    PROVE  row.attempts + 1 \in 0..MaxAttempts
<1>1. row.attempts \in 0..MaxAttempts
  BY DEF Rows
<1> QED BY <1>1, OutboxAssumption

\* What the UPDATE of finalizeOutboxSuccess may do to the rows.
LEMMA DeliveredRow ==
    ASSUME TypeOK, NEW w \in Workers, phase[w] \in Working,
           IfLeased(claim[w], MarkDelivered)
    PROVE  /\ outbox' \in [Messages -> Rows]
           /\ \A n \in Messages :
                /\ outbox'[n].generation = outbox[n].generation
                /\ outbox'[n].key = outbox[n].key
                /\ outbox'[n].attempts = outbox[n].attempts
                /\ \/ outbox'[n] = outbox[n]
                   \/ /\ n = claim[w].message
                      /\ HoldsLease(claim[w])
                      /\ outbox'[n].status = "delivered"
                      /\ outbox'[n].lease = "none"
<1>1. claim[w] \in Claims
  BY DEF TypeOK
<1>2. CASE HoldsLease(claim[w]) /\ MarkDelivered(claim[w])
  <2> DEFINE m == claim[w].message
             row == Released(outbox[m], "delivered")
  <2>1. m \in Messages /\ outbox \in [Messages -> Rows]
    BY <1>1 DEF Claims, TypeOK
  <2>2. row \in Rows /\ row.generation = outbox[m].generation
        /\ row.key = outbox[m].key /\ row.attempts = outbox[m].attempts
        /\ row.status = "delivered" /\ row.lease = "none"
    <3>1. "delivered" \in Statuses
      BY DEF Statuses
    <3> QED BY <2>1, <3>1, ReleasedRow
  <2>3. outbox' = [outbox EXCEPT ![m] = row]
    BY <1>2 DEF MarkDelivered
  <2> QED BY <1>2, <2>1, <2>2, <2>3
<1>3. CASE ~HoldsLease(claim[w]) /\ UNCHANGED outbox
  BY <1>3 DEF TypeOK
<1> QED BY <1>2, <1>3 DEF IfLeased

\* What the UPDATE of finalizeOutboxFailure may do to the rows.
LEMMA FailedRow ==
    ASSUME TypeOK, DeadLetterAtLimit, HeldClaimsAreOld,
           NEW w \in Workers, phase[w] = "failing",
           IfLeased(claim[w], MarkFailed)
    PROVE  /\ outbox' \in [Messages -> Rows]
           /\ \A n \in Messages :
                /\ outbox'[n].generation = outbox[n].generation
                /\ outbox'[n].key = outbox[n].key
                /\ \/ outbox'[n] = outbox[n]
                   \/ /\ n = claim[w].message
                      /\ HoldsLease(claim[w])
                      /\ outbox'[n].lease = "none"
                      /\ outbox'[n].attempts = outbox[n].attempts + 1
                      /\ outbox'[n].status = FailedStatus(outbox'[n].attempts)
<1>1. claim[w] \in Claims
  BY DEF TypeOK, Working
<1>2. CASE HoldsLease(claim[w]) /\ MarkFailed(claim[w])
  <2> DEFINE m == claim[w].message
             k == claim[w].attempts + 1
             row == [Released(outbox[m], FailedStatus(k)) EXCEPT
                       !.attempts = k, !.due = FALSE]
  <2>1. m \in Messages /\ outbox \in [Messages -> Rows]
    BY <1>1 DEF Claims, TypeOK
  <2>2. claim[w].attempts = outbox[m].attempts
    BY <1>2 DEF HeldClaimsAreOld, ClaimHeld, Working
  <2>3. outbox[m].attempts # MaxAttempts
    BY <1>2, <2>1 DEF DeadLetterAtLimit, HoldsLease
  <2>4. k \in 0..MaxAttempts
    BY <2>1, <2>2, <2>3, AttemptsBelowLimit
  <2>5. FailedStatus(k) \in Statuses
    BY DEF FailedStatus, Statuses
  <2>6. row \in Rows /\ row.generation = outbox[m].generation
        /\ row.key = outbox[m].key /\ row.attempts = k
        /\ row.status = FailedStatus(k) /\ row.lease = "none"
    <3> DEFINE freed == Released(outbox[m], FailedStatus(k))
    <3>1. /\ freed \in Rows
          /\ freed.generation = outbox[m].generation
          /\ freed.key = outbox[m].key
          /\ freed.status = FailedStatus(k) /\ freed.lease = "none"
      BY <2>1, <2>5, ReleasedRow
    <3> HIDE DEF freed, k
    <3>2. /\ [freed EXCEPT !.attempts = k, !.due = FALSE] \in Rows
          /\ [freed EXCEPT !.attempts = k, !.due = FALSE].status = freed.status
          /\ [freed EXCEPT !.attempts = k, !.due = FALSE].generation = freed.generation
          /\ [freed EXCEPT !.attempts = k, !.due = FALSE].key = freed.key
          /\ [freed EXCEPT !.attempts = k, !.due = FALSE].attempts = k
          /\ [freed EXCEPT !.attempts = k, !.due = FALSE].lease = freed.lease
      BY <2>4, <3>1, RetriedRow
    <3> QED BY <3>1, <3>2 DEF freed
  <2>7. outbox' = [outbox EXCEPT ![m] = row]
    BY <1>2 DEF MarkFailed
  <2> QED BY <1>2, <2>1, <2>2, <2>6, <2>7
<1>3. CASE ~HoldsLease(claim[w]) /\ UNCHANGED outbox
  BY <1>3 DEF TypeOK
<1> QED BY <1>2, <1>3 DEF IfLeased

-----------------------------------------------------------------------------
\* The rows, claims and provider of a freshly migrated database satisfy the
\* inductive invariant.
THEOREM InitIInv == Init => IInv
<1> SUFFICES ASSUME Init PROVE IInv
  OBVIOUS
<1>1. TypeOK
  BY OutboxAssumption DEF Init, TypeOK, Rows, Statuses, Phases, Working,
     NoClaim, NoKey
<1>2. DeadLetterAtLimit
  BY OutboxAssumption DEF Init, DeadLetterAtLimit
<1>3. /\ KeysNameRows /\ OnlyQueuedRowsAreWorked /\ SuccessWasAccepted
      /\ DeliveredWasAccepted /\ LeasedRowsAreProcessing /\ OpenClaimIsAlone
      /\ HeldClaimsAreOld /\ HeldClaimsDiffer
  BY DEF Init, KeysNameRows, OnlyQueuedRowsAreWorked, SuccessWasAccepted,
         DeliveredWasAccepted, LeasedRowsAreProcessing, OpenClaimIsAlone,
         HeldClaimsAreOld,
         HeldClaimsDiffer, ClaimHeld, Working, NoKey
<1> QED BY <1>1, <1>2, <1>3 DEF IInv

\* Every step of a worker, of the provider, of the clock or of an enqueuing
\* transaction keeps the inductive invariant.
THEOREM NextIInv == IInv /\ [Next]_vars => IInv'
<1> SUFFICES ASSUME IInv, [Next]_vars PROVE IInv'
  OBVIOUS
<1>0. TypeOK /\ KeysNameRows /\ OnlyQueuedRowsAreWorked /\ SuccessWasAccepted
      /\ DeliveredWasAccepted /\ DeadLetterAtLimit /\ LeasedRowsAreProcessing
      /\ OpenClaimIsAlone
      /\ HeldClaimsAreOld /\ HeldClaimsDiffer
  BY DEF IInv
<1> USE <1>0
<1>1. ASSUME NEW w \in Workers, NEW m \in Messages, SelectCandidate(w, m) PROVE IInv'
  <2> DEFINE c == [message |-> m, attempts |-> outbox[m].attempts,
                   owner |-> OwnerOf[w],
                   generation |-> outbox[m].generation + 1,
                   key |-> ClaimKey(m)]
  <2>a. /\ c \in Claims /\ c.message = m
        /\ c.attempts = outbox[m].attempts
        /\ c.generation = outbox[m].generation + 1
        /\ c.key = m
    <3>1. outbox[m] \in Rows /\ outbox[m].key \in {NoKey, m}
      BY DEF TypeOK, KeysNameRows
    <3>2. ClaimKey(m) = m
      BY <3>1 DEF ClaimKey
    <3> QED BY <3>1, <3>2 DEF Rows, Claims, Owners
  <2>b. /\ phase' = [phase EXCEPT ![w] = "claiming"]
        /\ claim' = [claim EXCEPT ![w] = c]
        /\ UNCHANGED <<outbox, inFlight, accepted, crashes, stalls>>
    BY <1>1 DEF SelectCandidate, GoTo
  <2>c. /\ outbox[m].status \in {"pending", "retry", "processing"}
        /\ \A v \in Workers : phase[v] = "claiming" => claim[v].message # m
    BY <1>1 DEF SelectCandidate, Claimable, RowLocked
  <2> HIDE DEF c
  <2>1. TypeOK'
    BY <2>a, <2>b, <2>c DEF TypeOK, Phases, Working
  <2>2. KeysNameRows'
    BY <2>a, <2>b, <2>c DEF TypeOK, Phases, Working, KeysNameRows, Claims, Requests
  <2>3. OnlyQueuedRowsAreWorked'
    BY <2>a, <2>b, <2>c DEF TypeOK, Phases, Working, OnlyQueuedRowsAreWorked,
       Claims, Requests
  <2>4. SuccessWasAccepted'
    BY <2>a, <2>b, <2>c DEF TypeOK, Phases, Working, SuccessWasAccepted
  <2>5. DeliveredWasAccepted'
    BY <2>a, <2>b, <2>c DEF TypeOK, Phases, Working, DeliveredWasAccepted
  <2>6. DeadLetterAtLimit'
    BY <2>a, <2>b, <2>c DEF TypeOK, Phases, Working, DeadLetterAtLimit
  <2>7. LeasedRowsAreProcessing'
    BY <2>a, <2>b, <2>c DEF TypeOK, LeasedRowsAreProcessing
  <2>8. OpenClaimIsAlone'
    BY <2>a, <2>b, <2>c DEF TypeOK, Phases, Working, OpenClaimIsAlone, Claims
  <2>9. HeldClaimsAreOld'
    BY <2>a, <2>b, <2>c DEF TypeOK, Phases, Working, HeldClaimsAreOld,
       ClaimHeld, HoldsLease, Claims
  <2>10. HeldClaimsDiffer'
    BY <2>a, <2>b, <2>c DEF TypeOK, Phases, Working, HeldClaimsDiffer,
       ClaimHeld, Claims
  <2> QED BY <2>1, <2>2, <2>3, <2>4, <2>5, <2>6, <2>7, <2>8, <2>9, <2>10 DEF IInv
<1>2. ASSUME NEW w \in Workers, CommitClaim(w) PROVE IInv'
  <2> DEFINE m == claim[w].message
             row == [outbox[m] EXCEPT
                       !.status = "processing", !.lease = "live",
                       !.owner = claim[w].owner, !.key = claim[w].key,
                       !.generation = claim[w].generation]
  <2>a. phase[w] = "claiming" /\ claim[w] \in Claims /\ m \in Messages
    BY <1>2 DEF CommitClaim, TypeOK, Working, Claims
  <2>b. /\ row \in Rows /\ row.status = "processing"
        /\ row.key = claim[w].key /\ row.generation = claim[w].generation
        /\ row.attempts = outbox[m].attempts
    <3>1. outbox[m] \in Rows
      BY <2>a DEF TypeOK
    <3> QED BY <2>a, <3>1 DEF Rows, Statuses, Claims
  <2>c. outbox' = [outbox EXCEPT ![m] = row]
    BY <1>2 DEF CommitClaim
  <2>d. /\ phase' = [phase EXCEPT ![w] = "claimed"]
        /\ UNCHANGED <<claim, inFlight, accepted, crashes, stalls>>
    BY <1>2 DEF CommitClaim, GoTo
  <2> HIDE DEF m, row
  <2>1. TypeOK'
    BY <2>a, <2>b, <2>c, <2>d DEF TypeOK, Phases, Working, m
  <2>2. KeysNameRows'
    BY <2>a, <2>b, <2>c, <2>d DEF TypeOK, Phases, Working, KeysNameRows, Claims,
       Requests, m
  <2>3. OnlyQueuedRowsAreWorked'
    BY <2>a, <2>b, <2>c, <2>d DEF TypeOK, Phases, Working,
       OnlyQueuedRowsAreWorked, Claims, Requests, m
  <2>4. SuccessWasAccepted'
    BY <2>a, <2>b, <2>c, <2>d DEF TypeOK, Phases, Working, SuccessWasAccepted, m
  <2>5. DeliveredWasAccepted'
    BY <2>a, <2>b, <2>c, <2>d DEF TypeOK, Phases, Working, DeliveredWasAccepted, m
  <2>6. DeadLetterAtLimit'
    BY <2>a, <2>b, <2>c, <2>d DEF TypeOK, Phases, Working, DeadLetterAtLimit,
       OpenClaimIsAlone, m
  <2>7. LeasedRowsAreProcessing'
    BY <2>a, <2>b, <2>c, <2>d DEF TypeOK, LeasedRowsAreProcessing, m
  <2>8. OpenClaimIsAlone'
    BY <2>a, <2>b, <2>c, <2>d DEF TypeOK, Phases, Working, OpenClaimIsAlone,
       Claims, Rows, m
  <2>9. HeldClaimsAreOld'
    BY <2>a, <2>b, <2>c, <2>d DEF TypeOK, Phases, Working, HeldClaimsAreOld,
       ClaimHeld, HoldsLease, Claims, OpenClaimIsAlone, Rows, m
  <2>10. HeldClaimsDiffer'
    BY <2>a, <2>b, <2>c, <2>d DEF TypeOK, Phases, Working, HeldClaimsDiffer,
       ClaimHeld, Claims, OpenClaimIsAlone, HeldClaimsAreOld, Rows, m
  <2> QED BY <2>1, <2>2, <2>3, <2>4, <2>5, <2>6, <2>7, <2>8, <2>9, <2>10 DEF IInv
<1>3. ASSUME NEW w \in Workers, ReadEnvelopeFails(w) PROVE IInv'
  <2>1. TypeOK'
    BY <1>3 DEF TypeOK, Rows, Statuses, Claims, Phases, Working, Owners,
       Requests, NoClaim, NoKey, ReadEnvelopeFails, GoTo
  <2>2. KeysNameRows'
    BY <1>3 DEF TypeOK, Phases, Working, KeysNameRows, Claims, Requests,
       ReadEnvelopeFails, GoTo
  <2>3. OnlyQueuedRowsAreWorked'
    BY <1>3 DEF TypeOK, Phases, Working, OnlyQueuedRowsAreWorked, Claims,
       Requests, ReadEnvelopeFails, GoTo
  <2>4. SuccessWasAccepted'
    BY <1>3 DEF TypeOK, Phases, Working, SuccessWasAccepted, ReadEnvelopeFails, GoTo
  <2>5. DeliveredWasAccepted'
    BY <1>3 DEF TypeOK, Phases, Working, DeliveredWasAccepted,
       ReadEnvelopeFails, GoTo
  <2>6. DeadLetterAtLimit'
    BY <1>3 DEF TypeOK, Phases, Working, DeadLetterAtLimit, ReadEnvelopeFails, GoTo
  <2>7. LeasedRowsAreProcessing'
    BY <1>3 DEF TypeOK, LeasedRowsAreProcessing, ReadEnvelopeFails, GoTo
  <2>8. OpenClaimIsAlone'
    BY <1>3 DEF TypeOK, Phases, Working, OpenClaimIsAlone, Claims,
       ReadEnvelopeFails, GoTo
  <2>9. HeldClaimsAreOld'
    BY <1>3 DEF TypeOK, Phases, Working, HeldClaimsAreOld, ClaimHeld,
       HoldsLease, Claims, ReadEnvelopeFails, GoTo
  <2>10. HeldClaimsDiffer'
    BY <1>3 DEF TypeOK, Phases, Working, HeldClaimsDiffer, ClaimHeld, Claims,
       ReadEnvelopeFails, GoTo
  <2> QED BY <2>1, <2>2, <2>3, <2>4, <2>5, <2>6, <2>7, <2>8, <2>9, <2>10 DEF IInv
<1>4. ASSUME NEW w \in Workers, Send(w) PROVE IInv'
  <2>1. TypeOK'
    BY <1>4 DEF TypeOK, Rows, Statuses, Claims, Phases, Working, Owners,
       Requests, NoClaim, NoKey, Send, GoTo
  <2>2. KeysNameRows'
    BY <1>4 DEF TypeOK, Phases, Working, KeysNameRows, Claims, Requests, Send, GoTo
  <2>3. OnlyQueuedRowsAreWorked'
    BY <1>4 DEF TypeOK, Phases, Working, OnlyQueuedRowsAreWorked, Claims,
       Requests, Send, GoTo
  <2>4. SuccessWasAccepted'
    BY <1>4 DEF TypeOK, Phases, Working, SuccessWasAccepted, Send, GoTo
  <2>5. DeliveredWasAccepted'
    BY <1>4 DEF TypeOK, Phases, Working, DeliveredWasAccepted, Send, GoTo
  <2>6. DeadLetterAtLimit'
    BY <1>4 DEF TypeOK, Phases, Working, DeadLetterAtLimit, Send, GoTo
  <2>7. LeasedRowsAreProcessing'
    BY <1>4 DEF TypeOK, LeasedRowsAreProcessing, Send, GoTo
  <2>8. OpenClaimIsAlone'
    BY <1>4 DEF TypeOK, Phases, Working, OpenClaimIsAlone, Claims, Send, GoTo
  <2>9. HeldClaimsAreOld'
    BY <1>4 DEF TypeOK, Phases, Working, HeldClaimsAreOld, ClaimHeld,
       HoldsLease, Claims, Send, GoTo
  <2>10. HeldClaimsDiffer'
    BY <1>4 DEF TypeOK, Phases, Working, HeldClaimsDiffer, ClaimHeld, Claims,
       Send, GoTo
  <2> QED BY <2>1, <2>2, <2>3, <2>4, <2>5, <2>6, <2>7, <2>8, <2>9, <2>10 DEF IInv
<1>5. ASSUME NEW w \in Workers, SendSucceeds(w) PROVE IInv'
  <2>1. TypeOK'
    BY <1>5 DEF TypeOK, Rows, Statuses, Claims, Phases, Working, Owners,
       Requests, NoClaim, NoKey, SendSucceeds, GoTo
  <2>2. KeysNameRows'
    BY <1>5 DEF TypeOK, Phases, Working, KeysNameRows, Claims, Requests,
       SendSucceeds, GoTo
  <2>3. OnlyQueuedRowsAreWorked'
    BY <1>5 DEF TypeOK, Phases, Working, OnlyQueuedRowsAreWorked, Claims,
       Requests, SendSucceeds, GoTo
  <2>4. SuccessWasAccepted'
    BY <1>5 DEF TypeOK, Phases, Working, SuccessWasAccepted, SendSucceeds, GoTo,
       KeysNameRows
  <2>5. DeliveredWasAccepted'
    BY <1>5 DEF TypeOK, Phases, Working, DeliveredWasAccepted, SendSucceeds, GoTo
  <2>6. DeadLetterAtLimit'
    BY <1>5 DEF TypeOK, Phases, Working, DeadLetterAtLimit, SendSucceeds, GoTo
  <2>7. LeasedRowsAreProcessing'
    BY <1>5 DEF TypeOK, LeasedRowsAreProcessing, SendSucceeds, GoTo
  <2>8. OpenClaimIsAlone'
    BY <1>5 DEF TypeOK, Phases, Working, OpenClaimIsAlone, Claims, SendSucceeds,
       GoTo
  <2>9. HeldClaimsAreOld'
    BY <1>5 DEF TypeOK, Phases, Working, HeldClaimsAreOld, ClaimHeld,
       HoldsLease, Claims, SendSucceeds, GoTo
  <2>10. HeldClaimsDiffer'
    BY <1>5 DEF TypeOK, Phases, Working, HeldClaimsDiffer, ClaimHeld, Claims,
       SendSucceeds, GoTo
  <2> QED BY <2>1, <2>2, <2>3, <2>4, <2>5, <2>6, <2>7, <2>8, <2>9, <2>10 DEF IInv
<1>6. ASSUME NEW w \in Workers, SendFails(w) PROVE IInv'
  <2>1. TypeOK'
    BY <1>6 DEF TypeOK, Rows, Statuses, Claims, Phases, Working, Owners,
       Requests, NoClaim, NoKey, SendFails, GoTo
  <2>2. KeysNameRows'
    BY <1>6 DEF TypeOK, Phases, Working, KeysNameRows, Claims, Requests,
       SendFails, GoTo
  <2>3. OnlyQueuedRowsAreWorked'
    BY <1>6 DEF TypeOK, Phases, Working, OnlyQueuedRowsAreWorked, Claims,
       Requests, SendFails, GoTo
  <2>4. SuccessWasAccepted'
    BY <1>6 DEF TypeOK, Phases, Working, SuccessWasAccepted, SendFails, GoTo
  <2>5. DeliveredWasAccepted'
    BY <1>6 DEF TypeOK, Phases, Working, DeliveredWasAccepted, SendFails, GoTo
  <2>6. DeadLetterAtLimit'
    BY <1>6 DEF TypeOK, Phases, Working, DeadLetterAtLimit, SendFails, GoTo
  <2>7. LeasedRowsAreProcessing'
    BY <1>6 DEF TypeOK, LeasedRowsAreProcessing, SendFails, GoTo
  <2>8. OpenClaimIsAlone'
    BY <1>6 DEF TypeOK, Phases, Working, OpenClaimIsAlone, Claims, SendFails, GoTo
  <2>9. HeldClaimsAreOld'
    BY <1>6 DEF TypeOK, Phases, Working, HeldClaimsAreOld, ClaimHeld,
       HoldsLease, Claims, SendFails, GoTo
  <2>10. HeldClaimsDiffer'
    BY <1>6 DEF TypeOK, Phases, Working, HeldClaimsDiffer, ClaimHeld, Claims,
       SendFails, GoTo
  <2> QED BY <2>1, <2>2, <2>3, <2>4, <2>5, <2>6, <2>7, <2>8, <2>9, <2>10 DEF IInv
<1>7. ASSUME NEW w \in Workers, FinalizeSuccess(w) PROVE IInv'
  <2> DEFINE m == claim[w].message
  <2>a. phase[w] \in Working /\ claim[w] \in Claims /\ m \in Messages
    BY <1>7 DEF FinalizeSuccess, TypeOK, Working, Claims
  <2>b. /\ phase' = [phase EXCEPT ![w] = "idle"]
        /\ claim' = [claim EXCEPT ![w] = NoClaim]
        /\ UNCHANGED <<inFlight, accepted, crashes, stalls>>
    BY <1>7 DEF FinalizeSuccess, Finish, GoTo
  <2>c. \A v \in Workers : phase[v] = "claiming" => claim[v].message # m
    BY <1>7 DEF FinalizeSuccess, RowLocked
  <2>d. /\ outbox' \in [Messages -> Rows]
        /\ \A n \in Messages :
             /\ outbox'[n].generation = outbox[n].generation
             /\ outbox'[n].key = outbox[n].key
             /\ outbox'[n].attempts = outbox[n].attempts
             /\ \/ outbox'[n] = outbox[n]
                \/ /\ n = m
                   /\ HoldsLease(claim[w])
                   /\ outbox'[n].status = "delivered"
                   /\ outbox'[n].lease = "none"
    BY <1>7, <2>a, DeliveredRow DEF FinalizeSuccess
  <2>1. TypeOK'
    BY <2>a, <2>b, <2>c, <2>d DEF TypeOK, Phases, Working, NoClaim
  <2>2. KeysNameRows'
    BY <2>a, <2>b, <2>c, <2>d DEF TypeOK, Phases, Working, KeysNameRows, Claims,
       Requests
  <2>3. OnlyQueuedRowsAreWorked'
    BY <2>a, <2>b, <2>c, <2>d DEF TypeOK, Phases, Working,
       OnlyQueuedRowsAreWorked, Claims, Requests, HoldsLease
  <2>4. SuccessWasAccepted'
    BY <2>a, <2>b, <2>c, <2>d DEF TypeOK, Phases, Working, SuccessWasAccepted
  <2>5. DeliveredWasAccepted'
    BY <1>7, <2>a, <2>b, <2>c, <2>d DEF TypeOK, Phases, Working,
       DeliveredWasAccepted, SuccessWasAccepted, FinalizeSuccess
  <2>6. DeadLetterAtLimit'
    BY <2>a, <2>b, <2>c, <2>d DEF TypeOK, Phases, Working, DeadLetterAtLimit,
       HoldsLease
  <2>7. LeasedRowsAreProcessing'
    BY <2>a, <2>b, <2>c, <2>d DEF TypeOK, LeasedRowsAreProcessing
  <2>8. OpenClaimIsAlone'
    BY <2>a, <2>b, <2>c, <2>d DEF TypeOK, Phases, Working, OpenClaimIsAlone, Claims
  <2>9. HeldClaimsAreOld'
    BY <2>a, <2>b, <2>c, <2>d DEF TypeOK, Phases, Working, HeldClaimsAreOld,
       ClaimHeld, HoldsLease, Claims
  <2>10. HeldClaimsDiffer'
    BY <2>a, <2>b, <2>c, <2>d DEF TypeOK, Phases, Working, HeldClaimsDiffer,
       ClaimHeld, Claims
  <2> QED BY <2>1, <2>2, <2>3, <2>4, <2>5, <2>6, <2>7, <2>8, <2>9, <2>10 DEF IInv
<1>8. ASSUME NEW w \in Workers, FinalizeSuccessThrows(w) PROVE IInv'
  <2> DEFINE m == claim[w].message
  <2>a. phase[w] \in Working /\ claim[w] \in Claims /\ m \in Messages
    BY <1>8 DEF FinalizeSuccessThrows, TypeOK, Working, Claims
  <2>b. /\ phase' = [phase EXCEPT ![w] = "failing"]
        /\ UNCHANGED claim
        /\ UNCHANGED <<inFlight, accepted, crashes, stalls>>
    BY <1>8 DEF FinalizeSuccessThrows, GoTo
  <2>c. \A v \in Workers : phase[v] = "claiming" => claim[v].message # m
    BY <1>8 DEF FinalizeSuccessThrows, RowLocked
  <2>d. /\ outbox' \in [Messages -> Rows]
        /\ \A n \in Messages :
             /\ outbox'[n].generation = outbox[n].generation
             /\ outbox'[n].key = outbox[n].key
             /\ outbox'[n].attempts = outbox[n].attempts
             /\ \/ outbox'[n] = outbox[n]
                \/ /\ n = m
                   /\ HoldsLease(claim[w])
                   /\ outbox'[n].status = "delivered"
                   /\ outbox'[n].lease = "none"
    BY <1>8, <2>a, DeliveredRow DEF FinalizeSuccessThrows, TypeOK
  <2>1. TypeOK'
    BY <2>a, <2>b, <2>c, <2>d DEF TypeOK, Phases, Working, NoClaim
  <2>2. KeysNameRows'
    BY <2>a, <2>b, <2>c, <2>d DEF TypeOK, Phases, Working, KeysNameRows, Claims,
       Requests
  <2>3. OnlyQueuedRowsAreWorked'
    BY <2>a, <2>b, <2>c, <2>d DEF TypeOK, Phases, Working,
       OnlyQueuedRowsAreWorked, Claims, Requests, HoldsLease
  <2>4. SuccessWasAccepted'
    BY <2>a, <2>b, <2>c, <2>d DEF TypeOK, Phases, Working, SuccessWasAccepted
  <2>5. DeliveredWasAccepted'
    BY <1>8, <2>a, <2>b, <2>c, <2>d DEF TypeOK, Phases, Working,
       DeliveredWasAccepted, SuccessWasAccepted, FinalizeSuccessThrows
  <2>6. DeadLetterAtLimit'
    BY <2>a, <2>b, <2>c, <2>d DEF TypeOK, Phases, Working, DeadLetterAtLimit,
       HoldsLease
  <2>7. LeasedRowsAreProcessing'
    BY <2>a, <2>b, <2>c, <2>d DEF TypeOK, LeasedRowsAreProcessing
  <2>8. OpenClaimIsAlone'
    BY <2>a, <2>b, <2>c, <2>d DEF TypeOK, Phases, Working, OpenClaimIsAlone, Claims
  <2>9. HeldClaimsAreOld'
    BY <2>a, <2>b, <2>c, <2>d DEF TypeOK, Phases, Working, HeldClaimsAreOld,
       ClaimHeld, HoldsLease, Claims
  <2>10. HeldClaimsDiffer'
    BY <2>a, <2>b, <2>c, <2>d DEF TypeOK, Phases, Working, HeldClaimsDiffer,
       ClaimHeld, Claims
  <2> QED BY <2>1, <2>2, <2>3, <2>4, <2>5, <2>6, <2>7, <2>8, <2>9, <2>10 DEF IInv
<1>9. ASSUME NEW w \in Workers, FinalizeFailure(w) PROVE IInv'
  <2> DEFINE m == claim[w].message
  <2>a. phase[w] \in Working /\ claim[w] \in Claims /\ m \in Messages
    BY <1>9 DEF FinalizeFailure, TypeOK, Working, Claims
  <2>b. /\ phase' = [phase EXCEPT ![w] = "idle"]
        /\ claim' = [claim EXCEPT ![w] = NoClaim]
        /\ UNCHANGED <<inFlight, accepted, crashes, stalls>>
    BY <1>9 DEF FinalizeFailure, Finish, GoTo
  <2>c. \A v \in Workers : phase[v] = "claiming" => claim[v].message # m
    BY <1>9 DEF FinalizeFailure, RowLocked
  <2>d. /\ outbox' \in [Messages -> Rows]
        /\ \A n \in Messages :
             /\ outbox'[n].generation = outbox[n].generation
             /\ outbox'[n].key = outbox[n].key
             /\ \/ outbox'[n] = outbox[n]
                \/ /\ n = m
                   /\ HoldsLease(claim[w])
                   /\ outbox'[n].lease = "none"
                   /\ outbox'[n].attempts = outbox[n].attempts + 1
                   /\ outbox'[n].status = FailedStatus(outbox'[n].attempts)
    BY <1>9, <2>a, FailedRow DEF FinalizeFailure
  <2>1. TypeOK'
    BY <2>a, <2>b, <2>c, <2>d DEF TypeOK, Phases, Working, NoClaim
  <2>2. KeysNameRows'
    BY <2>a, <2>b, <2>c, <2>d DEF TypeOK, Phases, Working, KeysNameRows, Claims,
       Requests
  <2>3. OnlyQueuedRowsAreWorked'
    BY <2>a, <2>b, <2>c, <2>d DEF TypeOK, Phases, Working,
       OnlyQueuedRowsAreWorked, Claims, Requests, HoldsLease, FailedStatus
  <2>4. SuccessWasAccepted'
    BY <2>a, <2>b, <2>c, <2>d DEF TypeOK, Phases, Working, SuccessWasAccepted
  <2>5. DeliveredWasAccepted'
    BY <1>9, <2>a, <2>b, <2>c, <2>d DEF TypeOK, Phases, Working,
       DeliveredWasAccepted, FailedStatus
  <2>6. DeadLetterAtLimit'
    <3> SUFFICES ASSUME NEW n \in Messages
                 PROVE  outbox'[n].status = "dead_letter" <=> outbox'[n].attempts = MaxAttempts
      BY DEF DeadLetterAtLimit
    <3>1. outbox'[n].attempts \in 0..MaxAttempts
      BY <2>d DEF Rows
    <3> QED BY <2>d, <3>1, OutboxAssumption DEF DeadLetterAtLimit, FailedStatus
  <2>7. LeasedRowsAreProcessing'
    BY <2>a, <2>b, <2>c, <2>d DEF TypeOK, LeasedRowsAreProcessing
  <2>8. OpenClaimIsAlone'
    BY <2>a, <2>b, <2>c, <2>d DEF TypeOK, Phases, Working, OpenClaimIsAlone, Claims
  <2>9. HeldClaimsAreOld'
    BY <2>a, <2>b, <2>c, <2>d DEF TypeOK, Phases, Working, HeldClaimsAreOld,
       ClaimHeld, HoldsLease, Claims, FailedStatus
  <2>10. HeldClaimsDiffer'
    BY <2>a, <2>b, <2>c, <2>d DEF TypeOK, Phases, Working, HeldClaimsDiffer,
       ClaimHeld, Claims
  <2> QED BY <2>1, <2>2, <2>3, <2>4, <2>5, <2>6, <2>7, <2>8, <2>9, <2>10 DEF IInv
<1>10. ASSUME NEW w \in Workers, Restart(w) PROVE IInv'
  <2>1. TypeOK'
    BY <1>10 DEF TypeOK, Rows, Statuses, Claims, Phases, Working, Owners,
       Requests, NoClaim, NoKey, Restart, GoTo
  <2>2. KeysNameRows'
    BY <1>10 DEF TypeOK, Phases, Working, KeysNameRows, Claims, Requests,
       Restart, GoTo
  <2>3. OnlyQueuedRowsAreWorked'
    BY <1>10 DEF TypeOK, Phases, Working, OnlyQueuedRowsAreWorked, Claims,
       Requests, Restart, GoTo
  <2>4. SuccessWasAccepted'
    BY <1>10 DEF TypeOK, Phases, Working, SuccessWasAccepted, Restart, GoTo
  <2>5. DeliveredWasAccepted'
    BY <1>10 DEF TypeOK, Phases, Working, DeliveredWasAccepted, Restart, GoTo
  <2>6. DeadLetterAtLimit'
    BY <1>10 DEF TypeOK, Phases, Working, DeadLetterAtLimit, Restart, GoTo
  <2>7. LeasedRowsAreProcessing'
    BY <1>10 DEF TypeOK, LeasedRowsAreProcessing, Restart, GoTo
  <2>8. OpenClaimIsAlone'
    BY <1>10 DEF TypeOK, Phases, Working, OpenClaimIsAlone, Claims, Restart, GoTo
  <2>9. HeldClaimsAreOld'
    BY <1>10 DEF TypeOK, Phases, Working, HeldClaimsAreOld, ClaimHeld,
       HoldsLease, Claims, Restart, GoTo
  <2>10. HeldClaimsDiffer'
    BY <1>10 DEF TypeOK, Phases, Working, HeldClaimsDiffer, ClaimHeld, Claims,
       Restart, GoTo
  <2> QED BY <2>1, <2>2, <2>3, <2>4, <2>5, <2>6, <2>7, <2>8, <2>9, <2>10 DEF IInv
<1>11. ASSUME NEW w \in Workers, Crash(w) PROVE IInv'
  <2>1. TypeOK'
    <3>1. crashes' \in 0..MaxCrashes
      BY <1>11, OutboxAssumption DEF Crash, TypeOK
    <3> QED BY <1>11, <3>1 DEF Crash, GoTo, TypeOK, Phases, Working
  <2>2. KeysNameRows'
    BY <1>11 DEF TypeOK, Phases, Working, KeysNameRows, Claims, Requests, Crash,
       GoTo
  <2>3. OnlyQueuedRowsAreWorked'
    BY <1>11 DEF TypeOK, Phases, Working, OnlyQueuedRowsAreWorked, Claims,
       Requests, Crash, GoTo
  <2>4. SuccessWasAccepted'
    BY <1>11 DEF TypeOK, Phases, Working, SuccessWasAccepted, Crash, GoTo
  <2>5. DeliveredWasAccepted'
    BY <1>11 DEF TypeOK, Phases, Working, DeliveredWasAccepted, Crash, GoTo
  <2>6. DeadLetterAtLimit'
    BY <1>11 DEF TypeOK, Phases, Working, DeadLetterAtLimit, Crash, GoTo
  <2>7. LeasedRowsAreProcessing'
    BY <1>11 DEF TypeOK, LeasedRowsAreProcessing, Crash, GoTo
  <2>8. OpenClaimIsAlone'
    BY <1>11 DEF TypeOK, Phases, Working, OpenClaimIsAlone, Claims, Crash, GoTo
  <2>9. HeldClaimsAreOld'
    BY <1>11 DEF TypeOK, Phases, Working, HeldClaimsAreOld, ClaimHeld,
       HoldsLease, Claims, Crash, GoTo
  <2>10. HeldClaimsDiffer'
    BY <1>11 DEF TypeOK, Phases, Working, HeldClaimsDiffer, ClaimHeld, Claims,
       Crash, GoTo
  <2> QED BY <2>1, <2>2, <2>3, <2>4, <2>5, <2>6, <2>7, <2>8, <2>9, <2>10 DEF IInv
<1>12. ASSUME NEW m \in Messages, Enqueue(m) PROVE IInv'
  <2> DEFINE row == [outbox[m] EXCEPT !.status = "pending", !.due = TRUE]
  <2>a. /\ row \in Rows /\ row.key = outbox[m].key
        /\ row.generation = outbox[m].generation
        /\ row.attempts = outbox[m].attempts
        /\ row.owner = outbox[m].owner
        /\ row.status = "pending"
        /\ row.lease = outbox[m].lease
    <3>1. outbox[m] \in Rows
      BY DEF TypeOK
    <3> QED BY <3>1 DEF Rows, Statuses
  <2>b. outbox' = [outbox EXCEPT ![m] = row]
    BY <1>12 DEF Enqueue
  <2>c. UNCHANGED <<phase, claim, inFlight, accepted, crashes>> /\ UNCHANGED stalls
        /\ outbox[m].status = "absent"
    BY <1>12 DEF Enqueue, TypeOK
  <2> HIDE DEF row
  <2>1. TypeOK'
    BY <2>a, <2>b, <2>c DEF TypeOK
  <2>2. KeysNameRows'
    BY <2>a, <2>b, <2>c DEF TypeOK, Phases, Working, KeysNameRows, Claims, Requests
  <2>3. OnlyQueuedRowsAreWorked'
    BY <2>a, <2>b, <2>c DEF TypeOK, Phases, Working, OnlyQueuedRowsAreWorked,
       Claims, Requests
  <2>4. SuccessWasAccepted'
    BY <2>a, <2>b, <2>c DEF TypeOK, Phases, Working, SuccessWasAccepted
  <2>5. DeliveredWasAccepted'
    BY <2>a, <2>b, <2>c DEF TypeOK, Phases, Working, DeliveredWasAccepted
  <2>6. DeadLetterAtLimit'
    BY <2>a, <2>b, <2>c DEF TypeOK, Phases, Working, DeadLetterAtLimit
  <2>7. LeasedRowsAreProcessing'
    BY <2>a, <2>b, <2>c DEF TypeOK, LeasedRowsAreProcessing
  <2>8. OpenClaimIsAlone'
    BY <2>a, <2>b, <2>c DEF TypeOK, Phases, Working, OpenClaimIsAlone, Claims
  <2>9. HeldClaimsAreOld'
    BY <2>a, <2>b, <2>c DEF TypeOK, Phases, Working, HeldClaimsAreOld,
       ClaimHeld, HoldsLease, Claims
  <2>10. HeldClaimsDiffer'
    BY <2>a, <2>b, <2>c DEF TypeOK, Phases, Working, HeldClaimsDiffer,
       ClaimHeld, Claims
  <2> QED BY <2>1, <2>2, <2>3, <2>4, <2>5, <2>6, <2>7, <2>8, <2>9, <2>10 DEF IInv
<1>13. ASSUME NEW m \in Messages, ExpireLease(m) PROVE IInv'
  <2> DEFINE row == [outbox[m] EXCEPT !.lease = "expired"]
  <2>a. /\ row \in Rows /\ row.key = outbox[m].key
        /\ row.generation = outbox[m].generation
        /\ row.attempts = outbox[m].attempts
        /\ row.owner = outbox[m].owner
        /\ row.status = outbox[m].status
        /\ row.lease = "expired"
    <3>1. outbox[m] \in Rows
      BY DEF TypeOK
    <3> QED BY <3>1 DEF Rows, Statuses
  <2>b. outbox' = [outbox EXCEPT ![m] = row]
    BY <1>13 DEF ExpireLease
  <2>c. UNCHANGED <<phase, claim, inFlight, accepted, crashes>>
    BY <1>13 DEF ExpireLease, TypeOK
  <2>d. stalls' \in 0..MaxStalls
    BY <1>13, OutboxAssumption DEF ExpireLease, TypeOK
  <2>e. outbox[m].status = "processing"
    BY <1>13 DEF ExpireLease, LeasedRowsAreProcessing
  <2> HIDE DEF row
  <2>1. TypeOK'
    BY <2>a, <2>b, <2>c, <2>d DEF TypeOK
  <2>2. KeysNameRows'
    BY <2>a, <2>b, <2>c, <2>d DEF TypeOK, Phases, Working, KeysNameRows, Claims,
       Requests
  <2>3. OnlyQueuedRowsAreWorked'
    BY <2>a, <2>b, <2>c, <2>d DEF TypeOK, Phases, Working,
       OnlyQueuedRowsAreWorked, Claims, Requests
  <2>4. SuccessWasAccepted'
    BY <2>a, <2>b, <2>c, <2>d DEF TypeOK, Phases, Working, SuccessWasAccepted
  <2>5. DeliveredWasAccepted'
    BY <2>a, <2>b, <2>c, <2>d DEF TypeOK, Phases, Working, DeliveredWasAccepted
  <2>6. DeadLetterAtLimit'
    BY <2>a, <2>b, <2>c, <2>d DEF TypeOK, Phases, Working, DeadLetterAtLimit
  <2>7. LeasedRowsAreProcessing'
    BY <2>a, <2>b, <2>c, <2>d, <2>e DEF TypeOK, LeasedRowsAreProcessing
  <2>8. OpenClaimIsAlone'
    BY <2>a, <2>b, <2>c, <2>d DEF TypeOK, Phases, Working, OpenClaimIsAlone, Claims
  <2>9. HeldClaimsAreOld'
    BY <2>a, <2>b, <2>c, <2>d DEF TypeOK, Phases, Working, HeldClaimsAreOld,
       ClaimHeld, HoldsLease, Claims
  <2>10. HeldClaimsDiffer'
    BY <2>a, <2>b, <2>c, <2>d DEF TypeOK, Phases, Working, HeldClaimsDiffer,
       ClaimHeld, Claims
  <2> QED BY <2>1, <2>2, <2>3, <2>4, <2>5, <2>6, <2>7, <2>8, <2>9, <2>10 DEF IInv
<1>14. ASSUME NEW m \in Messages, BecomeDue(m) PROVE IInv'
  <2> DEFINE row == [outbox[m] EXCEPT !.due = TRUE]
  <2>a. /\ row \in Rows /\ row.key = outbox[m].key
        /\ row.generation = outbox[m].generation
        /\ row.attempts = outbox[m].attempts
        /\ row.owner = outbox[m].owner
        /\ row.status = outbox[m].status
        /\ row.lease = outbox[m].lease
    <3>1. outbox[m] \in Rows
      BY DEF TypeOK
    <3> QED BY <3>1 DEF Rows, Statuses
  <2>b. outbox' = [outbox EXCEPT ![m] = row]
    BY <1>14 DEF BecomeDue
  <2>c. UNCHANGED <<phase, claim, inFlight, accepted, crashes>> /\ UNCHANGED stalls
    BY <1>14 DEF BecomeDue, TypeOK
  <2> HIDE DEF row
  <2>1. TypeOK'
    BY <2>a, <2>b, <2>c DEF TypeOK
  <2>2. KeysNameRows'
    BY <2>a, <2>b, <2>c DEF TypeOK, Phases, Working, KeysNameRows, Claims, Requests
  <2>3. OnlyQueuedRowsAreWorked'
    BY <2>a, <2>b, <2>c DEF TypeOK, Phases, Working, OnlyQueuedRowsAreWorked,
       Claims, Requests
  <2>4. SuccessWasAccepted'
    BY <2>a, <2>b, <2>c DEF TypeOK, Phases, Working, SuccessWasAccepted
  <2>5. DeliveredWasAccepted'
    BY <2>a, <2>b, <2>c DEF TypeOK, Phases, Working, DeliveredWasAccepted
  <2>6. DeadLetterAtLimit'
    BY <2>a, <2>b, <2>c DEF TypeOK, Phases, Working, DeadLetterAtLimit
  <2>7. LeasedRowsAreProcessing'
    BY <2>a, <2>b, <2>c DEF TypeOK, LeasedRowsAreProcessing
  <2>8. OpenClaimIsAlone'
    BY <2>a, <2>b, <2>c DEF TypeOK, Phases, Working, OpenClaimIsAlone, Claims
  <2>9. HeldClaimsAreOld'
    BY <2>a, <2>b, <2>c DEF TypeOK, Phases, Working, HeldClaimsAreOld,
       ClaimHeld, HoldsLease, Claims
  <2>10. HeldClaimsDiffer'
    BY <2>a, <2>b, <2>c DEF TypeOK, Phases, Working, HeldClaimsDiffer,
       ClaimHeld, Claims
  <2> QED BY <2>1, <2>2, <2>3, <2>4, <2>5, <2>6, <2>7, <2>8, <2>9, <2>10 DEF IInv
<1>15. ASSUME NEW r \in Requests, ProviderAccepts(r) PROVE IInv'
  <2>1. TypeOK'
    BY <1>15 DEF TypeOK, Rows, Statuses, Claims, Phases, Working, Owners,
       Requests, NoClaim, NoKey, ProviderAccepts
  <2>2. KeysNameRows'
    BY <1>15 DEF TypeOK, Phases, Working, KeysNameRows, Claims, Requests,
       ProviderAccepts
  <2>3. OnlyQueuedRowsAreWorked'
    BY <1>15 DEF TypeOK, Phases, Working, OnlyQueuedRowsAreWorked, Claims,
       Requests, ProviderAccepts
  <2>4. SuccessWasAccepted'
    BY <1>15 DEF TypeOK, Phases, Working, SuccessWasAccepted, ProviderAccepts
  <2>5. DeliveredWasAccepted'
    BY <1>15 DEF TypeOK, Phases, Working, DeliveredWasAccepted, ProviderAccepts
  <2>6. DeadLetterAtLimit'
    BY <1>15 DEF TypeOK, Phases, Working, DeadLetterAtLimit, ProviderAccepts
  <2>7. LeasedRowsAreProcessing'
    BY <1>15 DEF TypeOK, LeasedRowsAreProcessing, ProviderAccepts
  <2>8. OpenClaimIsAlone'
    BY <1>15 DEF TypeOK, Phases, Working, OpenClaimIsAlone, Claims, ProviderAccepts
  <2>9. HeldClaimsAreOld'
    BY <1>15 DEF TypeOK, Phases, Working, HeldClaimsAreOld, ClaimHeld,
       HoldsLease, Claims, ProviderAccepts
  <2>10. HeldClaimsDiffer'
    BY <1>15 DEF TypeOK, Phases, Working, HeldClaimsDiffer, ClaimHeld, Claims,
       ProviderAccepts
  <2> QED BY <2>1, <2>2, <2>3, <2>4, <2>5, <2>6, <2>7, <2>8, <2>9, <2>10 DEF IInv
<1>16. ASSUME UNCHANGED vars PROVE IInv'
  <2>1. TypeOK'
    BY <1>16 DEF TypeOK, Rows, Statuses, Claims, Phases, Working, Owners,
       Requests, NoClaim, NoKey, vars
  <2>2. KeysNameRows'
    BY <1>16 DEF TypeOK, Phases, Working, KeysNameRows, Claims, Requests, vars
  <2>3. OnlyQueuedRowsAreWorked'
    BY <1>16 DEF TypeOK, Phases, Working, OnlyQueuedRowsAreWorked, Claims,
       Requests, vars
  <2>4. SuccessWasAccepted'
    BY <1>16 DEF TypeOK, Phases, Working, SuccessWasAccepted, vars
  <2>5. DeliveredWasAccepted'
    BY <1>16 DEF TypeOK, Phases, Working, DeliveredWasAccepted, vars
  <2>6. DeadLetterAtLimit'
    BY <1>16 DEF TypeOK, Phases, Working, DeadLetterAtLimit, vars
  <2>7. LeasedRowsAreProcessing'
    BY <1>16 DEF TypeOK, LeasedRowsAreProcessing, vars
  <2>8. OpenClaimIsAlone'
    BY <1>16 DEF TypeOK, Phases, Working, OpenClaimIsAlone, Claims, vars
  <2>9. HeldClaimsAreOld'
    BY <1>16 DEF TypeOK, Phases, Working, HeldClaimsAreOld, ClaimHeld,
       HoldsLease, Claims, vars
  <2>10. HeldClaimsDiffer'
    BY <1>16 DEF TypeOK, Phases, Working, HeldClaimsDiffer, ClaimHeld, Claims, vars
  <2> QED BY <2>1, <2>2, <2>3, <2>4, <2>5, <2>6, <2>7, <2>8, <2>9, <2>10 DEF IInv
<1> QED BY <1>1, <1>2, <1>3, <1>4, <1>5, <1>6, <1>7, <1>8, <1>9, <1>10, <1>11,
   <1>12, <1>13, <1>14, <1>15, <1>16 DEF Next, WorkerStep, Clock
-----------------------------------------------------------------------------
\* The inductive invariant holds in every state of every behaviour.
THEOREM Invariance == Spec => []IInv
  BY InitIInv, NextIInv, PTL DEF Spec

\* Every variable keeps its type: no UPDATE leaves a row malformed.
THEOREM TypeCorrect == Spec => []TypeOK
<1>1. IInv => TypeOK
  BY DEF IInv
<1> QED BY <1>1, Invariance, PTL

\* At most one worker can finalize a row, whatever worker ids are shared.
THEOREM LeaseHolderIsUnique == Spec => []OneLeaseHolder
<1>1. IInv => OneLeaseHolder
  BY DEF IInv, HeldClaimsDiffer, ClaimHeld, OneLeaseHolder, HoldsLease
<1> QED BY <1>1, Invariance, PTL

\* Retries, reclaims and concurrent sends make at most one mail of a message.
THEOREM AtMostOneMail == Spec => []OneMailPerMessage
<1>1. IInv => OneMailPerMessage
  BY DEF IInv, TypeOK, KeysNameRows, Requests, OneMailPerMessage
<1> QED BY <1>1, Invariance, PTL

\* "delivered" is written only for a message the provider accepted.
THEOREM DeliveredMeansAccepted == Spec => []DeliveredWasAccepted
<1>1. IInv => DeliveredWasAccepted
  BY DEF IInv
<1> QED BY <1>1, Invariance, PTL

\* A dead letter has used all its attempts and no other row has.
THEOREM DeadLetterMeansExhausted == Spec => []DeadLetterAtLimit
<1>1. IInv => DeadLetterAtLimit
  BY DEF IInv
<1> QED BY <1>1, Invariance, PTL

\* Attempts never go back and a settled row never changes, in any step.
THEOREM SettledRowsStay == Spec => AttemptsAndOutcomesStay
<1>1. ASSUME IInv, [Next]_vars, NEW m \in Messages PROVE RowStep(m)
  <2>0. TypeOK /\ DeadLetterAtLimit /\ OpenClaimIsAlone /\ HeldClaimsAreOld
        /\ LeasedRowsAreProcessing
    BY <1>1 DEF IInv
  <2>1. outbox[m] \in Rows /\ outbox[m].attempts \in Nat
    <3>1. outbox[m] \in Rows
      BY <2>0 DEF TypeOK
    <3> QED BY <3>1, OutboxAssumption DEF Rows
  <2>2. CASE UNCHANGED outbox
    BY <2>1, <2>2 DEF RowStep
  <2>3. ASSUME NEW w \in Workers, CommitClaim(w) PROVE RowStep(m)
    BY <2>0, <2>1, <2>3 DEF RowStep, CommitClaim, OpenClaimIsAlone, TypeOK,
       Working, Claims
  <2>4. ASSUME NEW w \in Workers, FinalizeSuccess(w) \/ FinalizeSuccessThrows(w)
        PROVE  RowStep(m)
    <3>1. phase[w] \in Working
      BY <2>4 DEF FinalizeSuccess, FinalizeSuccessThrows, Working
    <3>2. CASE IfLeased(claim[w], MarkDelivered)
      BY <2>0, <2>1, <3>1, <3>2, DeliveredRow DEF HoldsLease, RowStep
    <3>3. CASE UNCHANGED outbox
      BY <2>1, <3>3 DEF RowStep
    <3> QED BY <2>4, <3>2, <3>3 DEF FinalizeSuccess, FinalizeSuccessThrows
  <2>5. ASSUME NEW w \in Workers, FinalizeFailure(w) PROVE RowStep(m)
    <3>1. phase[w] = "failing" /\ IfLeased(claim[w], MarkFailed)
      BY <2>5 DEF FinalizeFailure
    <3>2. \/ outbox'[m] = outbox[m]
          \/ /\ m = claim[w].message
             /\ HoldsLease(claim[w])
             /\ outbox'[m].attempts = outbox[m].attempts + 1
      BY <2>0, <3>1, FailedRow
    <3> QED BY <2>1, <3>2 DEF HoldsLease, RowStep
  <2>6. ASSUME NEW n \in Messages, Enqueue(n) \/ ExpireLease(n) \/ BecomeDue(n)
        PROVE  RowStep(m)
    <3>1. CASE Enqueue(n)
      BY <2>0, <2>1, <3>1 DEF RowStep, Enqueue, TypeOK
    <3>2. CASE ExpireLease(n)
      BY <2>0, <2>1, <3>2 DEF LeasedRowsAreProcessing, RowStep, ExpireLease, TypeOK
    <3>3. CASE BecomeDue(n)
      BY <2>0, <2>1, <3>3 DEF RowStep, BecomeDue, TypeOK
    <3> QED BY <2>6, <3>1, <3>2, <3>3
  <2> QED BY <1>1, <2>2, <2>3, <2>4, <2>5, <2>6
          DEF Next, WorkerStep, Clock, vars, SelectCandidate, ReadEnvelopeFails,
              Send, SendSucceeds, SendFails, Restart, Crash, ProviderAccepts
<1>2. IInv /\ [Next]_vars => [\A m \in Messages : RowStep(m)]_vars
  BY <1>1
<1> QED BY <1>2, Invariance, PTL DEF Spec, AttemptsAndOutcomesStay
-----------------------------------------------------------------------------
LEMMA MailsOfOneMessage ==
    ASSUME NEW S, S \subseteq Requests, \A r \in S : r.key = r.message,
           NEW m \in Messages
    PROVE  /\ (\A r \in S : r.message # m)
                => Cardinality({r \in S : r.message = m}) = 0
           /\ (\E r \in S : r.message = m)
                => Cardinality({r \in S : r.message = m}) = 1
<1>1. ASSUME \A r \in S : r.message # m
      PROVE  Cardinality({r \in S : r.message = m}) = 0
  <2>1. {r \in S : r.message = m} = {}
    BY <1>1
  <2> QED BY <2>1, FS_EmptySet
<1>2. ASSUME NEW r \in S, r.message = m
      PROVE  Cardinality({x \in S : x.message = m}) = 1
  <2>1. {x \in S : x.message = m} = {r}
    BY <1>2 DEF Requests
  <2> QED BY <2>1, FS_Singleton
<1> QED BY <1>1, <1>2

\* Every step of the outbox is a step of the delivery service or leaves the
\* fate and the mails of all messages alone.
THEOREM OutboxImplementsDelivery == Spec => DeliverySpec
<1> DEFINE fates == [m \in Messages |-> Fate(m)]
           mails == [m \in Messages |-> Mailed(m)]
<1>1. Init => Delivery!Init
  <2> SUFFICES ASSUME Init PROVE Delivery!Init
    OBVIOUS
  <2>1. ASSUME NEW m \in Messages PROVE Fate(m) = "absent" /\ Mailed(m) = 0
    <3>1. {r \in accepted : r.message = m} = {}
      BY DEF Init
    <3> QED BY <3>1, FS_EmptySet DEF Init, Fate, Mailed
  <2> QED BY <2>1 DEF Delivery!Init
<1>2. ASSUME IInv, IInv', [Next]_vars
      PROVE  [Delivery!Next]_(Delivery!vars)
  <2>0. /\ TypeOK /\ KeysNameRows /\ OnlyQueuedRowsAreWorked /\ SuccessWasAccepted
        /\ DeadLetterAtLimit /\ LeasedRowsAreProcessing /\ OpenClaimIsAlone
        /\ HeldClaimsAreOld
        /\ TypeOK' /\ KeysNameRows'
    BY <1>2 DEF IInv
  <2>1. ASSUME \A n \in Messages : Fate(n)' = Fate(n), UNCHANGED accepted
        PROVE  UNCHANGED Delivery!vars
    BY <2>1 DEF Delivery!vars, Mailed
  <2>2. ASSUME NEW m \in Messages,
               \A n \in Messages \ {m} : outbox'[n] = outbox[n],
               UNCHANGED accepted
        PROVE  /\ fates' = [fates EXCEPT ![m] = Fate(m)']
               /\ UNCHANGED mails
    BY <2>2 DEF Fate, Mailed
  <2>3. CASE UNCHANGED <<outbox, accepted>>
    BY <2>1, <2>3 DEF Fate
  <2>4. ASSUME NEW w \in Workers, CommitClaim(w) PROVE UNCHANGED Delivery!vars
    <3>1. ASSUME NEW n \in Messages PROVE Fate(n)' = Fate(n)
      BY <2>0, <2>4 DEF CommitClaim, OpenClaimIsAlone, TypeOK, Working, Claims, Fate
    <3> QED BY <2>1, <2>4, <3>1 DEF CommitClaim
  <2>5. ASSUME NEW w \in Workers, FinalizeSuccess(w) \/ FinalizeSuccessThrows(w)
        PROVE  UNCHANGED Delivery!vars \/ Delivery!Deliver(claim[w].message)
    <3> PICK m \in Messages : m = claim[w].message
      BY <2>0, <2>5 DEF FinalizeSuccess, FinalizeSuccessThrows, TypeOK, Working,
                        Claims
    <3>a. phase[w] = "succeeding" /\ UNCHANGED accepted
      BY <2>5 DEF FinalizeSuccess, FinalizeSuccessThrows
    <3>1. /\ phase[w] \in Working /\ UNCHANGED accepted
          /\ \E r \in accepted : r.message = m
      BY <2>0, <3>a DEF Working, SuccessWasAccepted
    <3>2. \/ UNCHANGED outbox
          \/ /\ \A n \in Messages \ {m} : outbox'[n] = outbox[n]
             /\ outbox[m].status = "processing"
             /\ outbox'[m].status = "delivered"
      <4>1. CASE IfLeased(claim[w], MarkDelivered)
        <5>1. \A n \in Messages : outbox'[n] = outbox[n]
                \/ /\ n = m /\ outbox[m].status = "processing"
                   /\ outbox'[n].status = "delivered"
          BY <2>0, <3>1, <4>1, DeliveredRow DEF HoldsLease
        <5>2. outbox' \in [Messages -> Rows] /\ outbox \in [Messages -> Rows]
          BY <2>0 DEF TypeOK
        <5>3. (\A n \in Messages : outbox'[n] = outbox[n]) => UNCHANGED outbox
          BY <5>2
        <5> QED BY <5>1, <5>3
      <4> QED BY <2>5, <4>1 DEF FinalizeSuccess, FinalizeSuccessThrows
    <3>3. Mailed(m) = 1
      <4>1. accepted \subseteq Requests /\ \A r \in accepted : r.key = r.message
        BY <2>0 DEF TypeOK, KeysNameRows
      <4>2. Cardinality({r \in accepted : r.message = m}) = 1
        BY <3>1, <4>1, MailsOfOneMessage
      <4> QED BY <4>2 DEF Mailed
    <3>4. CASE UNCHANGED outbox
      BY <3>1, <3>4, <2>1 DEF Fate
    <3>5. CASE /\ \A n \in Messages \ {m} : outbox'[n] = outbox[n]
               /\ outbox[m].status = "processing"
               /\ outbox'[m].status = "delivered"
      <4>1. Fate(m) = "queued" /\ Fate(m)' = "delivered"
        BY <3>5 DEF Fate
      <4> QED BY <2>2, <3>1, <3>3, <3>5, <4>1 DEF Delivery!Deliver
    <3> QED BY <3>2, <3>4, <3>5
  <2>6. ASSUME NEW w \in Workers, FinalizeFailure(w)
        PROVE  UNCHANGED Delivery!vars \/ Delivery!GiveUp(claim[w].message)
    <3> PICK m \in Messages : m = claim[w].message
      BY <2>0, <2>6 DEF FinalizeFailure, TypeOK, Working, Claims
    <3>1. /\ phase[w] = "failing" /\ UNCHANGED accepted
          /\ IfLeased(claim[w], MarkFailed)
      BY <2>6 DEF FinalizeFailure
    <3>2. \/ UNCHANGED outbox
          \/ /\ \A n \in Messages \ {m} : outbox'[n] = outbox[n]
             /\ outbox[m].status = "processing"
             /\ outbox'[m].status \in {"retry", "dead_letter"}
      <4>1. \A n \in Messages : outbox'[n] = outbox[n]
                \/ /\ n = m /\ outbox[m].status = "processing"
                   /\ outbox'[n].status = FailedStatus(outbox'[n].attempts)
        BY <2>0, <3>1, FailedRow DEF HoldsLease
      <4>2. outbox'[m] = outbox[m] => UNCHANGED outbox
        BY <2>0, <4>1 DEF TypeOK
      <4> QED BY <4>1, <4>2 DEF FailedStatus
    <3>3. CASE UNCHANGED outbox
      BY <3>1, <3>3, <2>1 DEF Fate
    <3>4. CASE /\ \A n \in Messages \ {m} : outbox'[n] = outbox[n]
               /\ outbox[m].status = "processing"
               /\ outbox'[m].status = "retry"
      BY <2>1, <3>1, <3>4 DEF Fate
    <3>5. CASE /\ \A n \in Messages \ {m} : outbox'[n] = outbox[n]
               /\ outbox[m].status = "processing"
               /\ outbox'[m].status = "dead_letter"
      <4>1. Fate(m) = "queued" /\ Fate(m)' = "dead_letter"
        BY <3>5 DEF Fate
      <4> QED BY <2>2, <3>1, <3>5, <4>1 DEF Delivery!GiveUp
    <3> QED BY <3>2, <3>3, <3>4, <3>5
  <2>7. ASSUME NEW m \in Messages, Enqueue(m) PROVE Delivery!Queue(m)
    <3>1. Fate(m) = "absent" /\ Fate(m)' = "queued"
      BY <2>0, <2>7 DEF Enqueue, TypeOK, Fate
    <3> QED BY <2>0, <2>2, <2>7, <3>1 DEF Enqueue, TypeOK, Delivery!Queue
  <2>8. ASSUME NEW m \in Messages, ExpireLease(m) \/ BecomeDue(m)
        PROVE  UNCHANGED Delivery!vars
    <3>1. ASSUME NEW n \in Messages PROVE outbox'[n].status = outbox[n].status
      BY <2>0, <2>8 DEF ExpireLease, BecomeDue, TypeOK, Rows
    <3> QED BY <2>1, <2>8, <3>1 DEF ExpireLease, BecomeDue, Fate
  <2>9. ASSUME NEW r \in Requests, ProviderAccepts(r)
        PROVE  Delivery!Mail(r.message)
    <3> DEFINE m == r.message
    <3>1. /\ m \in Messages /\ r.key = m /\ outbox[m].status # "absent"
          /\ \A x \in accepted : x.message # m
      BY <2>0, <2>9 DEF ProviderAccepts, Requests, TypeOK, KeysNameRows,
                        OnlyQueuedRowsAreWorked
    <3>2. Mailed(m) = 0
      <4>1. accepted \subseteq Requests /\ \A x \in accepted : x.key = x.message
        BY <2>0 DEF TypeOK, KeysNameRows
      <4>2. Cardinality({x \in accepted : x.message = m}) = 0
        BY <3>1, <4>1, MailsOfOneMessage
      <4> QED BY <4>2 DEF Mailed
    <3>3. Mailed(m)' = 1
      BY <2>0, <2>9, <3>1, MailsOfOneMessage
         DEF TypeOK, KeysNameRows, Mailed, ProviderAccepts
    <3>4. ASSUME NEW n \in Messages \ {m} PROVE Mailed(n)' = Mailed(n)
      BY <2>9 DEF ProviderAccepts, Mailed
    <3>5. mails' = [mails EXCEPT ![m] = 1]
      BY <3>1, <3>3, <3>4
    <3>6. Fate(m) # "absent" /\ UNCHANGED fates
      BY <2>9, <3>1 DEF Fate, ProviderAccepts
    <3> QED BY <3>1, <3>2, <3>5, <3>6 DEF Delivery!Mail
  <2> QED BY <1>2, <2>0, <2>3, <2>4, <2>5, <2>6, <2>7, <2>8, <2>9
          DEF Next, WorkerStep, Clock, vars, SelectCandidate, ReadEnvelopeFails,
              Send, SendSucceeds, SendFails, Restart, Crash, Delivery!Next,
              TypeOK, Working, Claims, Requests, FinalizeSuccess, FinalizeSuccessThrows, FinalizeFailure
<1> QED BY <1>1, <1>2, Invariance, PTL DEF Spec, DeliverySpec, Delivery!Spec
=============================================================================
