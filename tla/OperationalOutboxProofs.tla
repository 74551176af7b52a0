----------------------- MODULE OperationalOutboxProofs -----------------------
(***************************************************************************)
(* The outbox's safety for every number of events, publishers, tokens,     *)
(* attempts and faults.  OutboxInv adds to the checked invariants what ties*)
(* a row's lease columns to its state and a publisher's memory to its      *)
(* program counter: without it a stale publisher could match a row by two  *)
(* absent tokens.                                                          *)
(***************************************************************************)
EXTENDS OperationalOutbox, TLAPS

\* Lease columns exist exactly while a row is leased.
LeaseColumns ==
    \A e \in Events :
        /\ outbox[e].state = "leased" <=> outbox[e].token # Nobody
        /\ outbox[e].live => outbox[e].state = "leased"

\* A publisher that is not idle remembers an event and a real token.
PublisherMemory ==
    \A p \in Publishers : publisher[p].pc # "idle" =>
        publisher[p].event \in Events /\ publisher[p].token \in Tokens

\* The claim a publisher remembers and the one its row stores agree as long as
\* the token does: the budget decision is never taken on a stale count.
RememberedClaimIsCurrent ==
    \A p \in Publishers : publisher[p].pc # "idle" /\
        outbox[publisher[p].event].token = publisher[p].token =>
            /\ outbox[publisher[p].event].attempts = publisher[p].attempts
            /\ outbox[publisher[p].event].owner = p

OutboxInv ==
    /\ OutboxTypeOK
    /\ LeaseColumns
    /\ PublisherMemory
    /\ CanonicalIffPublished
    /\ QuarantineIsEarned
    /\ RememberedClaimIsCurrent

-----------------------------------------------------------------------------

LEMMA CountAttemptBound ==
    ASSUME NEW n \in 0..AttemptLimit
    PROVE  CountAttempt(n) \in 0..AttemptLimit
BY AttemptAssumption, OutboxAssumption DEF CountAttempt

LEMMA InitInv == OutboxInit => OutboxInv
<1> SUFFICES ASSUME OutboxInit PROVE OutboxInv
    OBVIOUS
<1> USE AttemptAssumption, OutboxAssumption DEF OutboxInit, AbsentRow, IdlePublisher
<1>1. OutboxTypeOK
    BY DEF OutboxTypeOK, OutboxRows, OutboxStates, PublisherStates
<1>2. LeaseColumns /\ PublisherMemory
    BY DEF LeaseColumns, PublisherMemory
<1>3. CanonicalIffPublished /\ QuarantineIsEarned /\ RememberedClaimIsCurrent
    BY DEF CanonicalIffPublished, QuarantineIsEarned, RememberedClaimIsCurrent
<1>4. QED
    BY <1>1, <1>2, <1>3 DEF OutboxInv

\* A publisher that forgets its claim keeps every invariant about publishers.
LEMMA ForgetKeeps ==
    ASSUME OutboxInv, NEW p \in Publishers, Forget(p), UNCHANGED <<outbox, canonical>>,
           faults' \in 0..MaxFaults
    PROVE  OutboxInv'
<1> USE AttemptAssumption, OutboxAssumption DEF OutboxInv, Forget, IdlePublisher
<1>1. OutboxTypeOK'
    BY DEF OutboxTypeOK, PublisherStates
<1>2. LeaseColumns'
    BY DEF LeaseColumns
<1>3. PublisherMemory' /\ RememberedClaimIsCurrent'
    BY DEF OutboxTypeOK, PublisherMemory, RememberedClaimIsCurrent
<1>4. CanonicalIffPublished' /\ QuarantineIsEarned'
    BY DEF CanonicalIffPublished, QuarantineIsEarned
<1>5. QED
    BY <1>1, <1>2, <1>3, <1>4

\* The three transactions that take a row out of a lease they hold.
LEMMA SettleKeeps ==
    ASSUME OutboxInv, NEW p \in Publishers, publisher[p].pc = "retained", Fenced(p),
           NEW s \in {"pending", "published", "quarantined"},
           outbox' = [outbox EXCEPT ![publisher[p].event] = Unleased(publisher[p].event, s)],
           canonical' = IF s = "published" THEN canonical \cup {publisher[p].event} ELSE canonical,
           s = "quarantined" =>
               /\ publisher[p].event \notin ValidEvents
               /\ outbox[publisher[p].event].attempts >= AttemptLimit,
           Forget(p), UNCHANGED faults
    PROVE  OutboxInv'
<1> DEFINE e == publisher[p].event
<1> USE AttemptAssumption, OutboxAssumption DEF OutboxInv
<1>1. e \in Events /\ outbox[e].state = "leased"
    BY DEF PublisherMemory, Fenced
<1>2. /\ outbox[e].attempts \in 0..AttemptLimit
      /\ outbox'[e] = [state |-> s, owner |-> Nobody, token |-> Nobody,
                       live |-> FALSE, attempts |-> outbox[e].attempts]
      /\ \A f \in Events \ {e} : outbox'[f] = outbox[f]
    BY <1>1 DEF OutboxTypeOK, OutboxRows, Unleased
<1>3. /\ publisher'[p] = IdlePublisher
      /\ \A q \in Publishers \ {p} : publisher'[q] = publisher[q]
    BY DEF OutboxTypeOK, Forget
<1>4. OutboxTypeOK'
    <2>1. outbox' \in [Events -> OutboxRows]
        BY <1>1, <1>2 DEF OutboxTypeOK, OutboxRows, OutboxStates, Unleased
    <2>2. publisher' \in [Publishers -> PublisherStates]
        BY DEF OutboxTypeOK, PublisherStates, Forget, IdlePublisher
    <2>3. QED
        BY <1>1, <2>1, <2>2 DEF OutboxTypeOK
<1>5. LeaseColumns'
    BY <1>2 DEF LeaseColumns
<1>6. PublisherMemory'
    BY <1>3 DEF PublisherMemory, IdlePublisher
<1>7. CanonicalIffPublished'
    BY <1>1, <1>2 DEF CanonicalIffPublished
<1>8. QuarantineIsEarned'
    BY <1>2 DEF QuarantineIsEarned
<1>9. RememberedClaimIsCurrent'
    BY <1>2, <1>3 DEF RememberedClaimIsCurrent, PublisherMemory, IdlePublisher
<1>10. QED
    BY <1>4, <1>5, <1>6, <1>7, <1>8, <1>9

LEMMA EnqueueKeeps ==
    ASSUME OutboxInv, NEW e \in Events, Enqueue(e)
    PROVE  OutboxInv'
<1> USE AttemptAssumption, OutboxAssumption DEF OutboxInv, Enqueue
<1>1. /\ outbox'[e] = [outbox[e] EXCEPT !.state = "pending"]
      /\ \A f \in Events \ {e} : outbox'[f] = outbox[f]
    BY DEF OutboxTypeOK
<1>2. OutboxTypeOK'
    BY DEF OutboxTypeOK, OutboxRows, OutboxStates
<1>3. LeaseColumns'
    BY <1>1 DEF LeaseColumns, OutboxTypeOK, OutboxRows
<1>4. PublisherMemory'
    BY DEF PublisherMemory
<1>5. CanonicalIffPublished' /\ QuarantineIsEarned'
    BY <1>1 DEF CanonicalIffPublished, QuarantineIsEarned, OutboxTypeOK, OutboxRows
<1>6. RememberedClaimIsCurrent'
    BY <1>1 DEF RememberedClaimIsCurrent, OutboxTypeOK, OutboxRows
<1>7. QED
    BY <1>2, <1>3, <1>4, <1>5, <1>6

LEMMA ExpireKeeps ==
    ASSUME OutboxInv, NEW e \in Events, ExpireOutboxLease(e)
    PROVE  OutboxInv'
<1> USE AttemptAssumption, OutboxAssumption DEF OutboxInv, ExpireOutboxLease
<1>1. /\ outbox'[e] = [outbox[e] EXCEPT !.live = FALSE]
      /\ \A f \in Events \ {e} : outbox'[f] = outbox[f]
    BY DEF OutboxTypeOK
<1>2. OutboxTypeOK'
    <2>1. outbox' \in [Events -> OutboxRows]
        BY DEF OutboxTypeOK, OutboxRows
    <2>2. faults' \in 0..MaxFaults
        BY DEF OutboxTypeOK
    <2>3. QED
        BY <2>1, <2>2 DEF OutboxTypeOK
<1>3. LeaseColumns'
    BY <1>1 DEF LeaseColumns, OutboxTypeOK, OutboxRows
<1>4. PublisherMemory'
    BY DEF PublisherMemory
<1>5. CanonicalIffPublished' /\ QuarantineIsEarned'
    BY <1>1 DEF CanonicalIffPublished, QuarantineIsEarned, OutboxTypeOK, OutboxRows
<1>6. RememberedClaimIsCurrent'
    BY <1>1 DEF RememberedClaimIsCurrent, OutboxTypeOK, OutboxRows
<1>7. QED
    BY <1>2, <1>3, <1>4, <1>5, <1>6

LEMMA ClaimKeeps ==
    ASSUME OutboxInv, NEW p \in Publishers, NEW e \in Events, NEW t \in Tokens, ClaimNext(p, e, t)
    PROVE  OutboxInv'
<1> DEFINE n == CountAttempt(outbox[e].attempts)
<1> USE AttemptAssumption, OutboxAssumption DEF OutboxInv, ClaimNext
<1>1. n \in 0..AttemptLimit
    BY CountAttemptBound DEF OutboxTypeOK, OutboxRows
<1>2. /\ outbox'[e] = [state |-> "leased", owner |-> p, token |-> t, live |-> TRUE, attempts |-> n]
      /\ \A f \in Events \ {e} : outbox'[f] = outbox[f]
      /\ outbox' \in [Events -> OutboxRows]
    BY <1>1 DEF OutboxTypeOK, OutboxRows, OutboxStates
<1>3. /\ publisher'[p] = [pc |-> "claimed", event |-> e, token |-> t, attempts |-> n]
      /\ \A q \in Publishers \ {p} : publisher'[q] = publisher[q]
      /\ publisher' \in [Publishers -> PublisherStates]
    BY <1>1 DEF OutboxTypeOK, PublisherStates
<1> HIDE DEF n, ClaimNext
<1>4. /\ \A f \in Events : outbox[f].token # t
      /\ \A q \in Publishers : publisher[q].token # t
      /\ outbox[e].state \in {"pending", "leased"}
      /\ UNCHANGED <<canonical, faults>>
    BY DEF ClaimNext, FreshToken, Claimable
<1>5. OutboxTypeOK'
    BY <1>2, <1>3, <1>4 DEF OutboxTypeOK
<1>6. LeaseColumns'
    BY <1>2 DEF LeaseColumns
<1>7. PublisherMemory'
    BY <1>3 DEF PublisherMemory
<1>8. CanonicalIffPublished' /\ QuarantineIsEarned'
    BY <1>2, <1>4 DEF CanonicalIffPublished, QuarantineIsEarned
<1>9. RememberedClaimIsCurrent'
    <2> SUFFICES ASSUME NEW q \in Publishers, publisher'[q].pc # "idle",
                        outbox'[publisher'[q].event].token = publisher'[q].token
                 PROVE  /\ outbox'[publisher'[q].event].attempts = publisher'[q].attempts
                        /\ outbox'[publisher'[q].event].owner = q
        BY DEF RememberedClaimIsCurrent
    <2>1. CASE q = p
        BY <1>2, <1>3, <2>1
    <2>2. CASE q # p
        <3>1. publisher'[q] = publisher[q] /\ publisher[q].event \in Events
            BY <1>3, <2>2 DEF PublisherMemory
        <3>2. publisher[q].event # e
            BY <1>2, <1>4, <3>1
        <3>3. QED
            BY <1>2, <3>1, <3>2 DEF RememberedClaimIsCurrent
    <2>3. QED
        BY <2>1, <2>2
<1>10. QED
    BY <1>5, <1>6, <1>7, <1>8, <1>9

LEMMA AssertLeaseKeeps ==
    ASSUME OutboxInv, NEW p \in Publishers, AssertLease(p)
    PROVE  OutboxInv'
<1>1. CASE ~Fenced(p)
    BY <1>1, ForgetKeeps DEF AssertLease, OutboxInv, OutboxTypeOK
<1>2. CASE Fenced(p)
    <2> USE <1>2 DEF AssertLease, OutboxInv
    <2>1. /\ publisher'[p] = [publisher[p] EXCEPT !.pc = "retained"]
          /\ \A q \in Publishers \ {p} : publisher'[q] = publisher[q]
        BY DEF OutboxTypeOK
    <2>2. OutboxTypeOK'
        BY DEF OutboxTypeOK, PublisherStates
    <2>3. LeaseColumns' /\ CanonicalIffPublished' /\ QuarantineIsEarned'
        BY DEF LeaseColumns, CanonicalIffPublished, QuarantineIsEarned
    <2>4. PublisherMemory' /\ RememberedClaimIsCurrent'
        BY <2>1 DEF PublisherMemory, RememberedClaimIsCurrent, OutboxTypeOK, PublisherStates
    <2>5. QED
        BY <2>2, <2>3, <2>4
<1>3. QED
    BY <1>1, <1>2

LEMMA StepKeepsInv == OutboxInv /\ [OutboxNext]_outboxVars => OutboxInv'
<1> SUFFICES ASSUME OutboxInv, [OutboxNext]_outboxVars PROVE OutboxInv'
    OBVIOUS
<1>1. CASE UNCHANGED outboxVars
    BY <1>1 DEF outboxVars, OutboxInv, OutboxTypeOK, LeaseColumns, PublisherMemory,
        CanonicalIffPublished, QuarantineIsEarned, RememberedClaimIsCurrent
<1>2. ASSUME NEW e \in Events, Enqueue(e) PROVE OutboxInv'
    BY <1>2, EnqueueKeeps
<1>3. ASSUME NEW e \in Events, ExpireOutboxLease(e) PROVE OutboxInv'
    BY <1>3, ExpireKeeps
<1>4. ASSUME NEW p \in Publishers, ClaimStep(p) PROVE OutboxInv'
    BY <1>4, ClaimKeeps DEF ClaimStep
<1>5. ASSUME NEW p \in Publishers, AssertLease(p) PROVE OutboxInv'
    BY <1>5, AssertLeaseKeeps
<1>6. ASSUME NEW p \in Publishers, Publish(p) PROVE OutboxInv'
    BY <1>6, SettleKeeps DEF Publish
<1>7. ASSUME NEW p \in Publishers, ReleaseForRetry(p) PROVE OutboxInv'
    BY <1>7, SettleKeeps DEF ReleaseForRetry
<1>8. ASSUME NEW p \in Publishers, Quarantine(p) PROVE OutboxInv'
    BY <1>8, SettleKeeps DEF Quarantine
<1>9. ASSUME NEW p \in Publishers, SettleFenceLost(p) PROVE OutboxInv'
    BY <1>9, ForgetKeeps DEF SettleFenceLost, OutboxInv, OutboxTypeOK
<1>10. ASSUME NEW p \in Publishers, CrashPublisher(p) PROVE OutboxInv'
    <2>1. faults' \in 0..MaxFaults
        BY <1>10, AttemptAssumption, OutboxAssumption DEF CrashPublisher, OutboxInv, OutboxTypeOK
    <2>2. QED
        BY <1>10, <2>1, ForgetKeeps DEF CrashPublisher
<1>11. QED
    BY <1>1, <1>2, <1>3, <1>4, <1>5, <1>6, <1>7, <1>8, <1>9, <1>10
       DEF OutboxNext, OutboxLocal, PublisherStep

\* The strengthened invariant holds in every reachable state of the outbox.
THEOREM OutboxInvariant == OutboxSpec => []OutboxInv
<1>1. OutboxInit => OutboxInv
    BY InitInv
<1>2. OutboxInv /\ [OutboxNext]_outboxVars => OutboxInv'
    BY StepKeepsInv
<1>3. QED
    BY <1>1, <1>2, PTL DEF OutboxSpec

\* Rows, leases and publisher memories always have their types.
THEOREM OutboxTypeCorrect == OutboxSpec => []OutboxTypeOK
<1>1. OutboxInv => OutboxTypeOK
    BY DEF OutboxInv
<1>2. QED
    BY <1>1, OutboxInvariant, PTL

\* publish is atomic: the canonical events are exactly the published rows.
THEOREM PublishingIsAtomic == OutboxSpec => []CanonicalIffPublished
<1>1. OutboxInv => CanonicalIffPublished
    BY DEF OutboxInv
<1>2. QED
    BY <1>1, OutboxInvariant, PTL

\* A sound event is never quarantined, and no event before its last attempt.
THEOREM OnlyUnpublishableGivenUp == OutboxSpec => []QuarantineIsEarned
<1>1. OutboxInv => QuarantineIsEarned
    BY DEF OutboxInv
<1>2. QED
    BY <1>1, OutboxInvariant, PTL

\* While a lease is live no step but its holder's, or the clock's, changes the row.
THEOREM LiveLeaseExclusion == OutboxSpec => LiveLeaseIsExclusive
<1> DEFINE Exclusive ==
      \A e \in Events : outbox[e].live /\ outbox'[e] # outbox[e] =>
          \/ outbox'[e] = [outbox[e] EXCEPT !.live = FALSE]
          \/ \E p \in Publishers : /\ outbox[e].owner = p
                                  /\ publisher[p].token = outbox[e].token
                                  /\ publisher'[p] # publisher[p]
<1>1. OutboxInv /\ [OutboxNext]_outboxVars => [Exclusive]_outboxVars
    <2> SUFFICES ASSUME OutboxInv, OutboxNext, NEW e \in Events,
                        outbox[e].live, outbox'[e] # outbox[e]
                 PROVE  \/ outbox'[e] = [outbox[e] EXCEPT !.live = FALSE]
                        \/ \E p \in Publishers : /\ outbox[e].owner = p
                                                /\ publisher[p].token = outbox[e].token
                                                /\ publisher'[p] # publisher[p]
        BY DEF outboxVars
    <2> USE DEF OutboxInv
    <2>1. outbox[e].state = "leased" /\ outbox \in [Events -> OutboxRows]
        BY DEF LeaseColumns, OutboxTypeOK
    <2>2. ASSUME NEW f \in Events, Enqueue(f) PROVE FALSE
        BY <2>1, <2>2 DEF Enqueue
    <2>3. ASSUME NEW f \in Events, ExpireOutboxLease(f)
          PROVE  outbox'[e] = [outbox[e] EXCEPT !.live = FALSE]
        BY <2>1, <2>3 DEF ExpireOutboxLease
    <2>4. ASSUME NEW p \in Publishers, ClaimStep(p) PROVE FALSE
        BY <2>1, <2>4 DEF ClaimStep, ClaimNext, Claimable
    <2>5. ASSUME NEW p \in Publishers, Publish(p) \/ PublisherStep(p) \/ CrashPublisher(p)
          PROVE  /\ outbox[e].owner = p
                 /\ publisher[p].token = outbox[e].token
                 /\ publisher'[p] # publisher[p]
        <3>1. publisher[p].pc # "idle" /\ Fenced(p) /\ e = publisher[p].event /\ Forget(p)
            BY <2>1, <2>5 DEF Publish, PublisherStep, AssertLease, ReleaseForRetry, Quarantine,
                SettleFenceLost, CrashPublisher
        <3>2. publisher'[p].pc = "idle"
            BY <3>1 DEF Forget, IdlePublisher, OutboxTypeOK
        <3>3. QED
            BY <3>1, <3>2 DEF Fenced
    <2>6. QED
        BY <2>2, <2>3, <2>4, <2>5 DEF OutboxNext, OutboxLocal
<1>2. QED
    BY <1>1, OutboxInvariant, PTL DEF OutboxSpec, LiveLeaseIsExclusive
=============================================================================
