-------------------------- MODULE OperationalOutbox --------------------------
(***************************************************************************)
(* The transactional outbox of lifecycle events and the publishers that    *)
(* turn its rows into immutable canonical events                           *)
(* (src/src/execution/operational-outbox-repository.ts and                 *)
(* operational-outbox-publisher.ts).                                       *)
(*                                                                         *)
(* Every repository call is one database transaction on one row locked FOR *)
(* UPDATE, hence one action.  A publisher is a sequence of such calls with *)
(* memory in between (the claimed event as claimNext returned it), and it  *)
(* may crash, or stall for longer than its lease, between any two of them. *)
(*                                                                         *)
(* Time: lease_expires_at is compared with the database clock inside every *)
(* transaction, so all that matters of it is whether it has passed.  A row *)
(* keeps that as `live'; Expire is the clock passing lease_expires_at, and *)
(* a heartbeat moves lease_expires_at past the clock again.                *)
(*                                                                         *)
(* Lease tokens are random UUIDs: a claim takes one that neither the row   *)
(* nor any publisher knows.  attempt_count is only ever compared with the  *)
(* attempt limit, so it is counted up to that limit and stays there.       *)
(***************************************************************************)
EXTENDS OperationalRows

CONSTANTS
    ValidEvents,   \* the events that publicEvent() accepts
    Publishers,    \* publisher loops, one per spawner instance
    Tokens,        \* lease tokens
    MaxFaults,     \* bound on publisher crashes and stalls
    Nobody         \* SQL NULL in owner_instance_id and lease_token

ASSUME OutboxAssumption ==
    /\ ValidEvents \subseteq Events
    /\ MaxFaults \in Nat
    /\ Nobody \notin Publishers
    /\ Nobody \notin Tokens

VARIABLES
    outbox,     \* operational_outbox, one row per event
    canonical,  \* the event keys in operational_events
    publisher,  \* what each publisher is doing and remembers
    faults      \* crashes and stalls so far

outboxVars == <<outbox, canonical, publisher, faults>>

OutboxStates == {"absent", "pending", "leased", "published", "quarantined"}

OutboxRows == [state : OutboxStates, owner : Publishers \cup {Nobody},
               token : Tokens \cup {Nobody}, live : BOOLEAN,
               attempts : 0..AttemptLimit]

PublisherStates == [pc : {"idle", "claimed", "retained"},
                    event : Events \cup {Nobody}, token : Tokens \cup {Nobody},
                    attempts : 0..AttemptLimit]

IdlePublisher == [pc |-> "idle", event |-> Nobody, token |-> Nobody, attempts |-> 0]

AbsentRow == [state |-> "absent", owner |-> Nobody, token |-> Nobody,
              live |-> FALSE, attempts |-> 0]

OutboxInit ==
    /\ outbox = [e \in Events |-> AbsentRow]
    /\ canonical = {}
    /\ publisher = [p \in Publishers |-> IdlePublisher]
    /\ faults = 0

-----------------------------------------------------------------------------
(* Helpers *)

FreshToken(t) ==
    /\ \A e \in Events : outbox[e].token # t
    /\ \A p \in Publishers : publisher[p].token # t

CountAttempt(n) == IF n < AttemptLimit THEN n + 1 ELSE n

\* The row as every settling UPDATE leaves it: out of its lease, in state s.
Unleased(e, s) == [state |-> s, owner |-> Nobody, token |-> Nobody,
                   live |-> FALSE, attempts |-> outbox[e].attempts]

\* The predicate every fenced transaction re-evaluates under the row lock.
Fenced(p) ==
    LET e == publisher[p].event IN
    /\ outbox[e].state = "leased"
    /\ outbox[e].owner = p
    /\ outbox[e].token = publisher[p].token
    /\ outbox[e].live

\* Mutants of the claim predicate: a live lease is no obstacle; an expired lease
\* is never adopted.
ClaimableThoughLive(e) == outbox[e].state \in {"pending", "leased"}
ClaimableIfPending(e) == outbox[e].state = "pending"

\* A pending row, or a leased one whose lease the clock has passed.
Claimable(e) == \/ outbox[e].state = "pending"
                \/ outbox[e].state = "leased" /\ ~outbox[e].live

Forget(p) == publisher' = [publisher EXCEPT ![p] = IdlePublisher]

-----------------------------------------------------------------------------
(* Actions *)

\* A lifecycle owner inserts the row in its own transaction.  Replaying the
\* insert returns the stored row and changes nothing.
Enqueue(e) ==
    /\ outbox[e].state = "absent"
    /\ outbox' = [outbox EXCEPT ![e].state = "pending"]
    /\ UNCHANGED <<canonical, publisher, faults>>

\* claimNext: lease a claimable row under a new token and count the attempt.
\* The code prefers the oldest row no other transaction has locked; any
\* claimable row may be that one.
ClaimNext(p, e, t) ==
    /\ publisher[p].pc = "idle"
    /\ Claimable(e)
    /\ FreshToken(t)
    /\ LET n == CountAttempt(outbox[e].attempts) IN
       /\ outbox' = [outbox EXCEPT ![e] =
             [state |-> "leased", owner |-> p, token |-> t, live |-> TRUE, attempts |-> n]]
       /\ publisher' = [publisher EXCEPT ![p] =
             [pc |-> "claimed", event |-> e, token |-> t, attempts |-> n]]
    /\ UNCHANGED <<canonical, faults>>

\* assertLease: a live matching lease is extended; otherwise the publisher
\* throws LEASE_FENCE_LOST and its drain ends.
AssertLease(p) ==
    /\ publisher[p].pc = "claimed"
    /\ IF Fenced(p)
       THEN publisher' = [publisher EXCEPT ![p].pc = "retained"]
       ELSE Forget(p)
    /\ UNCHANGED <<outbox, canonical, faults>>

\* Mutant: the settlement of the row is left to another transaction.
PublishWithoutSettling(p) ==
    /\ publisher[p].pc = "retained"
    /\ publisher[p].event \in ValidEvents
    /\ Fenced(p)
    /\ canonical' = canonical \cup {publisher[p].event}
    /\ Forget(p)
    /\ UNCHANGED <<outbox, faults>>

\* publish: the canonical event and the settled outbox row share one commit.
Publish(p) ==
    LET e == publisher[p].event IN
    /\ publisher[p].pc = "retained"
    /\ e \in ValidEvents
    /\ Fenced(p)
    /\ outbox' = [outbox EXCEPT ![e] = Unleased(e, "published")]
    /\ canonical' = canonical \cup {e}
    /\ Forget(p)
    /\ UNCHANGED faults

\* settleFailure with budget left: back to pending.
ReleaseForRetry(p) ==
    LET e == publisher[p].event IN
    /\ publisher[p].pc = "retained"
    /\ e \notin ValidEvents
    /\ publisher[p].attempts < AttemptLimit
    /\ Fenced(p)
    /\ outbox' = [outbox EXCEPT ![e] = Unleased(e, "pending")]
    /\ Forget(p)
    /\ UNCHANGED <<canonical, faults>>

\* Mutant: a spent budget alone condemns the event.
QuarantineOnCount(p) ==
    LET e == publisher[p].event IN
    /\ publisher[p].pc = "retained"
    /\ publisher[p].attempts >= AttemptLimit
    /\ Fenced(p)
    /\ outbox' = [outbox EXCEPT ![e] = Unleased(e, "quarantined")]
    /\ Forget(p)
    /\ UNCHANGED <<canonical, faults>>

\* settleFailure with the budget spent.  The decision is taken on the attempt
\* count remembered from the claim; the transaction checks the stored one.
Quarantine(p) ==
    LET e == publisher[p].event IN
    /\ publisher[p].pc = "retained"
    /\ e \notin ValidEvents
    /\ publisher[p].attempts >= AttemptLimit
    /\ Fenced(p)
    /\ outbox[e].attempts >= AttemptLimit
    /\ outbox' = [outbox EXCEPT ![e] = Unleased(e, "quarantined")]
    /\ Forget(p)
    /\ UNCHANGED <<canonical, faults>>

\* The fence was lost between assertLease and the settling transaction, which
\* throws and rolls back.
SettleFenceLost(p) ==
    /\ publisher[p].pc = "retained"
    /\ ~Fenced(p)
    /\ Forget(p)
    /\ UNCHANGED <<outbox, canonical, faults>>

\* The spawner process dies; its successor remembers nothing.
CrashPublisher(p) ==
    /\ publisher[p].pc # "idle"
    /\ faults < MaxFaults
    /\ faults' = faults + 1
    /\ Forget(p)
    /\ UNCHANGED <<outbox, canonical>>

\* The database clock passes lease_expires_at.  While the holder is still at
\* work that means it stalled for a whole lease, which counts as a fault.
ExpireOutboxLease(e) ==
    /\ outbox[e].state = "leased"
    /\ outbox[e].live
    /\ IF \E p \in Publishers : publisher[p].token = outbox[e].token
       THEN faults < MaxFaults /\ faults' = faults + 1
       ELSE UNCHANGED faults
    /\ outbox' = [outbox EXCEPT ![e].live = FALSE]
    /\ UNCHANGED <<canonical, publisher>>

\* Everything but Publish, which the composition joins with the deliveries.
PublisherStep(p) == AssertLease(p) \/ ReleaseForRetry(p) \/ Quarantine(p) \/ SettleFenceLost(p)

ClaimStep(p) == \E e \in Events, t \in Tokens : ClaimNext(p, e, t)

OutboxLocal ==
    \/ \E e \in Events : Enqueue(e) \/ ExpireOutboxLease(e)
    \/ \E p \in Publishers : ClaimStep(p) \/ PublisherStep(p) \/ CrashPublisher(p)

OutboxNext == OutboxLocal \/ \E p \in Publishers : Publish(p)

\* A spawner polls its outbox for ever and a claimed event is worked on until
\* the drain settles it or throws; a lease nobody extends runs out.
OutboxFairness ==
    /\ \A p \in Publishers : WF_outboxVars(ClaimStep(p)) /\ WF_outboxVars(PublisherStep(p) \/ Publish(p))
    /\ \A e \in Events : WF_outboxVars(ExpireOutboxLease(e))

OutboxSpec == OutboxInit /\ [][OutboxNext]_outboxVars /\ OutboxFairness

-----------------------------------------------------------------------------
(* Properties *)

OutboxTypeOK ==
    /\ outbox \in [Events -> OutboxRows]
    /\ canonical \subseteq Events
    /\ publisher \in [Publishers -> PublisherStates]
    /\ faults \in 0..MaxFaults

\* Publishing is atomic: an event is canonical exactly when its outbox row is
\* settled as published, whatever crashed and whoever adopted the lease.
CanonicalIffPublished ==
    \A e \in Events : e \in canonical <=> outbox[e].state = "published"

\* Only an event the publisher can never publish is given up, and only after
\* the whole budget of claims; a sound event is never quarantined by the
\* crashes and stalls of the publishers that held it.
QuarantineIsEarned ==
    \A e \in Events : outbox[e].state = "quarantined" =>
        e \notin ValidEvents /\ outbox[e].attempts = AttemptLimit

\* A live lease is exclusive: until the clock passes it, nobody but the
\* publisher that took it changes the row, neither a claimant nor a stale
\* publisher that held the row before.
LiveLeaseIsExclusive ==
    [][\A e \in Events : outbox[e].live /\ outbox'[e] # outbox[e] =>
          \/ outbox'[e] = [outbox[e] EXCEPT !.live = FALSE]
          \/ \E p \in Publishers : /\ outbox[e].owner = p
                                  /\ publisher[p].token = outbox[e].token
                                  /\ publisher'[p] # publisher[p]]_outboxVars
=============================================================================
