-------------------------- MODULE OperationalEvents --------------------------
(***************************************************************************)
(* The outbox and the deliveries as one system.  They meet in one database *)
(* transaction: publish makes the event canonical, settles its outbox row  *)
(* and inserts the delivery of every consumer.  Every other step belongs to*)
(* one side and leaves the other alone.                                    *)
(***************************************************************************)
EXTENDS OperationalOutbox, OperationalDelivery

vars == <<outboxVars, deliveryVars>>

Init == OutboxInit /\ DeliveryInit

\* Mutant: the deliveries are left to another transaction.
PublishOnly(p) == Publish(p) /\ UNCHANGED deliveryVars

\* createOperationalOutboxRepository.publish, whole.
PublishAndDerive(p) ==
    /\ Publish(p)
    /\ InsertDeliveries(publisher[p].event)

OutboxSide == OutboxLocal /\ UNCHANGED deliveryVars

DeliverySide == DeliveryLocal /\ UNCHANGED outboxVars

Next == OutboxSide \/ DeliverySide \/ \E p \in Publishers : PublishAndDerive(p)

\* The spawner drains both tables on every poll, a process that does not crash
\* goes on, and a lease nobody extends runs out.
Fairness ==
    /\ \A p \in Publishers :
          /\ WF_vars(ClaimStep(p) /\ UNCHANGED deliveryVars)
          /\ WF_vars(\/ PublisherStep(p) /\ UNCHANGED deliveryVars
                     \/ PublishAndDerive(p))
    /\ \A e \in Events : WF_vars(ExpireOutboxLease(e) /\ UNCHANGED deliveryVars)
    /\ \A w \in Workers :
          /\ WF_vars(ClaimNextDelivery(w) /\ UNCHANGED outboxVars)
          /\ WF_vars(WorkerStep(w) /\ UNCHANGED outboxVars)
    /\ \A d \in Deliveries :
          WF_vars(ExpireDeliveryLease(d) /\ UNCHANGED outboxVars)

Spec == Init /\ [][Next]_vars /\ Fairness

-----------------------------------------------------------------------------
(* The promise, and the refinement *)

LedgerOf == [e \in Events |->
    CASE outbox[e].state = "absent"      -> "unknown"
      [] outbox[e].state = "published"   -> "canonical"
      [] outbox[e].state = "quarantined" -> "rejected"
      [] OTHER                           -> "recorded"]

DutyOf == [d \in Events \X Consumers |->
    CASE delivery[d].state = "absent"                   -> "none"
      [] delivery[d].state \in {"pending", "leased"}    -> "owed"
      [] delivery[d].state \in {"delivered", "skipped"} -> "met"
      [] OTHER                                          -> "abandoned"]

Ledger == INSTANCE EventLedger WITH ledger <- LedgerOf, duty <- DutyOf

\* Through every crash, adopted lease and late answer the two tables only ever
\* move as the ledger of events and duties does.
ImplementsLedger == Ledger!Spec

\* A sound event is published and reaches the end of every consumer's duty, an
\* unpublishable one is given up, however often leases change hands.
RecordedEventIsHandedOn ==
    \A e \in Events : outbox[e].state = "pending" ~>
        IF e \in ValidEvents
        THEN \A c \in Consumers : delivery[<<e, c>>].state \in Settled
        ELSE outbox[e].state = "quarantined"
=============================================================================
