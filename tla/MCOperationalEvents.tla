------------------------ MODULE MCOperationalEvents ------------------------
(* One event, sound or unpublishable, from its enqueue to its consumer: two *)
(* publishers, and the consumer loops of two spawner instances.  Different  *)
(* events share no row, lease or budget.                                    *)
EXTENDS OperationalEvents

CONSTANTS e1, e2, p1, p2, w1, w2, t1, t2, t3

MCEvents == {e1, e2}
MCValidEvents == {e1}
MCConsumers == {"webhook"}
MCPublishers == {p1, p2}
MCWorkers == {w1, w2}
MCConsumerOf == [w \in MCWorkers |-> "webhook"]
MCTokens == {t1, t2, t3}

Enqueued == {e \in Events : outbox[e].state # "absent"}

MCNext == Next /\ \A e, f \in Enqueued' : e = f

MCSpec == Init /\ [][MCNext]_vars /\ Fairness
=============================================================================
