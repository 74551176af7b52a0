----------------------- MODULE OperationalEventsProofs -----------------------
(***************************************************************************)
(* The safety of the deliveries, and of the whole of outbox and deliveries *)
(* as the ledger of events and duties, for every number of events,         *)
(* consumers, workers, tokens, attempts and faults.                        *)
(*                                                                         *)
(* What makes it work is that an attempt has one worker: no two workers    *)
(* remember the same attempt of the same delivery (OneWorkerPerAttempt),   *)
(* since a claim counts the row's attempts past all that are remembered.   *)
(* So a superseded worker, however late, calls the sink and answers under  *)
(* an attempt that is its own, and the row has moved past it.              *)
(***************************************************************************)
EXTENDS OperationalEvents, OperationalOutboxProofs

\* Lease columns exist exactly while a delivery is leased.
DeliveryLeases ==
    \A d \in Deliveries :
        /\ delivery[d].state = "leased" <=> delivery[d].token # None
        /\ delivery[d].live => delivery[d].state = "leased"

\* A worker that is not idle remembers a claim that was made and counted.
WorkerMemory ==
    \A w \in Workers : worker[w].pc # "idle" =>
        /\ worker[w].d \in Deliveries
        /\ worker[w].token \in LeaseTokens
        /\ worker[w].attempts > 0
        /\ worker[w].attempts <= delivery[worker[w].d].attempts

\* As long as the token matches, the row is still as the worker's claim left it.
ClaimIsCurrent ==
    \A w \in Workers :
        worker[w].pc # "idle" /\ delivery[worker[w].d].token = worker[w].token =>
            delivery[worker[w].d].attempts = worker[w].attempts

OneWorkerPerAttempt ==
    \A v, w \in Workers :
        /\ worker[v].pc # "idle" /\ worker[w].pc # "idle"
        /\ worker[v].d = worker[w].d /\ worker[v].attempts = worker[w].attempts
        => v = w

\* The sink was not called yet under the attempt of a worker that is about to
\* call it, and has answered the one that is about to settle.
SinkProgress ==
    \A w \in Workers :
        /\ worker[w].pc \in {"claimed", "sink"} =>
              sinkCalls[worker[w].d][worker[w].attempts] = 0
        /\ worker[w].pc \in {"answered", "settle"} =>
              sinkAnswer[worker[w].d][worker[w].attempts] \in Outcomes

\* Who still works on a delivery that has its receipt works on an older attempt.
ReceiptOutlivesWorkers ==
    \A w \in Workers :
        worker[w].pc # "idle" /\ delivery[worker[w].d].state \in Outcomes =>
            worker[w].attempts < delivery[worker[w].d].attempts

DeliveryInv ==
    /\ DeliveryTypeOK
    /\ DeliveryLeases
    /\ WorkerMemory
    /\ ClaimIsCurrent
    /\ OneWorkerPerAttempt
    /\ SinkProgress
    /\ ReceiptOutlivesWorkers
    /\ OneSinkCallPerAttempt
    /\ ReceiptIsOfLastClaim

\* Nothing is owed for an event that is not canonical.
OwedForCanonical ==
    \A d \in Deliveries : delivery[d].state # "absent" => outbox[d[1]].state = "published"

EventsInv == OutboxInv /\ DeliveryInv /\ OwedForCanonical

-----------------------------------------------------------------------------
(* Steps that leave the rows or the workers alone *)

LEMMA InitDeliveries == DeliveryInit => DeliveryInv
<1> SUFFICES ASSUME DeliveryInit PROVE DeliveryInv
    OBVIOUS
<1> USE AttemptAssumption, DeliveryAssumption DEF DeliveryInit, IdleWorker
<1>1. DeliveryTypeOK
    BY DEF DeliveryTypeOK, DeliveryRows, WorkerStates, Answers, Attempts
<1>2. DeliveryLeases /\ WorkerMemory /\ ClaimIsCurrent /\ OneWorkerPerAttempt
    BY DEF DeliveryLeases, WorkerMemory, ClaimIsCurrent, OneWorkerPerAttempt
<1>3. SinkProgress /\ ReceiptOutlivesWorkers
    BY DEF SinkProgress, ReceiptOutlivesWorkers
<1>4. OneSinkCallPerAttempt /\ ReceiptIsOfLastClaim
    BY DEF OneSinkCallPerAttempt, ReceiptIsOfLastClaim, Attempts, Outcomes
<1>5. QED
    BY <1>1, <1>2, <1>3, <1>4 DEF DeliveryInv

\* A worker that moves on within its attempt, or gives it up, without a call.
LEMMA WorkerMoves ==
    ASSUME DeliveryInv, NEW w \in Workers, worker[w].pc # "idle",
           NEW pc \in {"idle", "sink", "answered", "settle", "failed", "giveup"},
           worker' = [worker EXCEPT ![w] =
                         IF pc = "idle" THEN IdleWorker ELSE [worker[w] EXCEPT !.pc = pc]],
           pc = "sink" => worker[w].pc = "claimed",
           pc \in {"answered", "settle"} => worker[w].pc = "answered",
           UNCHANGED <<delivery, sinkCalls, sinkAnswer>>
    PROVE  DeliveryInv'
<1> USE AttemptAssumption, DeliveryAssumption DEF DeliveryInv
<1>1. worker'[w] = IF pc = "idle" THEN IdleWorker
                   ELSE [pc |-> pc, d |-> worker[w].d, token |-> worker[w].token,
                         attempts |-> worker[w].attempts]
    BY DEF DeliveryTypeOK, WorkerStates
<1>2. \A v \in Workers \ {w} : worker'[v] = worker[v]
    BY DEF DeliveryTypeOK
<1>3. DeliveryTypeOK'
    BY <1>1 DEF DeliveryTypeOK, WorkerStates, IdleWorker
<1>4. WorkerMemory' /\ ClaimIsCurrent' /\ OneWorkerPerAttempt'
    BY <1>1, <1>2 DEF WorkerMemory, ClaimIsCurrent, OneWorkerPerAttempt, IdleWorker
<1>5. SinkProgress' /\ ReceiptOutlivesWorkers'
    BY <1>1, <1>2 DEF SinkProgress, ReceiptOutlivesWorkers, IdleWorker
<1>6. DeliveryLeases' /\ OneSinkCallPerAttempt' /\ ReceiptIsOfLastClaim'
    BY DEF DeliveryLeases, OneSinkCallPerAttempt, ReceiptIsOfLastClaim
<1>7. QED
    BY <1>3, <1>4, <1>5, <1>6

\* Rows that leave their lease, lose it to the clock or come into being keep
\* their attempts; a receipt is written only where the sink gave that answer to
\* the row's last attempt, whose worker ends with it.
LEMMA RowsMove ==
    ASSUME DeliveryInv,
           delivery' \in [Deliveries -> DeliveryRows],
           DeliveryLeases',
           \A d \in Deliveries : delivery'[d].attempts = delivery[d].attempts,
           \A d \in Deliveries : delivery'[d].token \in {None, delivery[d].token},
           \A d \in Deliveries : delivery'[d].state \in Outcomes =>
               \/ delivery[d].state = delivery'[d].state
               \/ /\ delivery[d].attempts > 0
                  /\ sinkAnswer[d][delivery[d].attempts] = delivery'[d].state
                  /\ \A v \in Workers : worker'[v].pc # "idle" /\ worker[v].d = d =>
                         worker[v].attempts # delivery[d].attempts,
           \A v \in Workers : worker'[v] = worker[v] \/ worker'[v] = IdleWorker,
           worker' \in [Workers -> WorkerStates],
           UNCHANGED <<sinkCalls, sinkAnswer>>
    PROVE  DeliveryInv'
<1> USE AttemptAssumption, DeliveryAssumption DEF DeliveryInv
<1>1. DeliveryTypeOK'
    BY DEF DeliveryTypeOK
<1>2. ASSUME NEW v \in Workers, worker'[v].pc # "idle"
      PROVE  worker'[v] = worker[v] /\ worker[v].d \in Deliveries /\ worker[v].pc # "idle"
    BY <1>2 DEF IdleWorker, WorkerMemory
<1>3. WorkerMemory' /\ OneWorkerPerAttempt'
    BY <1>2 DEF WorkerMemory, OneWorkerPerAttempt
<1>4. ClaimIsCurrent'
    BY <1>2 DEF ClaimIsCurrent, WorkerMemory
<1>5. SinkProgress'
    BY <1>2 DEF SinkProgress, IdleWorker
<1>6. ReceiptOutlivesWorkers'
  <2> SUFFICES ASSUME NEW v \in Workers, worker'[v].pc # "idle",
                      delivery'[worker'[v].d].state \in Outcomes
               PROVE  worker'[v].attempts < delivery'[worker'[v].d].attempts
      BY DEF ReceiptOutlivesWorkers
  <2> DEFINE d == worker[v].d
  <2>1. worker'[v] = worker[v] /\ d \in Deliveries /\ worker[v].pc # "idle"
      BY <1>2
  <2>2. worker[v].attempts <= delivery[d].attempts
      BY <2>1 DEF WorkerMemory
  <2>3. worker[v].attempts \in Nat /\ delivery[d].attempts \in Nat
      BY <2>1 DEF DeliveryTypeOK, DeliveryRows, WorkerStates
  <2>4. worker[v].attempts # delivery[d].attempts
      BY <2>1, <2>3 DEF ReceiptOutlivesWorkers
  <2>5. QED
      BY <2>1, <2>2, <2>3, <2>4
<1>7. OneSinkCallPerAttempt'
    BY DEF OneSinkCallPerAttempt
<1>8. ReceiptIsOfLastClaim'
    BY DEF ReceiptIsOfLastClaim
<1>9. QED
    BY <1>1, <1>3, <1>4, <1>5, <1>6, <1>7, <1>8

LEMMA RetainKeeps ==
    ASSUME DeliveryInv, NEW w \in Workers,
           Retain(w) \/ RetainThrows(w) \/ SettleThrows(w) \/ CrashWorker(w)
    PROVE  DeliveryInv'
<1> USE DEF MoveTo, BackToIdle
<1>1. CASE Retain(w)
  <2>1. \/ worker[w].pc = "claimed" /\ MoveTo(w, "sink")
        \/ worker[w].pc = "answered" /\ MoveTo(w, "settle")
        \/ worker[w].pc = "failed" /\ MoveTo(w, "giveup")
    <3>1. worker[w].pc \in {"claimed", "answered", "failed"}
        BY <1>1 DEF Retain
    <3>2. CASE worker[w].pc = "claimed"
        BY <1>1, <3>2 DEF Retain
    <3>3. CASE worker[w].pc = "answered"
        BY <1>1, <3>3 DEF Retain
    <3>4. CASE worker[w].pc = "failed"
        BY <1>1, <3>4 DEF Retain
    <3>5. QED
        BY <3>1, <3>2, <3>3, <3>4
  <2>2. CASE worker[w].pc = "claimed" /\ MoveTo(w, "sink")
      BY <1>1, <2>2, WorkerMoves DEF Retain
  <2>3. CASE worker[w].pc = "answered" /\ MoveTo(w, "settle")
      BY <1>1, <2>3, WorkerMoves DEF Retain
  <2>4. CASE worker[w].pc = "failed" /\ MoveTo(w, "giveup")
      BY <1>1, <2>4, WorkerMoves DEF Retain
  <2>5. QED
      BY <2>1, <2>2, <2>3, <2>4
<1>2. CASE RetainThrows(w)
    BY <1>2, WorkerMoves DEF RetainThrows
<1>3. CASE SettleThrows(w)
    BY <1>3, WorkerMoves DEF SettleThrows
<1>4. CASE CrashWorker(w)
    BY <1>4, WorkerMoves DEF CrashWorker
<1>5. QED
    BY <1>1, <1>2, <1>3, <1>4

\* The sink is called under an attempt nobody else remembers and no receipt
\* stands on.
LEMMA CallKeeps ==
    ASSUME DeliveryInv, NEW w \in Workers, NEW answer \in Outcomes \cup {"error"},
           CallSink(w, answer)
    PROVE  DeliveryInv'
<1> DEFINE d == worker[w].d
           a == worker[w].attempts
           pc == IF answer = "error" THEN "failed" ELSE "answered"
<1> USE AttemptAssumption, DeliveryAssumption DEF DeliveryInv
<1>1. /\ worker[w].pc = "sink" /\ d \in Deliveries /\ a \in Attempts
      /\ a <= delivery[d].attempts /\ delivery[d].attempts \in 0..AttemptLimit
    BY DEF CallSink, WorkerMemory, DeliveryTypeOK, DeliveryRows, WorkerStates, Attempts
<1>2. /\ worker'[w] = [pc |-> pc, d |-> d, token |-> worker[w].token, attempts |-> a]
      /\ \A v \in Workers \ {w} : worker'[v] = worker[v]
    BY DEF CallSink, MoveTo, DeliveryTypeOK, WorkerStates
<1>3. /\ sinkCalls'[d][a] = 1 /\ sinkAnswer'[d][a] = answer
      /\ \A e \in Deliveries, b \in Attempts :
            e # d \/ b # a => sinkCalls'[e][b] = sinkCalls[e][b]
                              /\ sinkAnswer'[e][b] = sinkAnswer[e][b]
  <2>1. sinkCalls[d][a] = 0
      BY <1>1 DEF SinkProgress
  <2>2. QED
      BY <1>1, <2>1 DEF CallSink, DeliveryTypeOK
<1>4. UNCHANGED delivery
    BY DEF CallSink
<1>5. DeliveryTypeOK'
  <2>1. sinkCalls' \in [Deliveries -> [Attempts -> Nat]]
      BY <1>1 DEF CallSink, DeliveryTypeOK
  <2>2. sinkAnswer' \in [Deliveries -> [Attempts -> Answers]]
      BY <1>1 DEF CallSink, DeliveryTypeOK, Answers
  <2>3. worker' \in [Workers -> WorkerStates]
      BY <1>2 DEF CallSink, MoveTo, DeliveryTypeOK, WorkerStates
  <2>4. QED
      BY <1>4, <2>1, <2>2, <2>3 DEF DeliveryTypeOK
<1>6. WorkerMemory' /\ ClaimIsCurrent' /\ OneWorkerPerAttempt' /\ ReceiptOutlivesWorkers'
    BY <1>1, <1>2, <1>4 DEF WorkerMemory, ClaimIsCurrent, OneWorkerPerAttempt,
                            ReceiptOutlivesWorkers
<1>7. SinkProgress'
  <2> SUFFICES ASSUME NEW v \in Workers, v # w, worker[v].pc # "idle"
               PROVE  /\ worker[v].d \in Deliveries /\ worker[v].attempts \in Attempts
                      /\ worker[v].d # d \/ worker[v].attempts # a
      BY <1>1, <1>2, <1>3 DEF SinkProgress
  <2>1. worker[v].d \in Deliveries /\ worker[v].attempts \in Attempts
      BY DEF WorkerMemory, DeliveryTypeOK, WorkerStates, Attempts
  <2>2. QED
      BY <1>1, <2>1 DEF OneWorkerPerAttempt
<1>8. OneSinkCallPerAttempt'
    BY <1>1, <1>3, <1>4 DEF OneSinkCallPerAttempt
<1>9. ReceiptIsOfLastClaim'
  <2> SUFFICES ASSUME NEW e \in Deliveries, delivery[e].state \in Outcomes
               PROVE  /\ delivery[e].attempts > 0
                      /\ sinkAnswer'[e][delivery[e].attempts] = delivery[e].state
      BY <1>4 DEF ReceiptIsOfLastClaim
  <2>1. /\ delivery[e].attempts > 0 /\ delivery[e].attempts \in Attempts
        /\ sinkAnswer[e][delivery[e].attempts] = delivery[e].state
      BY DEF ReceiptIsOfLastClaim, DeliveryTypeOK, DeliveryRows, Attempts
  <2>2. e # d \/ delivery[e].attempts # a
      BY <1>1 DEF ReceiptOutlivesWorkers
  <2>3. QED
      BY <1>3, <2>1, <2>2
<1>10. DeliveryLeases'
    BY <1>4 DEF DeliveryLeases
<1>11. QED
    BY <1>5, <1>6, <1>7, <1>8, <1>9, <1>10

\* A holder of the lease takes the row out of it and ends.
LEMMA HolderReleases ==
    ASSUME DeliveryInv, NEW w \in Workers, worker[w].pc # "idle", HoldsLease(w),
           NEW s \in {"pending"} \cup Settled,
           s \in Outcomes => sinkAnswer[worker[w].d][worker[w].attempts] = s,
           delivery' = [delivery EXCEPT ![worker[w].d] = Released(worker[w].d, s)],
           BackToIdle(w), UNCHANGED <<sinkCalls, sinkAnswer>>
    PROVE  DeliveryInv'
<1> DEFINE d == worker[w].d
<1> USE AttemptAssumption, DeliveryAssumption
<1>1. /\ d \in Deliveries
      /\ worker[w].attempts = delivery[d].attempts /\ delivery[d].attempts > 0
      /\ delivery[d].attempts \in 0..AttemptLimit
    BY DEF DeliveryInv, WorkerMemory, ClaimIsCurrent, HoldsLease, DeliveryTypeOK, DeliveryRows
<1>2. /\ delivery'[d] = [state |-> s, owner |-> None, token |-> None, live |-> FALSE,
                         attempts |-> delivery[d].attempts]
      /\ \A e \in Deliveries : e # d => delivery'[e] = delivery[e]
    BY <1>1 DEF DeliveryInv, DeliveryTypeOK, Released
<1>3. delivery' \in [Deliveries -> DeliveryRows]
    BY <1>1, <1>2 DEF DeliveryInv, DeliveryTypeOK, DeliveryRows, Released, Settled, Outcomes
<1>4. DeliveryLeases'
    BY <1>2 DEF DeliveryInv, DeliveryLeases, Settled, Outcomes
<1>5. /\ \A v \in Workers : worker'[v] = IF v = w THEN IdleWorker ELSE worker[v]
      /\ worker' \in [Workers -> WorkerStates]
    BY DEF BackToIdle, DeliveryInv, DeliveryTypeOK, WorkerStates, IdleWorker
<1>6. \A v \in Workers : worker'[v].pc # "idle" /\ worker[v].d = d =>
          worker[v].attempts # delivery[d].attempts
  <2> SUFFICES ASSUME NEW v \in Workers, worker'[v].pc # "idle", worker[v].d = d,
                      worker[v].attempts = delivery[d].attempts
               PROVE  FALSE
      OBVIOUS
  <2>1. v # w /\ worker[v].pc # "idle"
      BY <1>5 DEF IdleWorker
  <2>2. QED
      BY <1>1, <2>1 DEF DeliveryInv, OneWorkerPerAttempt
<1>7. \A e \in Deliveries : delivery'[e].state \in Outcomes =>
          \/ delivery[e].state = delivery'[e].state
          \/ /\ delivery[e].attempts > 0
             /\ sinkAnswer[e][delivery[e].attempts] = delivery'[e].state
             /\ \A v \in Workers : worker'[v].pc # "idle" /\ worker[v].d = e =>
                    worker[v].attempts # delivery[e].attempts
    BY <1>1, <1>2, <1>6
<1>8. \A e \in Deliveries : /\ delivery'[e].attempts = delivery[e].attempts
                            /\ delivery'[e].token \in {None, delivery[e].token}
    BY <1>1, <1>2
<1>9. QED
    BY <1>3, <1>4, <1>5, <1>7, <1>8, RowsMove

LEMMA SettleDeliveryKeeps ==
    ASSUME DeliveryInv, NEW w \in Workers, Settle(w)
    PROVE  DeliveryInv'
<1>1. sinkAnswer[worker[w].d][worker[w].attempts] \in Outcomes
    BY DEF DeliveryInv, SinkProgress, Settle
<1>2. QED
    BY <1>1, HolderReleases DEF Settle, Settled

LEMMA GiveUpKeeps ==
    ASSUME DeliveryInv, NEW w \in Workers, GiveUp(w)
    PROVE  DeliveryInv'
<1>1. CASE UNCHANGED delivery
    BY <1>1, WorkerMoves DEF GiveUp, BackToIdle
<1>2. ASSUME NEW s \in {"pending", "quarantined"}, HoldsLease(w),
             delivery' = [delivery EXCEPT ![worker[w].d] = Released(worker[w].d, s)]
      PROVE  DeliveryInv'
    BY <1>2, HolderReleases DEF GiveUp, Settled, Outcomes
<1>3. QED
    BY <1>1, <1>2 DEF GiveUp
LEMMA ExpiryKeeps ==
    ASSUME DeliveryInv, NEW d \in Deliveries, ExpireDeliveryLease(d)
    PROVE  DeliveryInv'
<1> USE AttemptAssumption, DeliveryAssumption
<1>1. /\ delivery'[d] = [delivery[d] EXCEPT !.live = FALSE]
      /\ \A e \in Deliveries : e # d => delivery'[e] = delivery[e]
      /\ delivery' \in [Deliveries -> DeliveryRows]
    BY DEF ExpireDeliveryLease, DeliveryInv, DeliveryTypeOK, DeliveryRows
<1>2. \A e \in Deliveries : /\ delivery'[e].state = delivery[e].state
                            /\ delivery'[e].attempts = delivery[e].attempts
                            /\ delivery'[e].token = delivery[e].token
                            /\ delivery'[e].live => delivery[e].live
    BY <1>1 DEF DeliveryInv, DeliveryTypeOK, DeliveryRows
<1>3. DeliveryLeases'
    BY <1>2 DEF DeliveryInv, DeliveryLeases
<1>4. UNCHANGED <<worker, sinkCalls, sinkAnswer>> /\ worker' \in [Workers -> WorkerStates]
    BY DEF ExpireDeliveryLease, DeliveryInv, DeliveryTypeOK
<1>5. QED
    BY <1>1, <1>2, <1>3, <1>4, RowsMove

\* What the sweep of a claim leaves of the rows.
LEMMA SweptRows ==
    ASSUME DeliveryInv, NEW c
    PROVE  /\ Swept(c) \in [Deliveries -> DeliveryRows]
           /\ \A d \in Deliveries :
                 \/ Swept(c)[d] = delivery[d]
                 \/ /\ FinalLeaseExpired(d)
                    /\ Swept(c)[d].state = "quarantined" /\ Swept(c)[d].token = None
                    /\ ~Swept(c)[d].live /\ Swept(c)[d].attempts = delivery[d].attempts
BY DEF Swept, Released, DeliveryInv, DeliveryTypeOK, DeliveryRows, Settled

LEMMA SweepKeeps ==
    ASSUME DeliveryInv, NEW w \in Workers, SweepOnly(w)
    PROVE  DeliveryInv'
<1> USE AttemptAssumption, DeliveryAssumption
<1>1. /\ delivery' \in [Deliveries -> DeliveryRows]
      /\ \A d \in Deliveries :
            \/ delivery'[d] = delivery[d]
            \/ /\ delivery'[d].state = "quarantined" /\ delivery'[d].token = None
               /\ ~delivery'[d].live /\ delivery'[d].attempts = delivery[d].attempts
    BY SweptRows DEF SweepOnly
<1>2. DeliveryLeases'
    BY <1>1 DEF DeliveryInv, DeliveryLeases
<1>3. UNCHANGED <<worker, sinkCalls, sinkAnswer>> /\ worker' \in [Workers -> WorkerStates]
    BY DEF SweepOnly, DeliveryInv, DeliveryTypeOK
<1>4. \A d \in Deliveries : /\ delivery'[d].attempts = delivery[d].attempts
                            /\ delivery'[d].token \in {None, delivery[d].token}
                            /\ delivery'[d].state \in Outcomes =>
                                  delivery[d].state = delivery'[d].state
    BY <1>1 DEF Outcomes
<1>5. QED
    BY <1>1, <1>2, <1>3, <1>4, RowsMove

LEMMA InsertKeeps ==
    ASSUME DeliveryInv, NEW e \in Events, InsertDeliveries(e)
    PROVE  DeliveryInv'
<1> USE AttemptAssumption, DeliveryAssumption
<1>1. \A d \in Deliveries :
          \/ delivery'[d] = delivery[d]
          \/ /\ delivery[d].state = "absent"
             /\ delivery'[d].state = "pending" /\ delivery'[d].token = None
             /\ ~delivery'[d].live /\ delivery'[d].attempts = delivery[d].attempts
    BY DEF InsertDeliveries, Released
<1>2. delivery' \in [Deliveries -> DeliveryRows]
    BY DEF InsertDeliveries, Released, DeliveryInv, DeliveryTypeOK, DeliveryRows
<1>3. DeliveryLeases'
    BY <1>1 DEF DeliveryInv, DeliveryLeases
<1>4. UNCHANGED <<worker, sinkCalls, sinkAnswer>> /\ worker' \in [Workers -> WorkerStates]
    BY DEF InsertDeliveries, DeliveryInv, DeliveryTypeOK
<1>5. \A d \in Deliveries : /\ delivery'[d].attempts = delivery[d].attempts
                            /\ delivery'[d].token \in {None, delivery[d].token}
                            /\ delivery'[d].state \in Outcomes =>
                                  delivery[d].state = delivery'[d].state
    BY <1>1 DEF Outcomes
<1>6. QED
    BY <1>2, <1>3, <1>4, <1>5, RowsMove

\* A claim counts the row's attempts past every attempt that is remembered,
\* under a token that is nowhere else.
LEMMA ClaimDeliveryKeeps ==
    ASSUME DeliveryInv, NEW w \in Workers, NEW d \in Deliveries, NEW t \in LeaseTokens,
           ClaimDelivery(w, d, t)
    PROVE  DeliveryInv'
<1> DEFINE n == delivery[d].attempts + 1
           c == ConsumerOf[w]
<1> USE AttemptAssumption, DeliveryAssumption DEF DeliveryInv
<1>1. /\ delivery[d].attempts < AttemptLimit /\ delivery[d].attempts \in Nat
      /\ n \in Attempts /\ worker[w].pc = "idle"
      /\ delivery[d].state \in {"pending", "leased"}
      /\ \A e \in Deliveries : delivery[e].token # t
      /\ UNCHANGED <<sinkCalls, sinkAnswer>>
    BY DEF ClaimDelivery, DeliveryClaimable, FreshLease, DeliveryTypeOK, DeliveryRows, Attempts
<1>2. /\ delivery'[d] = [state |-> "leased", owner |-> w, token |-> t, live |-> TRUE,
                         attempts |-> n]
      /\ \A e \in Deliveries : e # d => delivery'[e] = Swept(c)[e]
    BY SweptRows DEF ClaimDelivery, NextAttempt
<1>3. /\ worker'[w] = [pc |-> "claimed", d |-> d, token |-> t, attempts |-> n]
      /\ \A v \in Workers \ {w} : worker'[v] = worker[v]
    BY DEF ClaimDelivery, NextAttempt, DeliveryTypeOK
<1>4. \A e \in Deliveries : e # d =>
          \/ delivery'[e] = delivery[e]
          \/ /\ delivery'[e].state = "quarantined" /\ delivery'[e].token = None
             /\ ~delivery'[e].live /\ delivery'[e].attempts = delivery[e].attempts
    BY <1>2, SweptRows
<1>5. \A v \in Workers : worker[v].pc # "idle" =>
          /\ v # w /\ worker[v].d \in Deliveries /\ worker[v].token \in LeaseTokens
          /\ worker[v].token # t
          /\ worker[v].attempts \in Attempts
          /\ worker[v].attempts <= delivery[worker[v].d].attempts
          /\ delivery[worker[v].d].attempts \in Nat
  <2> SUFFICES ASSUME NEW v \in Workers, worker[v].pc # "idle"
               PROVE  /\ v # w /\ worker[v].d \in Deliveries /\ worker[v].token \in LeaseTokens
                      /\ worker[v].token # t
                      /\ worker[v].attempts \in Attempts
                      /\ worker[v].attempts <= delivery[worker[v].d].attempts
                      /\ delivery[worker[v].d].attempts \in Nat
      OBVIOUS
  <2>1. v # w /\ worker[v].token # t
      BY <1>1 DEF ClaimDelivery, FreshLease
  <2>2. /\ worker[v].d \in Deliveries /\ worker[v].token \in LeaseTokens
        /\ worker[v].attempts > 0 /\ worker[v].attempts <= delivery[worker[v].d].attempts
      BY DEF WorkerMemory
  <2>3. worker[v].attempts \in 0..AttemptLimit
      BY DEF DeliveryTypeOK, WorkerStates
  <2>4. delivery[worker[v].d].attempts \in Nat
      BY <2>2 DEF DeliveryTypeOK, DeliveryRows
  <2>5. QED
      BY <2>1, <2>2, <2>3, <2>4 DEF Attempts
<1>6. DeliveryTypeOK'
  <2>1. delivery' \in [Deliveries -> DeliveryRows]
      BY <1>1, SweptRows DEF ClaimDelivery, NextAttempt, DeliveryRows, Attempts
  <2>2. worker' \in [Workers -> WorkerStates]
      BY <1>1 DEF ClaimDelivery, NextAttempt, DeliveryTypeOK, WorkerStates, Attempts
  <2>3. QED
      BY <1>1, <2>1, <2>2 DEF DeliveryTypeOK
<1> HIDE DEF n, c
<1>7. DeliveryLeases'
    BY <1>2, <1>4 DEF DeliveryLeases
<1>8. \A v \in Workers : worker[v].pc # "idle" /\ worker[v].d = d =>
          worker[v].attempts < n
    BY <1>1, <1>5 DEF n, Attempts
<1>9. n > 0 /\ n \in Nat
    BY <1>1 DEF Attempts
<1>10. WorkerMemory'
  <2> SUFFICES ASSUME NEW v \in Workers, worker'[v].pc # "idle"
               PROVE  /\ worker'[v].d \in Deliveries
                      /\ worker'[v].token \in LeaseTokens
                      /\ worker'[v].attempts > 0
                      /\ worker'[v].attempts <= delivery'[worker'[v].d].attempts
      BY DEF WorkerMemory
  <2>1. CASE v = w
      BY <1>2, <1>3, <1>9, <2>1
  <2>2. CASE v # w
    <3>1. worker'[v] = worker[v] /\ worker[v].pc # "idle"
        BY <1>3, <2>2
    <3>2. CASE worker[v].d = d
        BY <1>2, <1>5, <1>8, <1>9, <3>1, <3>2 DEF Attempts
    <3>3. CASE worker[v].d # d
        BY <1>4, <1>5, <3>1, <3>3 DEF Attempts
    <3>4. QED
        BY <3>2, <3>3
  <2>3. QED
      BY <2>1, <2>2
<1>11. ClaimIsCurrent'
  <2> SUFFICES ASSUME NEW v \in Workers, worker'[v].pc # "idle",
                      delivery'[worker'[v].d].token = worker'[v].token
               PROVE  delivery'[worker'[v].d].attempts = worker'[v].attempts
      BY DEF ClaimIsCurrent
  <2>1. CASE v = w
      BY <1>2, <1>3, <2>1
  <2>2. CASE v # w
      BY <1>2, <1>3, <1>4, <1>5, <2>2 DEF ClaimIsCurrent
  <2>3. QED
      BY <2>1, <2>2
<1>12. OneWorkerPerAttempt'
    BY <1>3, <1>5, <1>8, <1>9 DEF OneWorkerPerAttempt, Attempts
<1>13. SinkProgress'
  <2>1. sinkCalls[d][n] = 0
    <3>1. sinkCalls[d][n] <= 0 /\ sinkCalls[d][n] \in Nat
        BY <1>1 DEF OneSinkCallPerAttempt, DeliveryTypeOK, n
    <3>2. QED
        BY <3>1
  <2>2. QED
      BY <1>1, <1>3, <2>1 DEF SinkProgress
<1>14. ReceiptOutlivesWorkers'
    BY <1>2, <1>3, <1>4, <1>5 DEF ReceiptOutlivesWorkers, Outcomes
<1>15. OneSinkCallPerAttempt'
  <2> SUFFICES ASSUME NEW e \in Deliveries, NEW a \in Attempts
               PROVE  sinkCalls[e][a] <= IF a <= delivery'[e].attempts THEN 1 ELSE 0
      BY <1>1 DEF OneSinkCallPerAttempt
  <2>1. sinkCalls[e][a] \in Nat /\ a \in Nat
      BY DEF DeliveryTypeOK, Attempts
  <2>2. CASE e = d
      BY <1>1, <1>2, <2>1, <2>2 DEF OneSinkCallPerAttempt, n
  <2>3. CASE e # d
      BY <1>4, <2>3 DEF OneSinkCallPerAttempt
  <2>4. QED
      BY <2>2, <2>3
<1>16. ReceiptIsOfLastClaim'
    BY <1>1, <1>2, <1>4 DEF ReceiptIsOfLastClaim, Outcomes
<1>17. QED
    BY <1>6, <1>7, <1>10, <1>11, <1>12, <1>13, <1>14, <1>15, <1>16
LEMMA LocalKeeps ==
    ASSUME DeliveryInv, DeliveryLocal
    PROVE  DeliveryInv'
BY RetainKeeps, CallKeeps, SettleDeliveryKeeps, GiveUpKeeps, ExpiryKeeps, SweepKeeps,
   ClaimDeliveryKeeps DEF DeliveryLocal, WorkerStep, ClaimNextDelivery

\* A row only ever moves while its duty is owed.
LEMMA RowsEndOnce ==
    ASSUME DeliveryInv, DeliveryLocal
    PROVE  \A d \in Deliveries :
              \/ delivery'[d].state = delivery[d].state
              \/ /\ delivery[d].state \in {"pending", "leased"}
                 /\ delivery'[d].state \in {"pending", "leased"} \cup Settled
<1> DEFINE Moves(d) == \/ delivery'[d].state = delivery[d].state
                       \/ /\ delivery[d].state \in {"pending", "leased"}
                          /\ delivery'[d].state \in {"pending", "leased"} \cup Settled
<1> SUFFICES ASSUME NEW e \in Deliveries PROVE Moves(e)
    OBVIOUS
<1>1. delivery \in [Deliveries -> DeliveryRows]
    BY DEF DeliveryInv, DeliveryTypeOK
<1>2. ASSUME NEW c PROVE \/ Swept(c)[e].state = delivery[e].state
                        \/ /\ delivery[e].state = "leased"
                           /\ Swept(c)[e].state = "quarantined"
    BY SweptRows DEF FinalLeaseExpired
<1>3. ASSUME NEW w \in Workers, SweepOnly(w) PROVE Moves(e)
    BY <1>2, <1>3 DEF SweepOnly, Settled
<1>4. ASSUME NEW w \in Workers, NEW d \in Deliveries, NEW t \in LeaseTokens,
             ClaimDelivery(w, d, t)
      PROVE  Moves(e)
  <2>1. /\ delivery'[d].state = "leased" /\ delivery[d].state \in {"pending", "leased"}
        /\ e # d => delivery'[e] = Swept(ConsumerOf[w])[e]
      BY <1>4, SweptRows DEF ClaimDelivery, DeliveryClaimable
  <2>2. QED
      BY <1>2, <2>1 DEF Settled
<1>5. ASSUME NEW w \in Workers, Settle(w) PROVE Moves(e)
  <2>1. sinkAnswer[worker[w].d][worker[w].attempts] \in Outcomes
      BY <1>5 DEF DeliveryInv, SinkProgress, Settle
  <2>2. QED
      BY <1>1, <1>5, <2>1 DEF Settle, HoldsLease, Released, Settled
<1>6. ASSUME NEW w \in Workers, GiveUp(w) PROVE Moves(e)
    BY <1>1, <1>6 DEF GiveUp, HoldsLease, Released, Settled
<1>7. ASSUME NEW d \in Deliveries, ExpireDeliveryLease(d) PROVE Moves(e)
    BY <1>1, <1>7 DEF ExpireDeliveryLease, DeliveryRows
<1>8. QED
    BY <1>3, <1>4, <1>5, <1>6, <1>7
       DEF DeliveryLocal, WorkerStep, ClaimNextDelivery, Retain, RetainThrows, SettleThrows,
           CallSink, CrashWorker

-----------------------------------------------------------------------------
(* Outbox and deliveries together *)

\* How far an event is, as the ledger sees it, decides what a step may do to it.
LEMMA OutboxMoves ==
    ASSUME OutboxInv, OutboxLocal
    PROVE  \/ \A e \in Events :
                \/ outbox'[e].state = outbox[e].state
                \/ {outbox[e].state, outbox'[e].state} \subseteq {"pending", "leased"}
           \/ \E e \in Events :
                /\ \A f \in Events : f # e => outbox'[f] = outbox[f]
                /\ \/ outbox[e].state = "absent" /\ outbox'[e].state = "pending"
                   \/ outbox[e].state = "leased" /\ outbox'[e].state = "quarantined"
<1> DEFINE Stays == \A e \in Events :
                        \/ outbox'[e].state = outbox[e].state
                        \/ {outbox[e].state, outbox'[e].state} \subseteq {"pending", "leased"}
           Moves(e) == /\ \A f \in Events : f # e => outbox'[f] = outbox[f]
                       /\ \/ outbox[e].state = "absent" /\ outbox'[e].state = "pending"
                          \/ outbox[e].state = "leased" /\ outbox'[e].state = "quarantined"
<1> USE DEF OutboxInv
<1>1. outbox \in [Events -> OutboxRows]
    BY DEF OutboxTypeOK
<1>2. ASSUME NEW e \in Events, Enqueue(e) PROVE Moves(e)
    BY <1>1, <1>2 DEF Enqueue, OutboxRows
<1>3. ASSUME NEW e \in Events, ExpireOutboxLease(e) PROVE Stays
    BY <1>1, <1>3 DEF ExpireOutboxLease, OutboxRows
<1>4. ASSUME NEW p \in Publishers, NEW e \in Events, NEW t \in Tokens, ClaimNext(p, e, t)
      PROVE  Stays
    BY <1>1, <1>4 DEF ClaimNext, Claimable
<1>5. ASSUME NEW p \in Publishers, publisher[p].pc = "retained"
      PROVE  publisher[p].event \in Events
    BY <1>5 DEF PublisherMemory
<1>6. ASSUME NEW p \in Publishers, ReleaseForRetry(p) PROVE Stays
    BY <1>1, <1>5, <1>6 DEF ReleaseForRetry, Fenced, Unleased
<1>7. ASSUME NEW p \in Publishers, Quarantine(p) PROVE Moves(publisher[p].event)
    BY <1>1, <1>5, <1>7 DEF Quarantine, Fenced, Unleased
<1>8. ASSUME NEW p \in Publishers, AssertLease(p) \/ SettleFenceLost(p) \/ CrashPublisher(p)
      PROVE  Stays
    BY <1>8 DEF AssertLease, SettleFenceLost, CrashPublisher
<1>9. ASSUME NEW p \in Publishers, Quarantine(p) PROVE \E e \in Events : Moves(e)
  <2>1. publisher[p].event \in Events
      BY <1>5, <1>9 DEF Quarantine
  <2>2. QED
      BY <1>7, <1>9, <2>1
<1>10. Stays \/ \E e \in Events : Moves(e)
    BY <1>2, <1>3, <1>4, <1>6, <1>8, <1>9 DEF OutboxLocal, ClaimStep, PublisherStep
<1>11. QED
    BY <1>10

LEMMA PublishMoves ==
    ASSUME OutboxInv, NEW p \in Publishers, Publish(p)
    PROVE  LET e == publisher[p].event IN
           /\ e \in Events
           /\ outbox[e].state = "leased" /\ outbox'[e].state = "published"
           /\ \A f \in Events : f # e => outbox'[f] = outbox[f]
BY DEF OutboxInv, OutboxTypeOK, PublisherMemory, Publish, Fenced, Unleased

\* The transactions of a worker leave the outbox alone, those of a publisher the
\* deliveries; only the publication of an event touches both.
LEMMA EventsStep ==
    ASSUME EventsInv, [Next]_vars
    PROVE  EventsInv'
<1> USE DEF EventsInv
<1>1. CASE UNCHANGED vars
  <2>1. UNCHANGED outboxVars /\ UNCHANGED deliveryVars
      BY <1>1 DEF vars
  <2>2. OutboxInv'
      BY <2>1, StepKeepsInv
  <2>3. DeliveryInv'
      BY <2>1 DEF deliveryVars, DeliveryInv, DeliveryTypeOK, DeliveryLeases, WorkerMemory,
                  ClaimIsCurrent, OneWorkerPerAttempt, SinkProgress, ReceiptOutlivesWorkers,
                  OneSinkCallPerAttempt, ReceiptIsOfLastClaim
  <2>4. OwedForCanonical'
      BY <2>1 DEF outboxVars, deliveryVars, OwedForCanonical
  <2>5. QED
      BY <2>2, <2>3, <2>4
<1>2. CASE OutboxSide
  <2>1. OutboxInv'
      BY <1>2, StepKeepsInv DEF OutboxSide, OutboxNext
  <2>2. UNCHANGED deliveryVars /\ DeliveryInv'
      BY <1>2 DEF OutboxSide, deliveryVars, DeliveryInv, DeliveryTypeOK, DeliveryLeases,
                  WorkerMemory, ClaimIsCurrent, OneWorkerPerAttempt, SinkProgress,
                  ReceiptOutlivesWorkers, OneSinkCallPerAttempt, ReceiptIsOfLastClaim
  <2>3. \A e \in Events : outbox[e].state = "published" => outbox'[e].state = "published"
      BY <1>2, OutboxMoves DEF OutboxSide
  <2>4. OwedForCanonical'
      BY <2>2, <2>3 DEF OwedForCanonical, deliveryVars, Deliveries
  <2>5. QED
      BY <2>1, <2>2, <2>4
<1>3. CASE DeliverySide
  <2>1. OutboxInv'
      BY <1>3, StepKeepsInv DEF DeliverySide
  <2>2. DeliveryInv'
      BY <1>3, LocalKeeps DEF DeliverySide
  <2>3. OwedForCanonical'
      BY <1>3, RowsEndOnce DEF DeliverySide, outboxVars, OwedForCanonical
  <2>4. QED
      BY <2>1, <2>2, <2>3
<1>4. ASSUME NEW p \in Publishers, PublishAndDerive(p)
      PROVE  EventsInv'
  <2> DEFINE e == publisher[p].event
  <2>1. OutboxInv'
      BY <1>4, StepKeepsInv DEF PublishAndDerive, OutboxNext
  <2>2. /\ e \in Events /\ outbox'[e].state = "published"
        /\ \A f \in Events : f # e => outbox'[f] = outbox[f]
      BY <1>4, PublishMoves DEF PublishAndDerive
  <2>3. DeliveryInv'
      BY <1>4, <2>2, InsertKeeps DEF PublishAndDerive
  <2>4. OwedForCanonical'
      BY <1>4, <2>2 DEF PublishAndDerive, InsertDeliveries, OwedForCanonical, Deliveries
  <2>5. QED
      BY <2>1, <2>3, <2>4
<1>5. QED
    BY <1>1, <1>2, <1>3, <1>4 DEF Next

LEMMA EventsInit == Init => EventsInv
BY InitInv, InitDeliveries DEF Init, EventsInv, OwedForCanonical, DeliveryInit

\* The strengthened invariant holds in every reachable state of the composition.
THEOREM EventsInvariant == Spec => []EventsInv
BY EventsInit, EventsStep, PTL DEF Spec

\* The rows of the deliveries, the workers' memories and the sink's history
\* always have their types; no delivery is claimed past its budget.
THEOREM DeliveryTypesHold == Spec => []DeliveryTypeOK
<1>1. EventsInv => DeliveryTypeOK
    BY DEF EventsInv, DeliveryInv
<1>2. QED
    BY <1>1, EventsInvariant, PTL

\* The sink is called once at most under an attempt, and under counted attempts
\* only: no event reaches a consumer's sink more often than the budget says.
THEOREM SinkCalledOnce == Spec => []OneSinkCallPerAttempt
<1>1. EventsInv => OneSinkCallPerAttempt
    BY DEF EventsInv, DeliveryInv
<1>2. QED
    BY <1>1, EventsInvariant, PTL

\* A receipt is the sink's answer to the row's last claim; a superseded worker
\* neither writes it nor changes what it stands for.
THEOREM ReceiptsStand == Spec => []ReceiptIsOfLastClaim
<1>1. EventsInv => ReceiptIsOfLastClaim
    BY DEF EventsInv, DeliveryInv
<1>2. QED
    BY <1>1, EventsInvariant, PTL

-----------------------------------------------------------------------------
(* The ledger of events and duties *)

DutyIn(state) == IF state = "absent" THEN "none"
                 ELSE IF state \in {"pending", "leased"} THEN "owed"
                 ELSE IF state \in {"delivered", "skipped"} THEN "met" ELSE "abandoned"

LedgerIn(state) == IF state = "absent" THEN "unknown"
                   ELSE IF state = "published" THEN "canonical"
                   ELSE IF state = "quarantined" THEN "rejected" ELSE "recorded"

LEMMA DutyByState ==
    /\ DutyOf = [d \in Deliveries |-> DutyIn(delivery[d].state)]
    /\ DutyOf' = [d \in Deliveries |-> DutyIn(delivery'[d].state)]
BY DEF DutyOf, Deliveries, DutyIn

LEMMA LedgerByState ==
    /\ LedgerOf = [e \in Events |-> LedgerIn(outbox[e].state)]
    /\ LedgerOf' = [e \in Events |-> LedgerIn(outbox'[e].state)]
BY DEF LedgerOf, LedgerIn

LEMMA InitLedgerOf == Init => Ledger!Init
BY DutyByState, LedgerByState
   DEF Init, OutboxInit, AbsentRow, DeliveryInit, Ledger!Init, DutyIn, LedgerIn, Deliveries

\* Whatever a worker's transaction ends, it ends duties that were owed.
LEMMA WorkersDischarge ==
    ASSUME EventsInv, DeliverySide
    PROVE  Ledger!Discharge
<1> DEFINE ended == {d \in Deliveries : DutyOf[d] = "owed" /\ DutyOf'[d] # "owed"}
           end == [d \in ended |-> DutyOf'[d]]
<1>1. \A d \in Deliveries :
          \/ DutyOf'[d] = DutyOf[d]
          \/ DutyOf[d] = "owed" /\ DutyOf'[d] \in {"owed", "met", "abandoned"}
    BY RowsEndOnce, DutyByState DEF EventsInv, DeliverySide, DutyIn, Settled, Outcomes
<1>2. ended \in SUBSET {d \in Events \X Consumers : DutyOf[d] = "owed"}
    BY DEF Deliveries
<1>3. end \in [ended -> {"met", "abandoned"}]
    BY <1>1
<1>4. DutyOf' = [d \in Events \X Consumers |-> IF d \in ended THEN end[d] ELSE DutyOf[d]]
    BY <1>1, DutyByState DEF Deliveries
<1>5. LedgerOf' = LedgerOf
    BY LedgerByState DEF DeliverySide, outboxVars
<1> HIDE DEF ended, end
<1>6. QED
    BY <1>2, <1>3, <1>4, <1>5 DEF Ledger!Discharge

\* Only an enqueue and a quarantine show; a claim, a release and a lost lease do not.
LEMMA OutboxRecords ==
    ASSUME EventsInv, OutboxSide
    PROVE  Ledger!Next \/ UNCHANGED Ledger!ledgerVars
<1>1. DutyOf' = DutyOf
    BY DutyByState DEF OutboxSide, deliveryVars
<1>2. CASE \A e \in Events :
              \/ outbox'[e].state = outbox[e].state
              \/ {outbox[e].state, outbox'[e].state} \subseteq {"pending", "leased"}
  <2>1. \A e \in Events : LedgerIn(outbox'[e].state) = LedgerIn(outbox[e].state)
      BY <1>2 DEF LedgerIn
  <2>2. LedgerOf' = LedgerOf
      BY <2>1, LedgerByState
  <2>3. QED
      BY <1>1, <2>2 DEF Ledger!ledgerVars
<1>3. ASSUME NEW e \in Events, \A f \in Events : f # e => outbox'[f] = outbox[f],
             \/ outbox[e].state = "absent" /\ outbox'[e].state = "pending"
             \/ outbox[e].state = "leased" /\ outbox'[e].state = "quarantined"
      PROVE  Ledger!Next
  <2>1. CASE outbox[e].state = "absent"
    <3>1. LedgerOf[e] = "unknown" /\ LedgerOf' = [LedgerOf EXCEPT ![e] = "recorded"]
        BY <1>3, <2>1, LedgerByState DEF LedgerIn
    <3>2. QED
        BY <1>1, <3>1 DEF Ledger!Next, Ledger!Record
  <2>2. CASE outbox[e].state = "leased"
    <3>1. LedgerOf[e] = "recorded" /\ LedgerOf' = [LedgerOf EXCEPT ![e] = "rejected"]
        BY <1>3, <2>2, LedgerByState DEF LedgerIn
    <3>2. QED
        BY <1>1, <3>1 DEF Ledger!Next, Ledger!Reject
  <2>3. QED
      BY <1>3, <2>1, <2>2
<1>4. QED
    BY <1>2, <1>3, OutboxMoves DEF EventsInv, OutboxSide

\* The event becomes canonical and owed by every consumer in one step.
LEMMA PublicationCommits ==
    ASSUME EventsInv, NEW p \in Publishers, PublishAndDerive(p)
    PROVE  Ledger!Next
<1> DEFINE e == publisher[p].event
<1>1. /\ e \in Events
      /\ outbox[e].state = "leased" /\ outbox'[e].state = "published"
      /\ \A f \in Events : f # e => outbox'[f] = outbox[f]
    BY PublishMoves DEF EventsInv, PublishAndDerive
<1>2. LedgerOf[e] = "recorded" /\ LedgerOf' = [LedgerOf EXCEPT ![e] = "canonical"]
    BY <1>1, LedgerByState DEF LedgerIn
<1>3. \A d \in Deliveries : d[1] = e => delivery[d].state = "absent"
    BY <1>1 DEF EventsInv, OwedForCanonical
<1>4. \A d \in Deliveries : /\ d[1] = e => delivery'[d].state = "pending"
                            /\ d[1] # e => delivery'[d] = delivery[d]
    BY <1>3 DEF PublishAndDerive, InsertDeliveries, Released
<1>5. DutyOf' = [d \in Events \X Consumers |-> IF d[1] = e THEN "owed" ELSE DutyOf[d]]
    BY <1>4, DutyByState DEF DutyIn, Deliveries
<1>6. QED
    BY <1>1, <1>2, <1>5 DEF Ledger!Next, Ledger!Commit

LEMMA LedgerStep ==
    EventsInv /\ [Next]_vars => [Ledger!Next]_(Ledger!ledgerVars)
<1> SUFFICES ASSUME EventsInv, [Next]_vars
             PROVE  Ledger!Next \/ UNCHANGED Ledger!ledgerVars
    OBVIOUS
<1>1. CASE UNCHANGED vars
    BY <1>1, DutyByState, LedgerByState DEF vars, outboxVars, deliveryVars, Ledger!ledgerVars
<1>2. CASE OutboxSide
    BY <1>2, OutboxRecords
<1>3. CASE DeliverySide
    BY <1>3, WorkersDischarge DEF Ledger!Next
<1>4. ASSUME NEW p \in Publishers, PublishAndDerive(p)
      PROVE  Ledger!Next
    BY <1>4, PublicationCommits
<1>5. QED
    BY <1>1, <1>2, <1>3, <1>4 DEF Next

\* Through every crash, adopted lease and late answer, outbox and deliveries
\* implement the ledger: recorded, canonical with every duty owed at once, and
\* each duty ended once.
THEOREM LedgerImplemented == Spec => ImplementsLedger
BY InitLedgerOf, LedgerStep, EventsInvariant, PTL DEF Spec, ImplementsLedger, Ledger!Spec
=============================================================================
