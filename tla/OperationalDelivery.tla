------------------------- MODULE OperationalDelivery -------------------------
(***************************************************************************)
(* The durable deliveries derived from canonical events, and the consumers *)
(* that hand each of them to its sink (the JSONL projection or the webhook)*)
(* (src/src/execution/operational-event-delivery-repository.ts and         *)
(* operational-event-delivery-consumer.ts).                                *)
(*                                                                         *)
(* The sink is outside the database: its effect may land without an answer,*)
(* and the worker may crash or lose its lease before it records the answer.*)
(* What bounds the effects is the attempt budget alone, so the model counts*)
(* the sink calls made under every attempt of every delivery.              *)
(*                                                                         *)
(* Leases, tokens and the clock are as in OperationalOutbox.               *)
(***************************************************************************)
EXTENDS OperationalRows

CONSTANTS
    Consumers,     \* {"jsonl", "webhook"}
    Workers,       \* consumer loops: each spawner instance runs one per consumer
    ConsumerOf,    \* the consumer a worker serves
    LeaseTokens,   \* lease tokens
    None           \* SQL NULL in owner_instance_id and lease_token

ASSUME DeliveryAssumption ==
    /\ ConsumerOf \in [Workers -> Consumers]
    /\ None \notin Workers
    /\ None \notin LeaseTokens

VARIABLES
    delivery,   \* operational_event_deliveries
    worker,     \* what each consumer loop is doing and remembers
    sinkCalls,  \* sink calls made under each attempt of each delivery
    sinkAnswer  \* what the sink answered under each attempt

deliveryVars == <<delivery, worker, sinkCalls, sinkAnswer>>

Deliveries == Events \X Consumers

Attempts == 1..AttemptLimit

Outcomes == {"delivered", "skipped"}

Answers == Outcomes \cup {"none", "error"}

Settled == Outcomes \cup {"quarantined"}

DeliveryRows == [state : {"absent", "pending", "leased"} \cup Settled,
                 owner : Workers \cup {None}, token : LeaseTokens \cup {None},
                 live : BOOLEAN, attempts : 0..AttemptLimit]

WorkerStates == [pc : {"idle", "claimed", "sink", "answered", "settle", "failed", "giveup"},
                 d : Deliveries \cup {None}, token : LeaseTokens \cup {None},
                 attempts : 0..AttemptLimit]

IdleWorker == [pc |-> "idle", d |-> None, token |-> None, attempts |-> 0]

DeliveryInit ==
    /\ delivery = [d \in Deliveries |-> [state |-> "absent", owner |-> None, token |-> None,
                                         live |-> FALSE, attempts |-> 0]]
    /\ worker = [w \in Workers |-> IdleWorker]
    /\ sinkCalls = [d \in Deliveries |-> [a \in Attempts |-> 0]]
    /\ sinkAnswer = [d \in Deliveries |-> [a \in Attempts |-> "none"]]

-----------------------------------------------------------------------------
(* Helpers *)

FreshLease(t) ==
    /\ \A d \in Deliveries : delivery[d].token # t
    /\ \A w \in Workers : worker[w].token # t

\* The row out of its lease, in state s.
Released(d, s) == [state |-> s, owner |-> None, token |-> None,
                   live |-> FALSE, attempts |-> delivery[d].attempts]

\* Mutant: any live lease will do.
HoldsSomeLease(w) == delivery[worker[w].d].state = "leased" /\ delivery[worker[w].d].live

\* The predicate every fenced transaction re-evaluates under the row lock.
HoldsLease(w) ==
    LET d == worker[w].d IN
    /\ delivery[d].state = "leased"
    /\ delivery[d].owner = w
    /\ delivery[d].token = worker[w].token
    /\ delivery[d].live

\* Mutant: no sweep.
NoLeaseSwept(d) == FALSE

\* The last bounded attempt was taken and its lease ran out.
FinalLeaseExpired(d) ==
    /\ delivery[d].state = "leased"
    /\ ~delivery[d].live
    /\ delivery[d].attempts >= AttemptLimit

\* The sweep that opens every claimNext of consumer c.
Swept(c) == [d \in Deliveries |->
    IF d[2] = c /\ FinalLeaseExpired(d) THEN Released(d, "quarantined") ELSE delivery[d]]

\* Mutants of the claim predicate: no budget; a settled delivery is reclaimed.
ClaimableOverBudget(d) == \/ delivery[d].state = "pending"
                          \/ delivery[d].state = "leased" /\ ~delivery[d].live
ReclaimableSettled(d) == /\ delivery[d].state # "absent"
                         /\ ~delivery[d].live
                         /\ delivery[d].attempts < AttemptLimit

DeliveryClaimable(d) ==
    /\ delivery[d].attempts < AttemptLimit
    /\ \/ delivery[d].state = "pending"
       \/ delivery[d].state = "leased" /\ ~delivery[d].live

\* Mutant: adopting an expired lease continues its attempt.
AttemptOfRetry(d) == IF delivery[d].state = "pending" THEN delivery[d].attempts + 1
                     ELSE delivery[d].attempts

NextAttempt(d) == delivery[d].attempts + 1

BackToIdle(w) == worker' = [worker EXCEPT ![w] = IdleWorker]

MoveTo(w, pc) == worker' = [worker EXCEPT ![w].pc = pc]

-----------------------------------------------------------------------------
(* Actions *)

\* OperationalOutbox.Publish inserts one pending delivery per consumer;
\* ON CONFLICT DO NOTHING leaves a row that is already there alone.
InsertDeliveries(e) ==
    /\ delivery' = [d \in Deliveries |->
          IF d[1] = e /\ delivery[d].state = "absent" THEN Released(d, "pending") ELSE delivery[d]]
    /\ UNCHANGED <<worker, sinkCalls, sinkAnswer>>

\* claimNext: sweep, then lease one claimable delivery of the worker's consumer.
ClaimDelivery(w, d, t) ==
    /\ worker[w].pc = "idle"
    /\ d[2] = ConsumerOf[w]
    /\ DeliveryClaimable(d)
    /\ FreshLease(t)
    /\ LET n == NextAttempt(d) IN
       /\ delivery' = [Swept(ConsumerOf[w]) EXCEPT ![d] =
             [state |-> "leased", owner |-> w, token |-> t, live |-> TRUE, attempts |-> n]]
       /\ worker' = [worker EXCEPT ![w] = [pc |-> "claimed", d |-> d, token |-> t, attempts |-> n]]
    /\ UNCHANGED <<sinkCalls, sinkAnswer>>

\* claimNext with nothing to claim: the sweep commits and the drain ends.
SweepOnly(w) ==
    /\ worker[w].pc = "idle"
    /\ ~\E d \in Deliveries : d[2] = ConsumerOf[w] /\ DeliveryClaimable(d)
    /\ delivery' = Swept(ConsumerOf[w])
    /\ UNCHANGED <<worker, sinkCalls, sinkAnswer>>

\* retain: the heartbeat before the sink, before the settlement, and in the
\* handler of a failure.
Retain(w) ==
    LET kept == [claimed |-> "sink", answered |-> "settle", failed |-> "giveup"] IN
    /\ worker[w].pc \in DOMAIN kept
    /\ HoldsLease(w)
    /\ MoveTo(w, kept[worker[w].pc])
    /\ UNCHANGED <<delivery, sinkCalls, sinkAnswer>>

\* retain throws, on a lost fence or a failed transaction.  Only the second of
\* the three is inside the try block; the other two end the drain.
RetainThrows(w) ==
    /\ worker[w].pc \in {"claimed", "answered", "failed"}
    /\ IF worker[w].pc = "answered" THEN MoveTo(w, "failed") ELSE BackToIdle(w)
    /\ UNCHANGED <<delivery, sinkCalls, sinkAnswer>>

\* The sink is called and answers, or throws.  A call that throws may have had
\* its effect all the same.
CallSink(w, answer) ==
    LET d == worker[w].d
        a == worker[w].attempts
    IN
    /\ worker[w].pc = "sink"
    /\ sinkCalls' = [sinkCalls EXCEPT ![d][a] = @ + 1]
    /\ sinkAnswer' = [sinkAnswer EXCEPT ![d][a] = answer]
    /\ MoveTo(w, IF answer = "error" THEN "failed" ELSE "answered")
    /\ UNCHANGED delivery

\* settle: record the sink's answer.
Settle(w) ==
    LET d == worker[w].d IN
    /\ worker[w].pc = "settle"
    /\ HoldsLease(w)
    /\ delivery' = [delivery EXCEPT ![d] = Released(d, sinkAnswer[d][worker[w].attempts])]
    /\ BackToIdle(w)
    /\ UNCHANGED <<sinkCalls, sinkAnswer>>

\* settle throws into the handler, on a lost fence or a failed transaction:
\* the sink has the event and the row does not know.
SettleThrows(w) ==
    /\ worker[w].pc = "settle"
    /\ MoveTo(w, "failed")
    /\ UNCHANGED <<delivery, sinkCalls, sinkAnswer>>

\* The failure handler after retain: retry while the remembered budget lasts,
\* quarantine when it is spent; a fence lost in between throws.
GiveUp(w) ==
    LET d == worker[w].d
        spent == worker[w].attempts >= AttemptLimit
    IN
    /\ worker[w].pc = "giveup"
    /\ IF HoldsLease(w) /\ (spent => delivery[d].attempts >= AttemptLimit)
       THEN delivery' = [delivery EXCEPT ![d] = Released(d, IF spent THEN "quarantined" ELSE "pending")]
       ELSE UNCHANGED delivery
    /\ BackToIdle(w)
    /\ UNCHANGED <<sinkCalls, sinkAnswer>>

\* The process dies.  A crash inside the sink call, after its effect and
\* before its answer, is CallSink followed by this.
CrashWorker(w) ==
    /\ worker[w].pc # "idle"
    /\ BackToIdle(w)
    /\ UNCHANGED <<delivery, sinkCalls, sinkAnswer>>

\* The database clock passes lease_expires_at, whether or not the holder is alive.
ExpireDeliveryLease(d) ==
    /\ delivery[d].state = "leased"
    /\ delivery[d].live
    /\ delivery' = [delivery EXCEPT ![d].live = FALSE]
    /\ UNCHANGED <<worker, sinkCalls, sinkAnswer>>

ClaimNextDelivery(w) == SweepOnly(w) \/ \E d \in Deliveries, t \in LeaseTokens : ClaimDelivery(w, d, t)

WorkerStep(w) ==
    \/ Retain(w) \/ RetainThrows(w) \/ Settle(w) \/ SettleThrows(w) \/ GiveUp(w)
    \/ \E answer \in Outcomes \cup {"error"} : CallSink(w, answer)

DeliveryLocal ==
    \/ \E w \in Workers : ClaimNextDelivery(w) \/ WorkerStep(w) \/ CrashWorker(w)
    \/ \E d \in Deliveries : ExpireDeliveryLease(d)

-----------------------------------------------------------------------------
(* Properties *)

DeliveryTypeOK ==
    /\ delivery \in [Deliveries -> DeliveryRows]
    /\ worker \in [Workers -> WorkerStates]
    /\ sinkCalls \in [Deliveries -> [Attempts -> Nat]]
    /\ sinkAnswer \in [Deliveries -> [Attempts -> Answers]]

\* However many workers claim, crash, stall past their lease or wake up late,
\* an attempt makes one sink call at most: the sink sees an event at most
\* AttemptLimit times.
OneSinkCallPerAttempt ==
    \A d \in Deliveries, a \in Attempts :
        sinkCalls[d][a] <= IF a <= delivery[d].attempts THEN 1 ELSE 0

\* A receipt is the answer the sink gave to the claim that settled, never one
\* that a superseded worker brought back.
ReceiptIsOfLastClaim ==
    \A d \in Deliveries : delivery[d].state \in Outcomes =>
        delivery[d].attempts > 0 /\ sinkAnswer[d][delivery[d].attempts] = delivery[d].state
=============================================================================
