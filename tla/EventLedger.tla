----------------------------- MODULE EventLedger -----------------------------
(***************************************************************************)
(* What the outbox, its publishers and its consumers promise together: a   *)
(* recorded lifecycle event becomes canonical or is rejected, once and for *)
(* all; in the very step that makes it canonical every consumer comes to   *)
(* owe it one delivery; and a duty ends, once and for all, met or given up.*)
(* No lease, attempt, worker or crash is visible here.                     *)
(***************************************************************************)
CONSTANTS Events, Consumers

VARIABLES
    ledger,  \* how far each event is
    duty     \* how far each consumer is with each event

ledgerVars == <<ledger, duty>>

Init ==
    /\ ledger = [e \in Events |-> "unknown"]
    /\ duty = [d \in Events \X Consumers |-> "none"]

Record(e) ==
    /\ ledger[e] = "unknown"
    /\ ledger' = [ledger EXCEPT ![e] = "recorded"]
    /\ UNCHANGED duty

Commit(e) ==
    /\ ledger[e] = "recorded"
    /\ ledger' = [ledger EXCEPT ![e] = "canonical"]
    /\ duty' = [d \in Events \X Consumers |-> IF d[1] = e THEN "owed" ELSE duty[d]]

Reject(e) ==
    /\ ledger[e] = "recorded"
    /\ ledger' = [ledger EXCEPT ![e] = "rejected"]
    /\ UNCHANGED duty

\* One claim's sweep may give up several duties of its consumer at once.
Discharge ==
    /\ \E ended \in SUBSET {d \in Events \X Consumers : duty[d] = "owed"} :
          \E end \in [ended -> {"met", "abandoned"}] :
              duty' = [d \in Events \X Consumers |-> IF d \in ended THEN end[d] ELSE duty[d]]
    /\ UNCHANGED ledger

Next == Discharge \/ \E e \in Events : Record(e) \/ Commit(e) \/ Reject(e)

Spec == Init /\ [][Next]_ledgerVars
=============================================================================
