-------------------------- MODULE CompletionReceipt --------------------------
(***************************************************************************)
(* What the durable receipt of a completion promises: its effects come     *)
(* about one after another, each is settled only once it has come about,   *)
(* a settled or given-up one is never touched again, and the completion is *)
(* accepted only when all of them are settled.                             *)
(***************************************************************************)
EXTENDS Naturals

CONSTANT Effects  \* the ordinals of the completion's effects

VARIABLES
    performed,  \* the effects that have come about, perhaps more than once
    settled,    \* the effects with a receipt of their own
    givenUp,    \* the effects that were quarantined
    accepted    \* the completion is accepted

receiptVars == <<performed, settled, givenUp, accepted>>

ReceiptInit ==
    /\ performed = {}
    /\ settled = {}
    /\ givenUp = {}
    /\ accepted = FALSE

Current(e) == e \notin settled \cup givenUp /\ \A d \in Effects : d < e => d \in settled

\* An effect is performed when its turn has come; a slow runner may perform
\* one again that has been settled meanwhile.
Perform(e) ==
    /\ \A d \in Effects : d < e => d \in settled
    /\ performed' = performed \cup {e}
    /\ UNCHANGED <<settled, givenUp, accepted>>

Settle(e) ==
    /\ Current(e)
    /\ e \in performed
    /\ settled' = settled \cup {e}
    /\ UNCHANGED <<performed, givenUp, accepted>>

GiveUp(e) ==
    /\ Current(e)
    /\ givenUp' = givenUp \cup {e}
    /\ UNCHANGED <<performed, settled, accepted>>

Accept ==
    /\ settled = Effects
    /\ accepted' = TRUE
    /\ UNCHANGED <<performed, settled, givenUp>>

ReceiptNext == Accept \/ \E e \in Effects : Perform(e) \/ Settle(e) \/ GiveUp(e)

ReceiptSpec == ReceiptInit /\ [][ReceiptNext]_receiptVars
=============================================================================
