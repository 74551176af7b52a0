-------------------------- MODULE RecoveryDispatch --------------------------
(***************************************************************************)
(* What the recovery of a story promises, whoever carries it out: each     *)
(* class of repair is dispatched at most once, one dispatch is outstanding *)
(* at a time, its work is executed at most once, and work that was         *)
(* executed is never handed out again.  RecoveryDelivery implements it.    *)
(***************************************************************************)
CONSTANT Classes   \* the classes of repair a case has a budget for

VARIABLES
    dispatch,   \* how far the dispatch of each class has come
    closed      \* no further dispatch is made

dispatchVars == <<dispatch, closed>>

DispatchInit == dispatch = [k \in Classes |-> "none"] /\ closed = FALSE

Outstanding(k) == dispatch[k] \in {"waiting", "executing"}

Dispatch(k) ==
    /\ ~closed
    /\ dispatch[k] = "none"
    /\ \A other \in Classes : ~Outstanding(other)
    /\ dispatch' = [dispatch EXCEPT ![k] = "waiting"]
    /\ UNCHANGED closed

Execute(k) ==
    /\ dispatch[k] = "waiting"
    /\ dispatch' = [dispatch EXCEPT ![k] = "executing"]
    /\ UNCHANGED closed

\* Work is settled with or without the end of the whole recovery.
Settle(k) ==
    /\ Outstanding(k)
    /\ dispatch' = [dispatch EXCEPT ![k] = "settled"]
    /\ closed' \in {closed, TRUE}

Close ==
    /\ \A k \in Classes : ~Outstanding(k)
    /\ closed' = TRUE
    /\ UNCHANGED dispatch

DispatchNext ==
    Close \/ \E k \in Classes : Dispatch(k) \/ Execute(k) \/ Settle(k)

DispatchSpec == DispatchInit /\ [][DispatchNext]_dispatchVars
=============================================================================
