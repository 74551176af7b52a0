------------------------- MODULE MCCompletionEffects -------------------------
(* Two effects, of which the first can be observed by its reconcile step,   *)
(* three owners of the receipt and two attempts per effect.                 *)
EXTENDS CompletionEffects

MCEffects == 1..2
MCObservable == {1}
=============================================================================
