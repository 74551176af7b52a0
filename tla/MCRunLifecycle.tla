--------------------------- MODULE MCRunLifecycle ---------------------------
(* Two claims, either of one story or of two, for TLC. *)
EXTENDS RunLifecycle, TLC

CONSTANTS c1, c2, w1, w2

MCClaims == {c1, c2}
MCOneWork == {w1}
MCTwoWork == {w1, w2}
MCRetried == [c \in MCClaims |-> w1]
MCParallel == c1 :> w1 @@ c2 :> w2
=============================================================================
