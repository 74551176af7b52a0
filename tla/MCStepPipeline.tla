--------------------------- MODULE MCStepPipeline ---------------------------
(* A run of three steps, the first two of which have one retry, for TLC. *)
EXTENDS StepPipeline

MCMaxRetries == <<1, 1, 0>>

MCMaxClaims == <<2, 2, 1>>
=============================================================================
