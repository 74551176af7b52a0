------------------------- MODULE StepPipelineProofs -------------------------
(***************************************************************************)
(* One step at a time and none left behind, for every number of steps,     *)
(* claims, resumes and deaths.  The argument is the order of the    *)
(* steps (InOrder): what precedes a step at work or done is settled, what  *)
(* precedes a step that no longer waits does not wait, and behind a step   *)
(* at work all wait.  A resume starts in the middle, so the order needs    *)
(* that failed and cancelled steps never meet, and meet unfinished ones    *)
(* only while the run is about to fail (EndedApart).                       *)
(***************************************************************************)
EXTENDS StepPipeline, TLAPS

Settled == {"done", "skipped"}

InOrder ==
    \A i, j \in Steps : j < i =>
        /\ step[i] \in Active \cup {"done"} => step[j] \in Settled
        /\ step[i] # "waiting" => step[j] # "waiting"
        /\ step[j] \in Active => step[i] = "waiting"

EndedApart ==
    \A i, j \in Steps :
        /\ step[i] \in Unfinished =>
              step[j] # "cancelled" /\ (step[j] = "failed" => request = "failed")
        /\ step[i] = "failed" => step[j] # "cancelled"

EndingRequested == run = "ending" => request \in Targets

PipelineInv ==
    /\ PipelineTypeOK
    /\ InOrder
    /\ EndedApart
    /\ EndingRequested
    /\ EndLeavesNoStep
    /\ NoStepIsLeftBehind

-----------------------------------------------------------------------------
(* What a step of the pipeline changes *)

\* Nothing of the run.
Stays == UNCHANGED <<step, run, request>>

\* The pipeline's next step becomes pending.
Shows(i) ==
    /\ Unchallenged
    /\ step[i] = "waiting"
    /\ \A j \in 1..(i - 1) : step[j] \in Settled
    /\ \A j \in (i + 1)..N : step[j] = "waiting"
    /\ step' = [step EXCEPT ![i] = "pending"]
    /\ UNCHANGED <<run, request>>

Finishes ==
    /\ Unchallenged
    /\ \A i \in Steps : step[i] \notin Unfinished
    /\ run' = "completed"
    /\ UNCHANGED <<step, request>>

\* The step at work moves on; only its failure asks for the end of the run.
WorksOn(i, status) ==
    /\ Unchallenged
    /\ step[i] \in Active
    /\ status \in Active \cup Settled \cup {"failed"}
    /\ step' = [step EXCEPT ![i] = status]
    /\ request' = IF status = "failed" THEN "failed" ELSE request
    /\ UNCHANGED run

\* All that is unfinished ends, and only that, but for cancelled steps.
EndsAll(status) ==
    /\ status \in Targets \cup {"skipped"}
    /\ step' \in [Steps -> Settled \cup Targets]
    /\ \A i \in Steps :
          step'[i] = IF step[i] \in Unfinished \/ (step[i] = "cancelled" /\ status = "skipped")
                     THEN status ELSE step[i]

LEMMA StepCount == N \in Nat \ {0}
BY PipelineAssumption

LEMMA ClaimsAreOfSteps ==
    ASSUME NEW c \in Claims
    PROVE  c[1] \in Steps /\ c[2] \in 1..MaxClaims[c[1]] /\ c = <<c[1], c[2]>>
BY DEF Claims

\* advancePipeline shows the next step behind settled ones, completes the run or
\* leaves it; its guard against failed steps has nothing to find.
LEMMA AdvanceMoves ==
    ASSUME PipelineInv, AdvancePipeline
    PROVE  Stays \/ Finishes \/ \E i \in Steps : Shows(i)
<1> USE StepCount DEF Steps
<1>1. CASE StayPut
  BY <1>1 DEF StayPut, Stays
<1>2. CASE Unchallenged /\ Complete
  BY <1>2 DEF Complete, Finishes, StepsIn
<1>3. ASSUME NEW i \in Steps, Unchallenged, ShowNext(i)
      PROVE  Shows(i)
  <2>1. /\ step[i] = "waiting"
        /\ \A j \in 1..(i - 1) : step[j] # "waiting" /\ step[j] \notin Active
    BY <1>3 DEF ShowNext, IsNext, NothingActiveBefore
  <2>2. \A j \in Steps : step[j] \notin Targets
    BY <1>3, <2>1 DEF PipelineInv, EndedApart, Unchallenged, Unfinished, Targets
  <2>3. \A j \in 1..(i - 1) : step[j] \in Settled
    BY <2>1, <2>2 DEF PipelineInv, PipelineTypeOK, Unfinished, Active, Targets, Settled
  <2>4. \A j \in (i + 1)..N : step[j] = "waiting"
    BY <2>1 DEF PipelineInv, InOrder
  <2>5. ~FailedForGood(i)
    BY <2>2 DEF FailedForGood, Targets
  <2> QED
    BY <1>3, <2>1, <2>3, <2>4, <2>5 DEF ShowNext, Shows
<1> QED
  BY <1>1, <1>2, <1>3 DEF AdvancePipeline

LEMMA OwnerMoves ==
    ASSUME PipelineInv, NEW c \in Claims,
           PublishClaim(c) \/ CompleteStep(c) \/ RetryStep(c) \/ FailCritical(c) \/ SkipStep(c)
    PROVE  \E status \in Active \cup Settled \cup {"failed"} : WorksOn(c[1], status)
<1> USE ClaimsAreOfSteps DEF WorksOn, Active, Settled, Unchallenged
<1>1. CASE PublishClaim(c)
  <2>1. WorksOn(c[1], "running")
    BY <1>1 DEF PublishClaim
  <2> QED BY <2>1
<1>2. CASE CompleteStep(c)
  <2>1. WorksOn(c[1], "done")
    BY <1>2 DEF CompleteStep, Owns
  <2> QED BY <2>1
<1>3. CASE RetryStep(c)
  <2>1. WorksOn(c[1], "pending")
    BY <1>3 DEF RetryStep, Finalize, Owns
  <2> QED BY <2>1
<1>4. CASE FailCritical(c)
  <2>1. WorksOn(c[1], "failed")
    BY <1>4 DEF FailCritical, GiveUp, Finalize, Owns
  <2> QED BY <2>1
<1>5. CASE SkipStep(c)
  <2>1. WorksOn(c[1], "skipped")
    BY <1>5 DEF SkipStep, GiveUp, Finalize, Owns
  <2> QED BY <2>1
<1> QED
  BY <1>1, <1>2, <1>3, <1>4, <1>5

LEMMA EndMoves ==
    ASSUME PipelineInv, Terminalize \/ EndSteps
    PROVE  \E status \in Targets \cup {"skipped"} :
              /\ EndsAll(status)
              /\ status = request \/ status # "cancelled"
<1> USE DEF EndsAll, Unfinished, Active, Targets, Settled, PipelineInv, PipelineTypeOK
<1>1. CASE Terminalize
  <2>1. request \in Targets
    BY <1>1 DEF Terminalize, EndingRequested, Over
  <2>2. step' = [i \in Steps |-> IF step[i] \in Unfinished THEN request ELSE step[i]]
    BY <1>1 DEF Terminalize
  <2>3. request # "skipped" /\ request \in Targets \cup {"skipped"}
    BY <2>1
  <2>4. \A i \in Steps : step'[i] \in Settled \cup Targets
    BY <2>1, <2>2
  <2>5. EndsAll(request)
    BY <2>2, <2>3, <2>4
  <2> QED BY <2>1, <2>5
<1>2. CASE EndSteps
  <2>1. CASE step' = [i \in Steps |-> IF step[i] \in Unfinished THEN "failed" ELSE step[i]]
    <3>1. EndsAll("failed")
      BY <2>1
    <3> QED BY <3>1
  <2>2. CASE step' = [i \in Steps |-> IF step[i] \in {"done", "failed", "skipped"}
                                      THEN step[i] ELSE "skipped"]
    <3>1. EndsAll("skipped")
      BY <2>2
    <3> QED BY <3>1
  <2> QED BY <1>2, <2>1, <2>2 DEF EndSteps
<1> QED BY <1>1, <1>2

-----------------------------------------------------------------------------
(* The order of the steps *)

Order == InOrder /\ EndedApart

LEMMA StaysInOrder ==
    ASSUME PipelineInv, Stays \/ Finishes
    PROVE  Order'
BY DEF Stays, Finishes, Order, PipelineInv, InOrder, EndedApart

\* Settled steps, one that is pending, and the rest waits: this is in order.
LEMMA FrontierInOrder ==
    ASSUME NEW i \in Steps,
           step'[i] = "pending",
           \A j \in 1..(i - 1) : step'[j] \in Settled,
           \A j \in (i + 1)..N : step'[j] = "waiting"
    PROVE  Order'
<1> USE StepCount DEF Steps
<1>1. \A j \in Steps : j < i \/ j = i \/ j > i
  OBVIOUS
<1>2. \A j \in Steps : /\ j < i => step'[j] \in Settled
                       /\ j > i => step'[j] = "waiting"
  OBVIOUS
<1>3. InOrder'
  <2> SUFFICES ASSUME NEW k \in Steps, NEW j \in Steps, j < k
               PROVE  /\ step'[k] \in Active \cup {"done"} => step'[j] \in Settled
                      /\ step'[k] # "waiting" => step'[j] # "waiting"
                      /\ step'[j] \in Active => step'[k] = "waiting"
    BY DEF InOrder
  <2>1. CASE j >= i
    BY <2>1, <1>2 DEF Active
  <2>2. CASE j < i
    BY <2>2, <1>2 DEF Active, Settled
  <2> QED BY <2>1, <2>2
<1>4. \A j \in Steps : step'[j] \notin Targets
  BY <1>1, <1>2 DEF Settled, Targets
<1> QED
  BY <1>3, <1>4 DEF Order, EndedApart, Targets

LEMMA ShowsInOrder ==
    ASSUME PipelineInv, NEW i \in Steps, Shows(i)
    PROVE  Order'
<1>1. step'[i] = "pending"
  BY DEF Shows, PipelineInv, PipelineTypeOK
<1>2. /\ \A j \in 1..(i - 1) : step'[j] \in Settled
      /\ \A j \in (i + 1)..N : step'[j] = "waiting"
  BY PipelineAssumption DEF Shows, PipelineInv, PipelineTypeOK, Steps
<1> QED
  BY <1>1, <1>2, FrontierInOrder

LEMMA WorksInOrder ==
    ASSUME PipelineInv, NEW i \in Steps, NEW status \in Active \cup Settled \cup {"failed"},
           WorksOn(i, status)
    PROVE  Order'
<1> USE StepCount DEF Steps, PipelineInv, PipelineTypeOK, Unfinished, Active, Settled, Targets
<1>1. /\ step'[i] = status
      /\ \A j \in Steps \ {i} : step'[j] = step[j]
  BY DEF WorksOn
<1>2. InOrder'
  BY <1>1 DEF WorksOn, InOrder
<1>3. \A j \in Steps : step[j] \notin Targets
  BY DEF WorksOn, Unchallenged, EndedApart
<1>4. EndedApart'
  BY <1>1, <1>3 DEF WorksOn, EndedApart
<1> QED
  BY <1>2, <1>4 DEF Order

LEMMA EndsInOrder ==
    ASSUME PipelineInv, NEW status \in Targets \cup {"skipped"}, EndsAll(status),
           \/ status = request
           \/ status # "cancelled"
    PROVE  Order'
<1> USE DEF PipelineInv, PipelineTypeOK, Unfinished, Active, Settled, Targets, EndsAll
<1>1. InOrder'
  BY DEF InOrder
<1>2. EndedApart'
  BY DEF EndedApart
<1> QED
  BY <1>1, <1>2 DEF Order

\* The first step that may start again has only settled ones before it, and all
\* that does not wait behind it waits again.
LEMMA ResumesInOrder ==
    ASSUME PipelineInv, Resume
    PROVE  /\ Order'
           /\ \A i \in Steps : step'[i] = "done" =>
                 \E j \in (i + 1)..N : step'[j] # "waiting"
<1> USE StepCount DEF Steps
<1>1. PICK i \in Steps :
         /\ Resumable(i)
         /\ \A j \in 1..(i - 1) : ~Resumable(j)
         /\ step' = [j \in Steps |->
                        IF j = i THEN "pending"
                        ELSE IF j > i /\ step[j] \in {"failed", "skipped", "cancelled"}
                        THEN "waiting" ELSE step[j]]
  BY DEF Resume
<1>2. /\ step[i] \in Targets
      /\ \A j \in 1..(i - 1) : step[j] # "failed" /\ step[j] # run
      /\ run \in Targets
  BY <1>1 DEF Resumable, Resume, Targets
<1>3. \A j \in Steps : step[j] \in Unfinished \cup Settled \cup Targets
  BY DEF PipelineInv, PipelineTypeOK, Settled
<1>4. \A j \in 1..(i - 1) : step[j] \in Settled
  <2>1. \A j \in 1..(i - 1) : step[j] # "waiting" /\ step[j] \notin Active
    BY <1>2 DEF PipelineInv, InOrder, Active, Targets
  <2>2. \A j \in 1..(i - 1) : step[j] # "cancelled"
    BY <1>1, <1>2 DEF PipelineInv, EndedApart, Resumable, Targets
  <2> QED BY <1>2, <1>3, <2>1, <2>2 DEF Unfinished, Targets
<1>5. \A j \in (i + 1)..N : step[j] \notin Active \cup {"done"}
  <2> SUFFICES ASSUME NEW j \in (i + 1)..N, step[j] \in Active \cup {"done"}
               PROVE  FALSE
    OBVIOUS
  <2>1. j \in Steps /\ i < j
    OBVIOUS
  <2>2. step[i] \in Settled
    BY <2>1 DEF PipelineInv, InOrder
  <2> QED BY <2>2, <1>2 DEF Settled, Targets
<1>6. /\ step'[i] = "pending"
      /\ \A j \in 1..(i - 1) : step'[j] \in Settled
  BY <1>1, <1>4
<1>7. \A j \in (i + 1)..N : step'[j] = "waiting"
  <2> SUFFICES ASSUME NEW j \in (i + 1)..N
               PROVE  step'[j] = "waiting"
    OBVIOUS
  <2>1. j \in Steps /\ i < j
    OBVIOUS
  <2>2. step[j] \in {"waiting", "skipped", "failed", "cancelled"}
    BY <2>1, <1>3, <1>5 DEF Unfinished, Settled, Targets
  <2> QED BY <2>1, <2>2, <1>1
<1>8. Order'
  BY <1>6, <1>7, FrontierInOrder
<1>9. ASSUME NEW k \in Steps, step'[k] = "done"
      PROVE  \E j \in (k + 1)..N : step'[j] # "waiting"
  <2>1. k < i
    BY <1>6, <1>7, <1>9
  <2> QED BY <2>1, <1>6
<1> QED
  BY <1>8, <1>9

LEMMA AdvanceInOrder ==
    ASSUME PipelineInv, AdvancePipeline
    PROVE  Order'
BY AdvanceMoves, StaysInOrder, ShowsInOrder

LEMMA OrderKept ==
    ASSUME PipelineInv, PipelineNext
    PROVE  Order'
<1>1. ASSUME NEW c \in Claims,
             PublishClaim(c) \/ CompleteStep(c) \/ RetryStep(c) \/ FailCritical(c) \/ SkipStep(c)
      PROVE  Order'
  BY <1>1, OwnerMoves, WorksInOrder, ClaimsAreOfSteps
<1>2. ASSUME NEW c \in Claims,
             AdvanceAfterSkip(c) \/ ApplyEffect(c) \/ ApplyAndDie(c) \/ ApplyLate(c)
      PROVE  Order'
  BY <1>2, AdvanceInOrder DEF AdvanceAfterSkip, ApplyEffect, ApplyAndDie, ApplyLate, AppliesAlone
<1>3. CASE MedicAdvances
  BY <1>3, AdvanceInOrder DEF MedicAdvances
<1>4. CASE Terminalize \/ EndSteps
  BY <1>4, EndMoves, EndsInOrder
<1>5. CASE Resume
  BY <1>5, ResumesInOrder
<1>6. ASSUME NEW c \in Claims,
             Die(c) \/ ReconcileEffect(c) \/ DecideToAdvance(c)
      PROVE  Order'
  BY <1>6, StaysInOrder
     DEF Stays, Die, ReconcileEffect, Accepted, DecideToAdvance
<1>7. CASE Finding \/ Remediate \/ ReadRunToFail
  BY <1>7, StaysInOrder DEF Stays, Finding, Remediate, ReadRunToFail
<1>8. CASE RequestStop
  <2>1. UNCHANGED step /\ request = "none"
    BY <1>8 DEF RequestStop, Unchallenged
  <2> QED BY <2>1 DEF Order, PipelineInv, InOrder, EndedApart
<1>9. CASE ClaimTermination \/ FailRun \/ FailStalledRun
  <2>1. UNCHANGED <<step, request>>
    BY <1>9 DEF ClaimTermination, FailRun, FailStalledRun
  <2> QED BY <2>1 DEF Order, PipelineInv, InOrder, EndedApart
<1> QED
  BY <1>1, <1>2, <1>3, <1>4, <1>5, <1>6, <1>7, <1>8, <1>9
     DEF PipelineNext, ClaimStep, MedicGoesOn

-----------------------------------------------------------------------------
(* Types *)

StepStates == Unfinished \cup {"done", "skipped"} \cup Targets

LEMMA AdvanceTyped ==
    ASSUME PipelineInv, AdvancePipeline
    PROVE  /\ run' \in {"running", "ending"} \cup Over
           /\ request' \in {"none"} \cup Targets
           /\ step' \in [Steps -> StepStates]
<1> USE DEF PipelineInv, PipelineTypeOK, StepStates, Unfinished, Active, Over
<1>1. CASE Stays
  BY <1>1 DEF Stays
<1>2. CASE Finishes
  BY <1>2 DEF Finishes
<1>3. ASSUME NEW i \in Steps, Shows(i)
      PROVE  /\ run' \in {"running", "ending"} \cup Over
             /\ request' \in {"none"} \cup Targets
             /\ step' \in [Steps -> StepStates]
  BY <1>3 DEF Shows
<1> QED
  BY <1>1, <1>2, <1>3, AdvanceMoves

LEMMA FinalizesTyped ==
    ASSUME PipelineInv, NEW c \in Claims, NEW status \in StepStates, NEW count \in Nat,
           count <= MaxRetries[c[1]],
           Finalize(c, status, count),
           request' \in {"none"} \cup Targets,
           skipping' \subseteq Claims
    PROVE  PipelineTypeOK'
<1> USE PipelineAssumption DEF Finalize, PipelineInv, PipelineTypeOK
<1>1. c[1] \in Steps
  BY ClaimsAreOfSteps
<1>2. step' \in [Steps -> StepStates]
  BY DEF StepStates
<1>3. retries' \in [Steps -> Nat] /\ \A i \in Steps : retries'[i] <= MaxRetries[i]
  BY <1>1
<1>4. claim' \in [Claims -> {"absent", "open", "advance", "finalize", "settled"}]
  OBVIOUS
<1> QED
  BY <1>2, <1>3, <1>4 DEF StepStates

LEMMA TypedKept ==
    ASSUME PipelineInv, PipelineNext
    PROVE  PipelineTypeOK'
<1> USE PipelineAssumption
<1>1. ASSUME NEW c \in Claims, PublishClaim(c) \/ CompleteStep(c)
      PROVE  PipelineTypeOK'
  BY <1>1 DEF PublishClaim, CompleteStep, PipelineInv, PipelineTypeOK, Unfinished, Active
<1>2. ASSUME NEW c \in Claims, RetryStep(c)
      PROVE  PipelineTypeOK'
  <2>1. /\ retries[c[1]] \in Nat
        /\ retries[c[1]] <= MaxRetries[c[1]]
        /\ MaxRetries[c[1]] \in Nat
    BY ClaimsAreOfSteps DEF PipelineInv, PipelineTypeOK
  <2>2. request' \in {"none"} \cup Targets /\ skipping' \subseteq Claims
    BY <1>2 DEF RetryStep, PipelineInv, PipelineTypeOK
  <2>3. "pending" \in StepStates
    BY DEF StepStates, Unfinished, Active
  <2>4. CASE Finalize(c, "pending", retries[c[1]])
    BY <2>1, <2>2, <2>3, <2>4, FinalizesTyped
  <2>5. CASE retries[c[1]] < MaxRetries[c[1]] /\ Finalize(c, "pending", retries[c[1]] + 1)
    <3>1. retries[c[1]] + 1 \in Nat /\ retries[c[1]] + 1 <= MaxRetries[c[1]]
      BY <2>1, <2>5
    <3> QED BY <2>2, <2>3, <2>5, <3>1, FinalizesTyped
  <2> QED BY <1>2, <2>4, <2>5 DEF RetryStep
<1>3. ASSUME NEW c \in Claims, FailCritical(c) \/ SkipStep(c)
      PROVE  PipelineTypeOK'
  <2>1. /\ MaxRetries[c[1]] \in Nat /\ MaxRetries[c[1]] <= MaxRetries[c[1]]
        /\ retries[c[1]] \in Nat /\ retries[c[1]] <= MaxRetries[c[1]]
    BY ClaimsAreOfSteps DEF PipelineInv, PipelineTypeOK
  <2>2. request' \in {"none"} \cup Targets /\ skipping' \subseteq Claims
    BY <1>3 DEF FailCritical, SkipStep, PipelineInv, PipelineTypeOK, Targets
  <2>3. \E status \in {"failed", "skipped"}, count \in {MaxRetries[c[1]], retries[c[1]]} :
           Finalize(c, status, count)
    BY <1>3 DEF FailCritical, SkipStep, GiveUp
  <2>4. "failed" \in StepStates /\ "skipped" \in StepStates
    BY DEF StepStates, Targets
  <2> QED BY <2>1, <2>2, <2>3, <2>4, FinalizesTyped
<1>4. ASSUME NEW c \in Claims,
             AdvanceAfterSkip(c) \/ ApplyEffect(c) \/ ApplyAndDie(c) \/ ApplyLate(c)
      PROVE  PipelineTypeOK'
  <2>1. AdvancePipeline
    BY <1>4 DEF AdvanceAfterSkip, ApplyEffect, ApplyAndDie, ApplyLate, AppliesAlone
  <2>2. /\ claim' \in [Claims -> {"absent", "open", "advance", "finalize", "settled"}]
        /\ poised' \subseteq Claims
        /\ skipping' \subseteq Claims
        /\ UNCHANGED <<protocol, retries, medic>>
    BY <1>4 DEF AdvanceAfterSkip, ApplyEffect, ApplyAndDie, ApplyLate, AppliesAlone,
                PipelineInv, PipelineTypeOK
  <2> QED
    BY <2>1, <2>2, AdvanceTyped DEF PipelineInv, PipelineTypeOK, StepStates
<1>5. CASE MedicAdvances
  <2>1. /\ AdvancePipeline
        /\ medic' = "idle"
        /\ UNCHANGED <<protocol, retries, claim, poised, skipping>>
    BY <1>5 DEF MedicAdvances, MedicMoves
  <2> QED
    BY <2>1, AdvanceTyped DEF PipelineInv, PipelineTypeOK, StepStates
<1>6. ASSUME NEW c \in Claims,
             Die(c) \/ ReconcileEffect(c) \/ DecideToAdvance(c)
      PROVE  PipelineTypeOK'
  BY <1>6 DEF Die, ReconcileEffect, Accepted, DecideToAdvance,
              PipelineInv, PipelineTypeOK
<1>7. CASE RequestStop \/ ClaimTermination
  BY <1>7 DEF RequestStop, RequestEnd, ClaimTermination, PipelineInv, PipelineTypeOK, Targets
<1>8. CASE Terminalize
  BY <1>8 DEF Terminalize, PipelineInv, PipelineTypeOK, EndingRequested, Over, Targets
<1>9. CASE Resume
  BY <1>9 DEF Resume, PipelineInv, PipelineTypeOK, Unfinished, Active
<1>10. CASE Finding
  <2>1. PICK to \in {"dead", "stuck", "stalled"} :
           medic' = to /\ UNCHANGED <<protocol, retries, claim, poised, skipping, run, request, step>>
    BY <1>10 DEF Finding, MedicMoves
  <2> QED BY <2>1 DEF PipelineInv, PipelineTypeOK
<1>11. CASE Remediate \/ ReadRunToFail
  <2>1. PICK to \in {"idle", "unowned", "advance", "failing"} :
           medic' = to /\ UNCHANGED <<protocol, retries, claim, poised, skipping, run, request, step>>
    BY <1>11 DEF Remediate, ReadRunToFail, MedicMoves
  <2> QED BY <2>1 DEF PipelineInv, PipelineTypeOK
<1>12. CASE FailRun \/ FailStalledRun
  BY <1>12 DEF FailRun, FailStalledRun, MedicMoves, PipelineInv, PipelineTypeOK, Over, Targets
<1>13. CASE EndSteps
  <2>1. /\ medic' = "idle"
        /\ UNCHANGED <<protocol, retries, claim, poised, skipping, run, request>>
    BY <1>13 DEF EndSteps, MedicMoves
  <2>2. step' \in [Steps -> StepStates]
    BY <1>13, EndMoves DEF EndsAll, Settled, StepStates
  <2> QED BY <2>1, <2>2 DEF PipelineInv, PipelineTypeOK, StepStates
<1> QED
  BY <1>1, <1>2, <1>3, <1>4, <1>5, <1>6, <1>7, <1>8, <1>9, <1>10, <1>11, <1>12, <1>13
     DEF PipelineNext, ClaimStep, MedicGoesOn

-----------------------------------------------------------------------------
(* The run's end *)

LEMMA RequestedKept ==
    ASSUME PipelineInv, PipelineNext
    PROVE  EndingRequested'
<1> USE DEF PipelineInv, PipelineTypeOK, EndingRequested
<1>1. ASSUME AdvancePipeline
      PROVE  EndingRequested'
  BY <1>1, AdvanceMoves DEF Stays, Finishes, Shows
<1>2. ASSUME NEW c \in Claims,
             AdvanceAfterSkip(c) \/ ApplyEffect(c) \/ ApplyAndDie(c) \/ ApplyLate(c)
      PROVE  EndingRequested'
  BY <1>1, <1>2 DEF AdvanceAfterSkip, ApplyEffect, ApplyAndDie, ApplyLate, AppliesAlone
<1>3. ASSUME NEW c \in Claims,
             PublishClaim(c) \/ CompleteStep(c) \/ RetryStep(c) \/ FailCritical(c) \/ SkipStep(c)
      PROVE  EndingRequested'
  BY <1>3, OwnerMoves DEF WorksOn, Unchallenged
<1>4. ASSUME NEW c \in Claims,
             Die(c) \/ ReconcileEffect(c) \/ DecideToAdvance(c)
      PROVE  EndingRequested'
  BY <1>4 DEF Die, ReconcileEffect, Accepted, DecideToAdvance
<1>5. CASE RequestStop \/ ClaimTermination
  BY <1>5 DEF RequestStop, RequestEnd, ClaimTermination, Targets
<1>6. CASE Terminalize \/ Resume
  BY <1>6 DEF Terminalize, Resume, Targets
<1>7. CASE MedicAdvances
  BY <1>1, <1>7 DEF MedicAdvances
<1>8. CASE Finding \/ Remediate \/ ReadRunToFail \/ FailRun \/ FailStalledRun \/ EndSteps
  BY <1>8 DEF Finding, Remediate, ReadRunToFail, FailRun, FailStalledRun, EndSteps
<1> QED
  BY <1>2, <1>3, <1>4, <1>5, <1>6, <1>7, <1>8 DEF PipelineNext, ClaimStep, MedicGoesOn

LEMMA EndsKept ==
    ASSUME PipelineInv, PipelineNext
    PROVE  EndLeavesNoStep'
<1> USE DEF EndLeavesNoStep, StepsIn
\* What advances the pipeline while the medic is at no last statement.
<1>1. ASSUME AdvancePipeline, medic \in LastStatement => medic' = medic
      PROVE  EndLeavesNoStep'
  BY <1>1, AdvanceMoves DEF PipelineInv, Stays, Finishes, Shows, Unchallenged, Over, Targets
<1>2. ASSUME NEW c \in Claims,
             AdvanceAfterSkip(c) \/ ApplyEffect(c) \/ ApplyAndDie(c) \/ ApplyLate(c)
      PROVE  EndLeavesNoStep'
  BY <1>1, <1>2 DEF AdvanceAfterSkip, ApplyEffect, ApplyAndDie, ApplyLate, AppliesAlone
<1>3. ASSUME NEW c \in Claims,
             PublishClaim(c) \/ CompleteStep(c) \/ RetryStep(c) \/ FailCritical(c) \/ SkipStep(c)
      PROVE  EndLeavesNoStep'
  BY <1>3, OwnerMoves DEF WorksOn, Unchallenged, Over, Targets
<1>4. ASSUME NEW c \in Claims,
             Die(c) \/ ReconcileEffect(c) \/ DecideToAdvance(c)
      PROVE  EndLeavesNoStep'
  BY <1>4 DEF PipelineInv, Die, ReconcileEffect, Accepted, DecideToAdvance
<1>5. CASE RequestStop \/ ClaimTermination
  BY <1>5 DEF PipelineInv, RequestStop, RequestEnd, ClaimTermination, Unchallenged, Over, Targets
<1>6. CASE Terminalize \/ EndSteps
  <2>1. \A i \in Steps : step'[i] \notin Unfinished
    BY <1>6, EndMoves DEF EndsAll, Settled, Targets, Unfinished, Active
  <2> QED BY <2>1
<1>7. CASE Resume
  BY <1>7 DEF Resume, Over, Targets
<1>8. CASE MedicAdvances
  BY <1>1, <1>8 DEF MedicAdvances, MedicMoves, LastStatement
<1>9. CASE Finding
  BY <1>9 DEF Finding, Over, Targets
<1>10. CASE Remediate \/ ReadRunToFail
  BY <1>10 DEF PipelineInv, Remediate, ReadRunToFail, MedicMoves, LastStatement
<1>11. CASE FailRun \/ FailStalledRun
  BY <1>11 DEF FailRun, FailStalledRun, MedicMoves, LastStatement
<1> QED
  BY <1>2, <1>3, <1>4, <1>5, <1>6, <1>7, <1>8, <1>9, <1>10, <1>11
     DEF PipelineNext, ClaimStep, MedicGoesOn

-----------------------------------------------------------------------------
(* No step is left behind *)

\* Behind a done step, advancePipeline leaves one that no longer waits, or the
\* run is not running.
LEMMA AdvanceFollows ==
    ASSUME PipelineInv, AdvancePipeline, Unchallenged',
           NEW i \in Steps, step'[i] = "done"
    PROVE  \E j \in (i + 1)..N : step'[j] # "waiting"
<1> USE StepCount DEF Steps
<1>1. CASE StayPut
  <2>1. UNCHANGED <<run, request, step>> /\ step[i] = "done"
    BY <1>1 DEF StayPut
  <2>2. Unchallenged
    BY <2>1 DEF Unchallenged
  <2>3. \E j \in Steps : step[j] \in Active \cup {"failed"}
    BY <1>1, <2>2 DEF StayPut, NothingActiveBefore, StepsIn
  <2>4. PICK j \in Steps : step[j] \in Active \cup {"failed"}
    BY <2>3
  <2>5. j # i
    BY <2>1, <2>4 DEF Active
  <2>6. ~(j < i)
    BY <2>1, <2>4 DEF PipelineInv, InOrder, Active, Settled
  <2>7. j \in (i + 1)..N
    BY <2>5, <2>6
  <2> QED BY <2>1, <2>4, <2>7 DEF Active
<1>2. CASE Unchallenged /\ Complete
  BY <1>2 DEF Complete, Unchallenged
<1>3. ASSUME NEW k \in Steps, Unchallenged, ShowNext(k)
      PROVE  \E j \in (i + 1)..N : step'[j] # "waiting"
  <2>1. ~FailedForGood(k)
    BY <1>3 DEF ShowNext, RequestEnd, Unchallenged
  <2>2. step' = [step EXCEPT ![k] = "pending"] /\ step[k] = "waiting"
    BY <1>3, <2>1 DEF ShowNext, IsNext
  <2>3. step'[k] = "pending"
    BY <2>2 DEF PipelineInv, PipelineTypeOK
  <2>4. i # k /\ step[i] = "done"
    BY <2>2, <2>3 DEF PipelineInv, PipelineTypeOK
  <2>5. ~(k < i)
    BY <2>2, <2>4 DEF PipelineInv, InOrder
  <2>6. k \in (i + 1)..N
    BY <2>4, <2>5
  <2> QED BY <2>3, <2>6
<1> QED
  BY <1>1, <1>2, <1>3 DEF AdvancePipeline

\* The completion of a done step is not left to advance the pipeline.
NotAdvancing(i) == \A n \in 1..MaxClaims[i] : claim[<<i, n>>] # "advance"

\* A move that finishes no step, takes no completion away and shows or leaves
\* every step leaves none behind.
LEMMA StillFollowed ==
    ASSUME PipelineInv,
           Unchallenged' => Unchallenged,
           \A i \in Steps : step'[i] = "done" /\ NotAdvancing(i)'
                            => step[i] = "done" /\ NotAdvancing(i),
           \A i \in Steps : step[i] # "waiting" => step'[i] # "waiting"
    PROVE  NoStepIsLeftBehind'
<1> SUFFICES ASSUME Unchallenged', NEW i \in Steps, step'[i] = "done", NotAdvancing(i)'
             PROVE  \E j \in (i + 1)..N : step'[j] # "waiting"
  BY DEF NoStepIsLeftBehind, NotAdvancing
<1>1. PICK j \in (i + 1)..N : step[j] # "waiting"
  BY DEF PipelineInv, NoStepIsLeftBehind, NotAdvancing
<1>2. j \in Steps
  BY PipelineAssumption DEF Steps
<1> QED BY <1>1, <1>2

LEMMA AdvanceLeavesNone ==
    ASSUME PipelineInv, AdvancePipeline
    PROVE  NoStepIsLeftBehind'
BY AdvanceFollows DEF NoStepIsLeftBehind

LEMMA FollowedKept ==
    ASSUME PipelineInv, PipelineNext
    PROVE  NoStepIsLeftBehind'
<1> USE DEF PipelineInv, PipelineTypeOK
<1>1. ASSUME NEW c \in Claims,
             PublishClaim(c) \/ RetryStep(c) \/ FailCritical(c) \/ SkipStep(c) \/ CompleteStep(c)
      PROVE  NoStepIsLeftBehind'
  <2>1. /\ c[1] \in Steps
        /\ c[2] \in 1..MaxClaims[c[1]]
        /\ c = <<c[1], c[2]>>
    BY ClaimsAreOfSteps
  <2>2. /\ Unchallenged
        /\ step[c[1]] \in Active
        /\ claim[c] \in {"absent", "open"}
    BY <1>1 DEF PublishClaim, RetryStep, FailCritical, SkipStep, GiveUp, CompleteStep, Finalize, Owns, Active
  <2>3. PICK to \in {"open", "finalize", "advance"} : claim' = [claim EXCEPT ![c] = to]
    BY <1>1 DEF PublishClaim, RetryStep, FailCritical, SkipStep, GiveUp, CompleteStep, Finalize
  <2>4. PICK status \in {"pending", "running", "skipped", "failed", "done"} :
           /\ step' = [step EXCEPT ![c[1]] = status]
           /\ status = "done" => claim'[c] = "advance"
    BY <1>1 DEF PublishClaim, RetryStep, FailCritical, SkipStep, GiveUp, CompleteStep, Finalize
  <2>5. \A i \in Steps : NotAdvancing(i)' => NotAdvancing(i)
    BY <2>1, <2>2, <2>3 DEF NotAdvancing
  <2>6. \A i \in Steps : step'[i] = "done" /\ NotAdvancing(i)' => step[i] = "done"
    BY <2>1, <2>4 DEF NotAdvancing
  <2>7. \A i \in Steps : step[i] # "waiting" => step'[i] # "waiting"
    BY <2>1, <2>4
  <2> QED BY <2>2, <2>5, <2>6, <2>7, StillFollowed
<1>2. ASSUME NEW c \in Claims,
             AdvanceAfterSkip(c) \/ ApplyEffect(c) \/ ApplyAndDie(c) \/ ApplyLate(c)
      PROVE  NoStepIsLeftBehind'
  BY <1>2, AdvanceLeavesNone
     DEF AdvanceAfterSkip, ApplyEffect, ApplyAndDie, ApplyLate, AppliesAlone
<1>3. CASE MedicAdvances
  BY <1>3, AdvanceLeavesNone DEF MedicAdvances
<1>4. ASSUME NEW c \in Claims, ReconcileEffect(c)
      PROVE  NoStepIsLeftBehind'
  <2>1. c[1] \in Steps /\ c[2] \in 1..MaxClaims[c[1]] /\ c = <<c[1], c[2]>>
    BY ClaimsAreOfSteps
  <2>2. /\ UNCHANGED <<run, request, step>>
        /\ claim' = [claim EXCEPT ![c] = "settled"]
        /\ SeenDone(c)
    BY <1>4 DEF ReconcileEffect, Accepted
  <2> SUFFICES ASSUME Unchallenged, NEW i \in Steps, step[i] = "done", NotAdvancing(i)'
               PROVE  \E j \in (i + 1)..N : step[j] # "waiting"
    BY <2>2 DEF NoStepIsLeftBehind, NotAdvancing, Unchallenged
  <2>3. CASE i = c[1] /\ claim[c] # "finalize"
    BY <2>2, <2>3 DEF SeenDone, Unchallenged, Over, Targets
  <2>4. CASE i # c[1] \/ claim[c] = "finalize"
    <3>1. NotAdvancing(i)
      BY <2>1, <2>2, <2>4 DEF NotAdvancing
    <3> QED BY <3>1 DEF NoStepIsLeftBehind, NotAdvancing
  <2> QED BY <2>3, <2>4
<1>5. ASSUME NEW c \in Claims, Die(c) \/ DecideToAdvance(c)
      PROVE  NoStepIsLeftBehind'
  BY <1>5, StillFollowed DEF Die, DecideToAdvance, Unchallenged, NotAdvancing
<1>6. CASE RequestStop \/ ClaimTermination
  BY <1>6, StillFollowed
     DEF RequestStop, RequestEnd, ClaimTermination, Unchallenged, NotAdvancing
<1>7. CASE Terminalize \/ FailRun
  BY <1>7 DEF Terminalize, FailRun, PipelineInv, PipelineTypeOK, NoStepIsLeftBehind, Unchallenged, EndingRequested, Targets, Over
<1>8. CASE Resume
  BY <1>8, ResumesInOrder DEF NoStepIsLeftBehind
<1>9. CASE Finding \/ Remediate \/ ReadRunToFail \/ FailStalledRun
  <2>1. UNCHANGED <<step, request, claim>> /\ run' \in {run, "failed"}
    BY <1>9 DEF Finding, Remediate, ReadRunToFail, FailStalledRun, MedicMoves
  <2> QED BY <2>1, StillFollowed DEF Unchallenged, NotAdvancing
<1>10. CASE EndSteps
  <2>1. UNCHANGED <<run, request, claim>>
    BY <1>10 DEF EndSteps, MedicMoves
  <2>2. \A i \in Steps : /\ step'[i] = "done" => step[i] = "done"
                         /\ step'[i] # "waiting"
    BY <1>10, EndMoves DEF EndsAll, Settled, Targets
  <2> QED BY <2>1, <2>2, StillFollowed DEF Unchallenged, NotAdvancing
<1> QED
  BY <1>1, <1>2, <1>3, <1>4, <1>5, <1>6, <1>7, <1>8, <1>9, <1>10
     DEF PipelineNext, ClaimStep, MedicGoesOn

-----------------------------------------------------------------------------
(* The theorems *)

LEMMA InvariantInit ==
    ASSUME PipelineInit
    PROVE  PipelineInv
<1> USE PipelineAssumption DEF Steps, PipelineInit
<1>1. PipelineTypeOK
  BY DEF PipelineTypeOK, Unfinished, Active, Targets, Over
<1>2. InOrder /\ EndedApart
  BY DEF InOrder, EndedApart, Active, Unfinished
<1>3. EndingRequested /\ EndLeavesNoStep /\ NoStepIsLeftBehind
  BY DEF EndingRequested, EndLeavesNoStep, NoStepIsLeftBehind, Over, Targets
<1> QED
  BY <1>1, <1>2, <1>3 DEF PipelineInv

LEMMA InvariantKept ==
    ASSUME PipelineInv, [PipelineNext]_pipelineVars
    PROVE  PipelineInv'
<1>1. CASE PipelineNext
  BY <1>1, TypedKept, OrderKept, RequestedKept, EndsKept, FollowedKept DEF PipelineInv, Order
<1>2. CASE UNCHANGED pipelineVars
  BY <1>2 DEF pipelineVars, PipelineInv, PipelineTypeOK, InOrder, EndedApart, EndingRequested,
              EndLeavesNoStep, NoStepIsLeftBehind, Unchallenged, StepsIn
<1> QED BY <1>1, <1>2

LEMMA InvariantHolds == PipelineSpec => []PipelineInv
BY InvariantInit, InvariantKept, PTL DEF PipelineSpec

\* The columns hold what the code writes into them, and no retry count exceeds
\* its step's maximum, whatever the number of steps, claims and resumes.
THEOREM PipelineTyped == PipelineSpec => []PipelineTypeOK
<1>1. PipelineInv => PipelineTypeOK
  BY DEF PipelineInv
<1> QED BY <1>1, InvariantHolds, PTL

\* At most one step of a running run is pending or running, and none before it
\* waits, whoever calls advancePipeline and as often as he likes.
THEOREM OneStep == PipelineSpec => []OneStepAtATime
<1>1. PipelineInv => OneStepAtATime
  <2> SUFFICES ASSUME PipelineInv, NEW i \in Steps, NEW j \in Steps, step[i] \in Active, j # i
               PROVE  step[j] \notin Active /\ (j < i => step[j] # "waiting")
    BY DEF OneStepAtATime
  <2>1. j < i \/ i < j
    BY PipelineAssumption DEF Steps
  <2> QED BY <2>1 DEF PipelineInv, InOrder, Active, Settled
<1> QED BY <1>1, InvariantHolds, PTL

\* A done step that no completion is left to follow up has a later step that no
\* longer waits, so that reconciliation may look at the later step.
THEOREM NothingLeftBehind == PipelineSpec => []NoStepIsLeftBehind
<1>1. PipelineInv => NoStepIsLeftBehind
  BY DEF PipelineInv
<1> QED BY <1>1, InvariantHolds, PTL

\* A run that is over has no unfinished step, but between the medic's two
\* statements.
THEOREM EndLeavesNothing == PipelineSpec => []EndLeavesNoStep
<1>1. PipelineInv => EndLeavesNoStep
  BY DEF PipelineInv
<1> QED BY <1>1, InvariantHolds, PTL

=============================================================================
