---------------------------- MODULE StepPipeline ----------------------------
(***************************************************************************)
(* The steps of one run without stories (workflows bug-fix, daily-standup) *)
(* from waiting to done: the spawner claims a step, applies its completion *)
(* or failure, and an effect of the completion advances the pipeline.  At  *)
(* the same time an operator stops or resumes the run, and the medic fails *)
(* it or advances it.                                                      *)
(*                                                                         *)
(* advancePipeline and every owner transaction lock the run's row, hence   *)
(* one action each.  The medic reads and writes in statements of its own;  *)
(* what it remembers between them is `medic'.  A coordinator that found    *)
(* the pipeline not advanced yet is `poised' to advance it, a process that *)
(* skipped a step is `skipping' until it has advanced it: either may be    *)
(* slow, overtaken by a second one, or die.                                *)
(*                                                                         *)
(* What RunLifecycle knows about sessions, leases and drains is here one   *)
(* state of the claim.  All claims are the spawner's, with a session.      *)
(***************************************************************************)
EXTENDS Naturals, FiniteSets

CONSTANTS
    N,           \* steps of the workflow
    MaxRetries,  \* steps.max_retries of each, a quality gate's boosted to four
    Critical,    \* steps whose exhaustion fails the run
    MaxClaims,   \* bound on the claims of each
    MaxResumes,  \* bound on the operator's resumes
    MaxDeaths    \* bound on the processes that die

Steps == 1..N

Claims == UNION {{i} \X (1..MaxClaims[i]) : i \in Steps}

ASSUME PipelineAssumption ==
    /\ N \in Nat \ {0}
    /\ MaxRetries \in [Steps -> Nat]
    /\ MaxClaims \in [Steps -> Nat]
    /\ Critical \subseteq Steps
    /\ {MaxResumes, MaxDeaths} \subseteq Nat

VARIABLES
    protocol,  \* runs.protocol: legacy, or compiler for shadow and v3
    run,       \* runs.status; ending for cancelling and failing
    request,   \* target of the open termination request
    step,      \* steps.status
    retries,   \* steps.retry_count
    claim,     \* what became of each claim
    poised,    \* claims whose coordinator is about to advance the pipeline
    skipping,  \* claims whose process skipped the step and is about to advance
    medic,     \* where the medic is between two statements
    resumes,   \* resumes so far
    deaths     \* processes that died so far

pipelineVars == <<protocol, run, request, step, retries, claim, poised, skipping,
                  medic, resumes, deaths>>

Active == {"pending", "running"}

Unfinished == {"waiting"} \cup Active

Targets == {"failed", "cancelled"}

Over == {"completed"} \cup Targets

PipelineInit ==
    /\ protocol \in {"legacy", "compiler"}
    /\ run = "running"
    /\ request = "none"
    /\ step = [i \in Steps |-> IF i = 1 THEN "pending" ELSE "waiting"]
    /\ retries = [i \in Steps |-> 0]
    /\ claim = [c \in Claims |-> "absent"]
    /\ poised = {}
    /\ skipping = {}
    /\ medic = "idle"
    /\ resumes = 0
    /\ deaths = 0

-----------------------------------------------------------------------------
(* advancePipeline *)

Unchallenged == run = "running" /\ request = "none"

\* A completion whose owner committed is not accepted yet.
Processing == \E c \in Claims : claim[c] \in {"advance", "finalize"}

NoOpenClaim == \A c \in Claims : claim[c] # "open"

StepsIn(states) == {i \in Steps : step[i] \in states}

\* A termination is requested; while a completion is at work, which one of an
\* open claim may be, the run keeps its status.
RequestEnd(target) ==
    /\ request' = target
    /\ run' \in (IF Processing THEN {run}
                ELSE IF NoOpenClaim THEN {"ending"} ELSE {run, "ending"})

\* The first waiting step.
IsNext(i) == step[i] = "waiting" /\ \A j \in 1..(i - 1) : step[j] # "waiting"

\* Mutant: a step that is only pending does not count.
NothingRunningBefore(i) == \A j \in 1..(i - 1) : step[j] # "running"

NothingActiveBefore(i) == \A j \in 1..(i - 1) : step[j] \notin Active

\* A failed step before this one has no retry left.
FailedForGood(i) ==
    \E j \in 1..(i - 1) : step[j] = "failed" /\ retries[j] >= MaxRetries[j]

\* The next step is shown, or the run's end requested because an earlier step
\* failed for good.
ShowNext(i) ==
    /\ IsNext(i)
    /\ NothingActiveBefore(i)
    /\ IF FailedForGood(i)
       THEN RequestEnd("failed") /\ UNCHANGED step
       ELSE step' = [step EXCEPT ![i] = "pending"] /\ UNCHANGED <<run, request>>

Complete ==
    /\ StepsIn(Unfinished \cup {"failed"}) = {}
    /\ NoOpenClaim
    /\ run' = "completed"
    /\ UNCHANGED <<request, step>>

\* Nothing to show: the run is ending or over, a step is still at work, or a
\* failed one keeps the run from completing.
StayPut ==
    /\ \/ ~Unchallenged
       \/ \E i \in Steps : IsNext(i) /\ ~NothingActiveBefore(i)
       \/ StepsIn({"waiting"}) = {} /\ StepsIn(Active \cup {"failed"}) # {}
    /\ UNCHANGED <<run, request, step>>

AdvancePipeline ==
    \/ Unchallenged /\ \E i \in Steps : ShowNext(i)
    \/ Unchallenged /\ Complete
    \/ StayPut

-----------------------------------------------------------------------------
(* The spawner: claims, owner transactions and their continuation *)

PublishClaim(c) ==
    LET i == c[1] IN
    /\ Unchallenged
    /\ step[i] = "pending"
    /\ \A j \in 1..(i - 1) : step[j] \in {"done", "failed", "skipped"}
    /\ claim[c] = "absent"
    /\ \A n \in 1..(c[2] - 1) : claim[<<i, n>>] \notin {"absent", "open"}
    /\ step' = [step EXCEPT ![i] = "running"]
    /\ claim' = [claim EXCEPT ![c] = "open"]
    /\ UNCHANGED <<protocol, run, request, retries, poised, skipping, medic, resumes, deaths>>

\* What every owner transaction of an open claim tests.
Owns(c) ==
    /\ Unchallenged
    /\ claim[c] = "open"
    /\ step[c[1]] \in Active

\* The step is done; the plan of the receipt is to advance the pipeline.
CompleteStep(c) ==
    /\ Owns(c)
    /\ step' = [step EXCEPT ![c[1]] = "done"]
    /\ claim' = [claim EXCEPT ![c] = "advance"]
    /\ UNCHANGED <<protocol, run, request, retries, poised, skipping, medic, resumes, deaths>>

\* A failure's plan has nothing left to do.
Finalize(c, status, count) ==
    /\ Owns(c)
    /\ step' = [step EXCEPT ![c[1]] = status]
    /\ retries' = [retries EXCEPT ![c[1]] = count]
    /\ claim' = [claim EXCEPT ![c] = "finalize"]
    /\ UNCHANGED <<protocol, run, poised, medic, resumes, deaths>>

RetryStep(c) ==
    LET i == c[1] IN
    /\ \/ Finalize(c, "pending", retries[i])  \* the agent's infrastructure failed
       \/ /\ retries[i] < MaxRetries[i]
          /\ Finalize(c, "pending", retries[i] + 1)
    /\ UNCHANGED <<request, skipping>>

\* The retries are used up; or a platform preclaim of a v3 step failed, which is
\* not retried and counts none.
GiveUp(c, status) ==
    \/ /\ retries[c[1]] >= MaxRetries[c[1]]
       /\ Finalize(c, status, MaxRetries[c[1]])
    \/ /\ protocol = "compiler"
       /\ Finalize(c, status, retries[c[1]])

FailCritical(c) ==
    /\ c[1] \in Critical
    /\ GiveUp(c, "failed")
    /\ request' = "failed"
    /\ UNCHANGED skipping

\* The pipeline is advanced after the commit, by this process alone.
SkipStep(c) ==
    /\ c[1] \notin Critical
    /\ GiveUp(c, "skipped")
    /\ skipping' = skipping \cup {c}
    /\ UNCHANGED request

AdvanceAfterSkip(c) ==
    /\ c \in skipping
    /\ AdvancePipeline
    /\ skipping' = skipping \ {c}
    /\ UNCHANGED <<protocol, retries, claim, poised, medic, resumes, deaths>>

Dies ==
    /\ deaths < MaxDeaths
    /\ deaths' = deaths + 1

\* A process dies with what it was about to do.
Die(c) ==
    /\ c \in skipping \cup poised
    /\ Dies
    /\ skipping' = skipping \ {c}
    /\ poised' = poised \ {c}
    /\ UNCHANGED <<protocol, run, request, step, retries, claim, medic, resumes>>

\* Mutant: any other visible step is taken for the next one.
SeenAnyStep(c) ==
    \/ run \in Over
    \/ claim[c] = "finalize"
    \/ \E j \in Steps \ {c[1]} : step[j] # "waiting"

\* Reconciliation takes the effect for done: the run is over, the owner
\* transaction said it all, or a later step is visible.
SeenDone(c) ==
    \/ run \in Over
    \/ claim[c] = "finalize"
    \/ \E j \in (c[1] + 1)..N : step[j] # "waiting"

Accepted(c) ==
    /\ claim' = [claim EXCEPT ![c] = "settled"]
    /\ UNCHANGED <<protocol, run, request, step, retries, skipping, medic, resumes, deaths>>

ReconcileEffect(c) ==
    /\ claim[c] \in {"advance", "finalize"}
    /\ SeenDone(c)
    /\ Accepted(c)
    /\ UNCHANGED poised

DecideToAdvance(c) ==
    /\ claim[c] = "advance"
    /\ ~SeenDone(c)
    /\ poised' = poised \cup {c}
    /\ UNCHANGED <<protocol, run, request, step, retries, claim, skipping, medic, resumes, deaths>>

\* The coordinator advances the pipeline and writes the receipt; a second one
\* may still be poised over the same claim.
ApplyEffect(c) ==
    /\ claim[c] = "advance"
    /\ c \in poised
    /\ AdvancePipeline
    /\ poised' \in {poised, poised \ {c}}
    /\ claim' = [claim EXCEPT ![c] = "settled"]
    /\ UNCHANGED <<protocol, retries, skipping, medic, resumes, deaths>>

AppliesAlone(c) ==
    /\ c \in poised
    /\ AdvancePipeline
    /\ poised' = poised \ {c}
    /\ UNCHANGED <<protocol, retries, claim, skipping, medic, resumes>>

ApplyAndDie(c) ==
    /\ claim[c] = "advance"
    /\ Dies
    /\ AppliesAlone(c)

\* The receipt is written, by another coordinator.
ApplyLate(c) ==
    /\ claim[c] # "advance"
    /\ AppliesAlone(c)
    /\ UNCHANGED deaths

-----------------------------------------------------------------------------
(* The run's end and its resumption *)

RequestStop ==
    /\ Unchallenged
    /\ RequestEnd("cancelled")
    /\ UNCHANGED <<protocol, step, retries, claim, poised, skipping, medic, resumes, deaths>>

\* The termination processor waits for the completions.
ClaimTermination ==
    /\ request # "none"
    /\ run = "running"
    /\ ~Processing
    /\ run' = "ending"
    /\ UNCHANGED <<protocol, request, step, retries, claim, poised, skipping, medic,
                   resumes, deaths>>

\* Mutant: the end of the run ends the active steps only.
TerminalizeActive ==
    /\ run \in {"ending", request}
    /\ ~Processing
    /\ run' = request
    /\ request' = IF run = "ending" THEN "none" ELSE request
    /\ step' = [i \in Steps |-> IF step[i] \in Active THEN request ELSE step[i]]
    /\ claim' = [c \in Claims |-> IF claim[c] = "open" THEN "settled" ELSE claim[c]]
    /\ UNCHANGED <<protocol, retries, poised, skipping, medic, resumes, deaths>>

\* Ends the open claims and the unfinished steps with the run.  Over a run the
\* medic failed meanwhile it ends what is left, and the request stays open; one
\* nobody had claimed by then is only given up, a case not told apart here.
Terminalize ==
    /\ run \in {"ending", request}
    /\ ~Processing
    /\ run' = request
    /\ request' = IF run = "ending" THEN "none" ELSE request
    /\ step' = [i \in Steps |-> IF step[i] \in Unfinished THEN request ELSE step[i]]
    /\ claim' = [c \in Claims |-> IF claim[c] = "open" THEN "settled" ELSE claim[c]]
    /\ UNCHANGED <<protocol, retries, poised, skipping, medic, resumes, deaths>>

Resumable(i) == step[i] = "failed" \/ step[i] = run

\* compileLegacyResumePlan and its application: the first failed step starts
\* again, what failed or was skipped after it waits again.  An open claim of a
\* run the medic ended, which nobody can close any more, keeps it from resuming.
Resume ==
    /\ resumes < MaxResumes
    /\ protocol = "legacy"
    /\ run \in Targets
    /\ request = "none"
    /\ \A c \in Claims : claim[c] \in {"absent", "settled"}
    /\ \E i \in Steps :
          /\ Resumable(i)
          /\ \A j \in 1..(i - 1) : ~Resumable(j)
          /\ step' = [j \in Steps |->
                         IF j = i THEN "pending"
                         ELSE IF j > i /\ step[j] \in {"failed", "skipped", "cancelled"}
                         THEN "waiting" ELSE step[j]]
          /\ retries' = [j \in Steps |->
                            IF j = i \/ (j > i /\ step[j] \in {"failed", "skipped", "cancelled"})
                            THEN 0 ELSE retries[j]]
    /\ run' = "running"
    /\ resumes' = resumes + 1
    /\ UNCHANGED <<protocol, request, claim, poised, skipping, medic, deaths>>

-----------------------------------------------------------------------------
(* The medic, one statement after the other *)

\* Mutant: a session counts for an owner after its release.
NoOwnerEver ==
    /\ request = "none"
    /\ \A c \in Claims : claim[c] = "absent"

\* No session, completion or termination that would go on with the run.
NoDurableOwner ==
    /\ request = "none"
    /\ NoOpenClaim
    /\ ~Processing

MedicMoves(from, to) ==
    /\ medic = from
    /\ medic' = to
    /\ UNCHANGED <<protocol, retries, claim, poised, skipping, resumes, deaths>>

LastStatement == {"failSteps", "skipSteps"}

\* The three findings: nothing of a running run can go on, a done step with
\* the next one waiting, no step touched for six hours.  A medic that died
\* before its last statement is forgotten when the next one looks.  What is found
\* of a run of the compiler is dropped before anything is done.
Finding ==
    /\ protocol = "legacy"
    /\ run = "running"
    /\ \E before \in {"idle"} \cup LastStatement :
          \/ StepsIn(Unfinished) = {} /\ MedicMoves(before, "dead")
          \/ /\ \E i \in 1..(N - 1) : step[i] = "done" /\ step[i + 1] = "waiting"
             /\ MedicMoves(before, "stuck")
          \/ NoDurableOwner /\ MedicMoves(before, "stalled")
    /\ UNCHANGED <<run, request, step>>

\* Remediation starts with the test for owners.
Remediate ==
    /\ \E finding \in {"dead", "stuck"} :
          MedicMoves(finding,
                     IF NoDurableOwner
                     THEN (IF finding = "dead" THEN "unowned" ELSE "advance")
                     ELSE "idle")
    /\ UNCHANGED <<run, request, step>>

MedicAdvances == MedicMoves("advance", "idle") /\ AdvancePipeline

ReadRunToFail ==
    /\ MedicMoves("unowned", IF run = "running" THEN "failing" ELSE "idle")
    /\ UNCHANGED <<run, request, step>>

FailRun ==
    /\ MedicMoves("failing", "failSteps")
    /\ run' = "failed"
    /\ UNCHANGED <<request, step>>

FailStalledRun ==
    /\ MedicMoves("stalled", "skipSteps")
    /\ run' = IF run = "running" THEN "failed" ELSE run
    /\ UNCHANGED <<request, step>>

EndSteps ==
    /\ \/ /\ MedicMoves("failSteps", "idle")
          /\ step' = [i \in Steps |-> IF step[i] \in Unfinished THEN "failed" ELSE step[i]]
       \/ /\ MedicMoves("skipSteps", "idle")
          /\ step' = [i \in Steps |-> IF step[i] \in {"done", "failed", "skipped"}
                                      THEN step[i] ELSE "skipped"]
    /\ UNCHANGED <<run, request>>

-----------------------------------------------------------------------------

ClaimStep(c) ==
    \/ PublishClaim(c)
    \/ CompleteStep(c)
    \/ RetryStep(c)
    \/ FailCritical(c)
    \/ SkipStep(c)
    \/ AdvanceAfterSkip(c)
    \/ Die(c)
    \/ ReconcileEffect(c)
    \/ DecideToAdvance(c)
    \/ ApplyEffect(c)
    \/ ApplyAndDie(c)
    \/ ApplyLate(c)

\* What a living medic does; it may die before its last statement.
MedicGoesOn ==
    \/ Finding
    \/ Remediate
    \/ MedicAdvances
    \/ ReadRunToFail
    \/ FailRun
    \/ FailStalledRun

PipelineNext ==
    \/ \E c \in Claims : ClaimStep(c)
    \/ RequestStop
    \/ ClaimTermination
    \/ Terminalize
    \/ Resume
    \/ MedicGoesOn
    \/ EndSteps

PipelineSpec == PipelineInit /\ [][PipelineNext]_pipelineVars

\* A process that does not die does its next step, and the spawner takes
\* completions and terminations on at every poll.
ProcessGoesOn ==
    \/ \E c \in Claims :
          AdvanceAfterSkip(c) \/ ReconcileEffect(c) \/ DecideToAdvance(c) \/ ApplyEffect(c)
    \/ ClaimTermination
    \/ run = "ending" /\ Terminalize

\* The medic runs every few minutes.
PipelineFairness ==
    /\ WF_pipelineVars(ProcessGoesOn)
    /\ WF_pipelineVars(MedicGoesOn)

FairPipelineSpec == PipelineSpec /\ PipelineFairness

-----------------------------------------------------------------------------
(* Properties *)

\* The columns hold what the code writes into them, and no retry count exceeds
\* its step's maximum.
PipelineTypeOK ==
    /\ protocol \in {"legacy", "compiler"}
    /\ run \in {"running", "ending"} \cup Over
    /\ request \in {"none"} \cup Targets
    /\ step \in [Steps -> Unfinished \cup {"done", "skipped"} \cup Targets]
    /\ retries \in [Steps -> Nat]
    /\ \A i \in Steps : retries[i] <= MaxRetries[i]
    /\ claim \in [Claims -> {"absent", "open", "advance", "finalize", "settled"}]
    /\ poised \subseteq Claims
    /\ skipping \subseteq Claims
    /\ medic \in {"idle", "dead", "stuck", "stalled", "unowned", "advance",
                  "failing", "failSteps", "skipSteps"}

\* While the run is running at most one of its steps is pending or running, and
\* no step before it waits: a coordinator that comes late, one that was replaced
\* and the medic call advancePipeline as often as they like, and an operator's
\* resume starts the pipeline again in the middle.
OneStepAtATime ==
    run = "running" =>
        \A i, j \in Steps : step[i] \in Active /\ j # i =>
            /\ step[j] \notin Active
            /\ j < i => step[j] # "waiting"

\* When no completion of a done step is left to advance the pipeline, a later
\* step is visible or the run is over: reconciliation, which looks at a later
\* step instead of at what its own effect did, is right.
NoStepIsLeftBehind ==
    Unchallenged =>
        \A i \in Steps :
            /\ step[i] = "done"
            /\ \A n \in 1..MaxClaims[i] : claim[<<i, n>>] # "advance"
            => \E j \in (i + 1)..N : step[j] # "waiting"

\* A run that is over has no step that waits, is pending or running, but between
\* the medic's two statements: a coordinator or a medic that read the run before
\* its end leaves none behind.
EndLeavesNoStep ==
    run \in Over /\ medic \notin LastStatement => StepsIn(Unfinished) = {}

\* The process that skipped a step died before it advanced the pipeline, and the
\* medic does not touch runs of the compiler.
SkipForgotten ==
    /\ protocol = "compiler"
    /\ skipping = {}
    /\ \E i \in Steps : step[i] = "skipped" /\ (i = N \/ step[i + 1] = "waiting")

\* A run that is not over and that nobody works on shows its next step or ends,
\* through deaths of coordinators and the medic's writes, but for a skip whose
\* process died.
PipelineGoesOn ==
    (run \notin Over /\ StepsIn(Active) = {} /\ NoOpenClaim) ~>
        (run \in Over \/ StepsIn(Active) # {} \/ SkipForgotten)
=============================================================================
