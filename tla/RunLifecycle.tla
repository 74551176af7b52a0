---------------------------- MODULE RunLifecycle ----------------------------
(***************************************************************************)
(* One run with its claims, runtime sessions, execution attempts, runtime  *)
(* completions and termination request, as the repositories under          *)
(* src/src/execution change them.                                          *)
(*                                                                         *)
(* Every repository call is one database transaction that locks the run's  *)
(* row first, or changes a single row in one UPDATE, hence one action.  An *)
(* action is taken by whoever calls the repository: the spawner's recovery *)
(* pump, an exit handler, the claim path, the server.  Callers keep no     *)
(* state here, so every order of their calls is explored; a crash is a     *)
(* caller that takes no further action.                                    *)
(*                                                                         *)
(* A lease is kept as `live': the clock passing lease_expires_at is an     *)
(* action, a heartbeat is that action not happening.  The owner columns    *)
(* are left out: a fenced call of anybody but the owner is refused and     *)
(* changes nothing, so a fenced action stands for the owner's call.        *)
(*                                                                         *)
(* Steps and stories are `work': waiting counts as pending, a story that a *)
(* cancellation skips as cancelled, any other skipped one as done.  A      *)
(* claim has at most one session, one attempt and one completion (unique   *)
(* columns), so these are functions of the claim.  The status `resuming',  *)
(* which only the medic writes, is left out with the medic.                *)
(***************************************************************************)
EXTENDS Naturals, FiniteSets

CONSTANTS
    Claims,           \* claim_log rows the run may get
    Work,             \* its steps and stories
    WorkOf,           \* the step or story each claim is for
    Legacy,           \* runs.protocol = 'legacy' rather than 'v3'
    MaxRequests,      \* bound on termination requests
    MaxOwnerAttempts  \* owner_attempt_count a completion may reach

ASSUME LifecycleAssumption ==
    /\ WorkOf \in [Claims -> Work]
    /\ Legacy \in BOOLEAN
    /\ MaxRequests \in Nat
    /\ MaxOwnerAttempts \in Nat \ {0}

VARIABLES
    run,            \* runs.status
    request,        \* the last termination request, by number
    work,           \* status of every step or story
    claim,          \* claim_log.outcome: absent, open (NULL) or closed
    attempt,        \* execution_attempts.disposition of the claim
    session,        \* runtime_sessions.state of the claim
    completion,     \* runtime_completion_requests row of the claim
    terminalEvents  \* run.terminal events in the outbox

lifecycleVars == <<run, request, work, claim, attempt, session, completion,
                   terminalEvents>>

Targets == {"failed", "cancelled"}

RunStates == {"running", "cancelling", "failing", "completed"} \cup Targets

Requests == [id : 0..MaxRequests, target : Targets, live : BOOLEAN,
             state : {"none", "requested", "draining", "drained",
                      "terminalized", "quarantined"}]

\* States from which a drain may be asked for: a runtime is or may come up.
Startable == {"reserved", "starting", "running"}

SessionStates == Startable \cup
                 {"none", "drain_requested", "drained", "released", "quarantined"}

Committed == {"owner_committed", "effects_committed"}

Completions == [state : {"none", "requested", "draining", "processing",
                         "accepted", "rejected", "quarantined"},
                phase : {"proposed", "executing"} \cup Committed,
                live : BOOLEAN, tries : 0..MaxOwnerAttempts,
                effects : {"none", "pending", "applied"}]

NoCompletion == [state |-> "none", phase |-> "proposed", live |-> FALSE,
                 tries |-> 0, effects |-> "none"]

LifecycleInit ==
    /\ run = "running"
    /\ request = [id |-> 0, target |-> "failed", live |-> FALSE, state |-> "none"]
    /\ work = [w \in Work |-> "pending"]
    /\ claim = [c \in Claims |-> "absent"]
    /\ attempt = [c \in Claims |-> "none"]
    /\ session = [c \in Claims |-> "none"]
    /\ completion = [c \in Claims |-> NoCompletion]
    /\ terminalEvents = {}

-----------------------------------------------------------------------------
(* What the transactions test *)

OpenTermination == request.state \notin {"none", "terminalized"}

\* The run takes new work: it is active and nobody asked for its end.
Unchallenged == run = "running" /\ ~OpenTermination

ActiveAttempt(c) == attempt[c] \in {"claimed", "running"}

Owned(c) == completion[c].state \in {"draining", "processing"}

NoCompletionOwner == \A c \in Claims : ~Owned(c)

\* Mutant: a requested drain counts as a drained runtime.
DrainAskedFor == \A c \in Claims :
                    session[c] \in {"none", "drain_requested", "drained", "released"}

\* No runtime of the run is left.
AllDrained == \A c \in Claims : session[c] \in {"none", "drained", "released"}

\* Mutant: one attempt too many.
OverBudget(c) == completion[c].tries <= MaxOwnerAttempts

WithinBudget(c) == completion[c].tries < MaxOwnerAttempts

\* Every open claim has a session whose drain can be proven.
ClaimsTracked == \A c \in Claims : claim[c] = "open" => session[c] # "none"

SourceStatus(target) == IF target = "cancelled" THEN "cancelling" ELSE "failing"

\* The outbox takes a terminal event only if its key is free or its payload,
\* which names the termination request, is the same.
EventKeyFree(status, id) ==
    \A e \in terminalEvents : e.status = status => e.request = id

WithEvent(status, id) == terminalEvents \cup {[status |-> status, request |-> id]}

\* requestRunTerminationInTransaction: the run keeps its active status while a
\* completion is owned, and the request waits for it.
Terminate(target) ==
    /\ request.id < MaxRequests
    /\ run' = IF NoCompletionOwner THEN SourceStatus(target) ELSE run
    /\ request' = [id |-> request.id + 1, target |-> target, live |-> FALSE,
                   state |-> "requested"]

\* The attempt ends with its claim.
ClosedAttempt(c) == IF ActiveAttempt(c) THEN "closed" ELSE attempt[c]

CloseOwners(c, outcome) ==
    /\ claim' = [claim EXCEPT ![c] = "closed"]
    /\ attempt' = [attempt EXCEPT ![c] = ClosedAttempt(c)]
    /\ work' = [work EXCEPT ![WorkOf[c]] = outcome]

-----------------------------------------------------------------------------
(* Claims, attempts and runtimes *)

\* Mutant: the earlier runtime of the same work is not looked at.
PublishOverRuntime(c, managed) ==
    /\ Unchallenged
    /\ claim[c] = "absent"
    /\ work[WorkOf[c]] = "pending"
    /\ managed \/ Legacy
    /\ work' = [work EXCEPT ![WorkOf[c]] = "running"]
    /\ claim' = [claim EXCEPT ![c] = "open"]
    /\ session' = IF managed THEN [session EXCEPT ![c] = "reserved"] ELSE session
    /\ UNCHANGED <<run, request, attempt, completion, terminalEvents>>

\* The claim and the reservation of its runtime appear together; only a legacy
\* claim may do without a runtime session.
PublishClaim(c, managed) ==
    /\ Unchallenged
    /\ claim[c] = "absent"
    /\ work[WorkOf[c]] = "pending"
    /\ \A d \in Claims :
          WorkOf[d] = WorkOf[c] => session[d] \in {"none", "released"}
    /\ managed \/ Legacy
    /\ work' = [work EXCEPT ![WorkOf[c]] = "running"]
    /\ claim' = [claim EXCEPT ![c] = "open"]
    /\ session' = IF managed THEN [session EXCEPT ![c] = "reserved"] ELSE session
    /\ UNCHANGED <<run, request, attempt, completion, terminalEvents>>

\* Reserves the attempt of an open claim and binds it to the session.
BindAttempt(c) ==
    /\ ~Legacy
    /\ claim[c] = "open"
    /\ attempt[c] = "none"
    /\ session[c] = "reserved"
    /\ attempt' = [attempt EXCEPT ![c] = "claimed"]
    /\ UNCHANGED <<run, request, work, claim, session, completion, terminalEvents>>

MarkStarting(c) ==
    /\ Unchallenged
    /\ session[c] = "reserved"
    /\ session' = [session EXCEPT ![c] = "starting"]
    /\ UNCHANGED <<run, request, work, claim, attempt, completion, terminalEvents>>

\* Mutant: a termination published after markStarting is not noticed.
MarkRunningUnchecked(c) ==
    /\ session[c] = "starting"
    /\ attempt[c] # "closed"
    /\ session' = [session EXCEPT ![c] = "running"]
    /\ attempt' = [attempt EXCEPT ![c] = IF ActiveAttempt(c) THEN "running" ELSE @]
    /\ UNCHANGED <<run, request, work, claim, completion, terminalEvents>>

\* The bound attempt comes up with its runtime, or the transaction throws.
MarkRunning(c) ==
    /\ Unchallenged
    /\ session[c] = "starting"
    /\ attempt[c] # "closed"
    /\ session' = [session EXCEPT ![c] = "running"]
    /\ attempt' = [attempt EXCEPT ![c] = IF ActiveAttempt(c) THEN "running" ELSE @]
    /\ UNCHANGED <<run, request, work, claim, completion, terminalEvents>>

SessionMoves(c, from, to) ==
    /\ session[c] \in from
    /\ session' = [session EXCEPT ![c] = to]
    /\ UNCHANGED <<run, request, work, claim, attempt, completion, terminalEvents>>

RequestDrain(c) == SessionMoves(c, Startable, "drain_requested")

\* Taken with evidence that no process of the runtime is left.
MarkSessionDrained(c) == SessionMoves(c, {"drain_requested"}, "drained")

\* A failed spawn, drain, exit handler or shutdown gives the session up,
\* whatever it has reached.
QuarantineSession(c) ==
    SessionMoves(c, Startable \cup {"drain_requested", "drained"}, "quarantined")

RecoverQuarantinedForTermination(c) ==
    /\ request.state = "draining"
    /\ request.live
    /\ SessionMoves(c, {"quarantined"}, "drained")

\* A reserved runtime was never launched, a drained one is gone: either may be
\* released once its claim and attempt are over.
ReleaseSession(c) ==
    /\ claim[c] = "closed"
    /\ ~ActiveAttempt(c)
    /\ SessionMoves(c, {"reserved", "drained"}, "released")

\* A fenced claim mutation outside a completion: a step that fails, is
\* recovered as an orphan or is completed directly.
CloseClaim(c, outcome) ==
    /\ Unchallenged
    /\ claim[c] = "open"
    /\ completion[c].state \in {"none", "accepted", "rejected"}
    /\ session[c] \in {"none", "reserved", "drained", "released"}
    /\ CloseOwners(c, outcome)
    /\ IF outcome = "failed" THEN Terminate("failed") ELSE UNCHANGED <<run, request>>
    /\ UNCHANGED <<session, completion, terminalEvents>>

-----------------------------------------------------------------------------
(* Completions: a claim's owner proposes its output, the spawner drains the *)
(* runtime, applies the owner's transition and its effects, and accepts     *)

\* One row of runtime_completion_requests changes and nothing else.
Completes(c, row) ==
    /\ completion' = [completion EXCEPT ![c] = row]
    /\ UNCHANGED <<run, request, work, claim, attempt, session, terminalEvents>>

\* The request asks for the drain of whatever runtime may still run.
RequestCompletion(c) ==
    /\ Unchallenged
    /\ claim[c] = "open"
    /\ completion[c].state = "none"
    /\ session[c] \in Startable \cup {"drain_requested", "drained"}
    /\ work[WorkOf[c]] = "running"
    /\ completion' = [completion EXCEPT ![c].state = "requested"]
    /\ session' = [session EXCEPT ![c] =
                      IF @ \in Startable THEN "drain_requested" ELSE @]
    /\ UNCHANGED <<run, request, work, claim, attempt, terminalEvents>>

\* A termination published first wins over a proposal nobody owns; one whose
\* drain was under way is taken over, if only to be preempted.
ClaimCompletion(c) ==
    /\ \/ completion[c].state = "requested" /\ ~OpenTermination
       \/ completion[c].state = "draining" /\ ~completion[c].live
    /\ Completes(c, [completion[c] EXCEPT !.state = "draining", !.live = TRUE])

MarkProcessing(c) ==
    /\ completion[c].state = "draining"
    /\ completion[c].live
    /\ session[c] = "drained"
    /\ claim[c] = "open"
    /\ Unchallenged
    /\ WithinBudget(c)
    /\ Completes(c, [completion[c] EXCEPT !.state = "processing", !.phase = "executing",
                                          !.tries = @ + 1])

\* The live owner of a completion in one of these phases.
Processing(c, phases) ==
    /\ completion[c].state = "processing"
    /\ completion[c].live
    /\ completion[c].phase \in phases

\* The owner's transition: claim, attempt, work and the receipt of it all in
\* one transaction, and the run's end with them if the work failed for good.
OwnerCommit(c, outcome) ==
    /\ Processing(c, {"executing"})
    /\ Unchallenged
    /\ claim[c] = "open"
    /\ session[c] = "drained"
    /\ CloseOwners(c, outcome)
    /\ completion' = [completion EXCEPT ![c] =
                         [@ EXCEPT !.phase = "owner_committed", !.effects = "pending"]]
    /\ IF outcome = "failed" THEN Terminate("failed") ELSE UNCHANGED <<run, request>>
    /\ UNCHANGED <<session, terminalEvents>>

ApplyEffects(c) ==
    /\ Processing(c, {"owner_committed"})
    /\ completion[c].effects = "pending"
    /\ Completes(c, [completion[c] EXCEPT !.effects = "applied"])

\* Mutant: the effects manifest is not checked.
MarkEffectsUnchecked(c) ==
    /\ Processing(c, {"owner_committed"})
    /\ Completes(c, [completion[c] EXCEPT !.phase = "effects_committed"])

MarkEffectsCommitted(c) ==
    /\ Processing(c, {"owner_committed"})
    /\ completion[c].effects = "applied"
    /\ Completes(c, [completion[c] EXCEPT !.phase = "effects_committed"])

\* The runtime may have been released before, by the run's own completion.
AcceptAndRelease(c) ==
    /\ Processing(c, {"effects_committed"})
    /\ claim[c] = "closed"
    /\ ~ActiveAttempt(c)
    /\ session[c] \in {"drained", "released"}
    /\ completion' = [completion EXCEPT ![c] =
                         [@ EXCEPT !.state = "accepted", !.live = FALSE]]
    /\ session' = [session EXCEPT ![c] = "released"]
    /\ UNCHANGED <<run, request, work, claim, attempt, terminalEvents>>

ExpireCompletionLease(c) ==
    /\ Owned(c)
    /\ completion[c].live
    /\ Completes(c, [completion[c] EXCEPT !.live = FALSE])

Rejected(c) == [completion[c] EXCEPT !.state = "rejected", !.live = FALSE]

Reclaimed(c) == [completion[c] EXCEPT !.live = TRUE]

GivenUp(c) == [completion[c] EXCEPT !.state = "quarantined", !.live = FALSE]

\* The four ways out of an expired owner: preempted before its commit, run
\* again within its budget, continued from its receipt, or given up.
ExpiredPreemptible(c) ==
    OpenTermination /\ completion[c].phase = "executing" /\ claim[c] = "open"

ExpiredBeforeCommit(c) ==
    session[c] = "drained" /\ claim[c] = "open" /\ completion[c].phase = "executing"

ExpiredAfterCommit(c) ==
    session[c] = "drained" /\ claim[c] = "closed" /\ completion[c].phase \in Committed

RecoverExpiredProcessing(c) ==
    /\ completion[c].state = "processing"
    /\ ~completion[c].live
    /\ \/ /\ ExpiredPreemptible(c)
          /\ Completes(c, Rejected(c))
       \/ /\ ~ExpiredPreemptible(c)
          /\ ExpiredBeforeCommit(c)
          /\ WithinBudget(c)
          /\ Completes(c, [Reclaimed(c) EXCEPT !.tries = @ + 1])
       \/ /\ ExpiredAfterCommit(c)
          /\ Completes(c, Reclaimed(c))
       \/ /\ ~ExpiredPreemptible(c)
          /\ ~ExpiredAfterCommit(c)
          /\ ExpiredBeforeCommit(c) => ~WithinBudget(c)
          /\ Completes(c, GivenUp(c))

\* Mutant: a durable receipt does not protect the completion.
PreemptWhatever(c) ==
    /\ OpenTermination
    /\ completion[c].state \in {"requested", "draining", "processing"}
    /\ Completes(c, Rejected(c))

\* An open termination takes back a completion that has not committed.
PreemptForTermination(c) ==
    /\ OpenTermination
    /\ \/ completion[c].state \in {"requested", "draining"}
       \/ /\ completion[c].state = "processing"
          /\ completion[c].phase = "executing"
          /\ claim[c] = "open"
    /\ Completes(c, Rejected(c))

\* The owner failed while it held its lease and had nothing committed; the
\* spawner gives the session up next, in a transaction of its own.
GiveUpCompletion(c) ==
    /\ completion[c].live
    /\ \/ completion[c].state = "draining"
       \/ completion[c].state = "processing" /\ completion[c].phase = "executing"
    /\ Completes(c, GivenUp(c))

-----------------------------------------------------------------------------
(* Termination *)

RequestTermination(target) ==
    /\ run = "running"
    /\ ~OpenTermination
    /\ Terminate(target)
    /\ UNCHANGED <<work, claim, attempt, session, completion, terminalEvents>>

\* Mutant: a completion under way does not hold the termination back.
ClaimTerminationAtOnce ==
    /\ \/ request.state = "requested"
       \/ request.state = "draining" /\ ~request.live
    /\ run \in {"running", SourceStatus(request.target)}
    /\ run' = SourceStatus(request.target)
    /\ request' = [request EXCEPT !.state = "draining", !.live = TRUE]
    /\ session' = [c \in Claims |-> IF session[c] \in Startable
                                    THEN "drain_requested" ELSE session[c]]
    /\ UNCHANGED <<work, claim, attempt, completion, terminalEvents>>

\* Takes the run out of its active status and asks every runtime to drain.
ClaimTermination ==
    /\ \/ request.state = "requested"
       \/ request.state = "draining" /\ ~request.live
    /\ NoCompletionOwner
    /\ run \in {"running", SourceStatus(request.target)}
    /\ run' = SourceStatus(request.target)
    /\ request' = [request EXCEPT !.state = "draining", !.live = TRUE]
    /\ session' = [c \in Claims |-> IF session[c] \in Startable
                                    THEN "drain_requested" ELSE session[c]]
    /\ UNCHANGED <<work, claim, attempt, completion, terminalEvents>>

RequestMoves(row) ==
    /\ request' = row
    /\ UNCHANGED <<run, work, claim, attempt, session, completion, terminalEvents>>

ExpireTerminationLease ==
    /\ request.state = "draining"
    /\ request.live
    /\ RequestMoves([request EXCEPT !.live = FALSE])

MarkTerminationDrained ==
    /\ request.state = "draining"
    /\ request.live
    /\ AllDrained
    /\ ClaimsTracked
    /\ RequestMoves([request EXCEPT !.state = "drained"])

\* What the transition to the request's target asks of a drained request.
MayTerminalize ==
    /\ request.state = "drained"
    /\ run = SourceStatus(request.target)
    /\ AllDrained
    /\ ClaimsTracked
    /\ EventKeyFree(request.target, request.id)

\* A pass over the request that throws anywhere gives it up for good: a claim,
\* a drain or a transition that fails or is refused.
QuarantineTermination ==
    /\ request.state \in {"requested", "draining", "drained"}
    /\ RequestMoves([request EXCEPT !.state = "quarantined", !.live = FALSE])

\* Mutant: the proposals of the terminated run are left open.
TerminalizeKeepingProposals ==
    /\ MayTerminalize
    /\ run' = request.target
    /\ request' = [request EXCEPT !.state = "terminalized", !.live = FALSE]
    /\ work' = [w \in Work |-> IF work[w] \in {"pending", "running"}
                               THEN request.target ELSE work[w]]
    /\ claim' = [c \in Claims |-> IF claim[c] = "open" THEN "closed" ELSE claim[c]]
    /\ attempt' = [c \in Claims |-> ClosedAttempt(c)]
    /\ session' = [c \in Claims |-> IF session[c] = "drained"
                                    THEN "released" ELSE session[c]]
    /\ terminalEvents' = WithEvent(request.target, request.id)
    /\ UNCHANGED completion

\* The whole end of a run in one transaction: attempts, claims, work,
\* proposals, the run, its runtimes, the event and the request.
Terminalize ==
    /\ MayTerminalize
    /\ run' = request.target
    /\ request' = [request EXCEPT !.state = "terminalized", !.live = FALSE]
    /\ work' = [w \in Work |-> IF work[w] \in {"pending", "running"}
                               THEN request.target ELSE work[w]]
    /\ claim' = [c \in Claims |-> IF claim[c] = "open" THEN "closed" ELSE claim[c]]
    /\ attempt' = [c \in Claims |-> ClosedAttempt(c)]
    /\ completion' = [c \in Claims |->
                         IF completion[c].state \in {"requested", "draining"}
                         THEN Rejected(c) ELSE completion[c]]
    /\ session' = [c \in Claims |-> IF session[c] = "drained"
                                    THEN "released" ELSE session[c]]
    /\ terminalEvents' = WithEvent(request.target, request.id)

-----------------------------------------------------------------------------
(* The other ends of a run *)

\* Mutant: open owners do not keep the run from completing.
CompleteOverOwners ==
    /\ Unchallenged
    /\ run' = "completed"
    /\ session' = [c \in Claims |-> IF session[c] = "drained"
                                    THEN "released" ELSE session[c]]
    /\ terminalEvents' = WithEvent("completed", 0)
    /\ UNCHANGED <<request, work, claim, attempt, completion>>

\* Whoever closes the last piece of work completes the run; the runtimes that
\* are not drained are left to the exit handlers.
CompleteRun ==
    /\ Unchallenged
    /\ \A w \in Work : work[w] \in {"done", "cancelled"}
    /\ \A c \in Claims : claim[c] # "open" /\ ~ActiveAttempt(c)
    /\ run' = "completed"
    /\ session' = [c \in Claims |-> IF session[c] = "drained"
                                    THEN "released" ELSE session[c]]
    /\ terminalEvents' = WithEvent("completed", 0)
    /\ UNCHANGED <<request, work, claim, attempt, completion>>

\* A run that never got a claim fails without a drain.
FailUnclaimedRun ==
    /\ Unchallenged
    /\ \A c \in Claims : claim[c] = "absent"
    /\ EventKeyFree("failed", 0)
    /\ run' = "failed"
    /\ work' = [w \in Work |-> IF work[w] \in {"pending", "running"}
                               THEN "failed" ELSE work[w]]
    /\ terminalEvents' = WithEvent("failed", 0)
    /\ UNCHANGED <<request, claim, attempt, session, completion>>

\* Only a legacy run comes back, when nothing of it is open.  A step that failed
\* (or was cancelled with the run) is there to start again from; which of the
\* later steps and of the stories start again with it is left open.
Resume ==
    /\ Legacy
    /\ run \in Targets
    /\ ~OpenTermination
    /\ \A c \in Claims :
          /\ claim[c] # "open"
          /\ ~ActiveAttempt(c)
          /\ session[c] \in {"none", "drained", "released"}
          /\ completion[c].state \in {"none", "accepted", "rejected"}
          /\ completion[c].effects # "pending"
    /\ run' = "running"
    /\ \E again \in SUBSET {w \in Work : work[w] \in Targets} :
          /\ \E w \in again : work[w] \in {"failed", run}
          /\ work' = [w \in Work |-> IF w \in again THEN "pending" ELSE work[w]]
    /\ UNCHANGED <<request, claim, attempt, session, completion, terminalEvents>>

-----------------------------------------------------------------------------

CompletionStep(c) ==
    \/ RequestCompletion(c)
    \/ ClaimCompletion(c)
    \/ MarkProcessing(c)
    \/ \E outcome \in {"pending", "done", "failed"} : OwnerCommit(c, outcome)
    \/ ApplyEffects(c)
    \/ MarkEffectsCommitted(c)
    \/ AcceptAndRelease(c)
    \/ ExpireCompletionLease(c)
    \/ RecoverExpiredProcessing(c)
    \/ PreemptForTermination(c)
    \/ GiveUpCompletion(c)

ClaimStep(c) ==
    \/ \E managed \in BOOLEAN : PublishClaim(c, managed)
    \/ BindAttempt(c)
    \/ MarkStarting(c)
    \/ MarkRunning(c)
    \/ RequestDrain(c)
    \/ MarkSessionDrained(c)
    \/ QuarantineSession(c)
    \/ RecoverQuarantinedForTermination(c)
    \/ ReleaseSession(c)
    \/ \E outcome \in {"pending", "done", "failed"} : CloseClaim(c, outcome)

RunStep ==
    \/ \E target \in Targets : RequestTermination(target)
    \/ ClaimTermination
    \/ ExpireTerminationLease
    \/ MarkTerminationDrained
    \/ QuarantineTermination
    \/ Terminalize
    \/ CompleteRun
    \/ FailUnclaimedRun
    \/ Resume

LifecycleNext == RunStep \/ \E c \in Claims : ClaimStep(c) \/ CompletionStep(c)

LifecycleSpec == LifecycleInit /\ [][LifecycleNext]_lifecycleVars

-----------------------------------------------------------------------------
(* Properties *)

\* The type invariant.
LifecycleTypeOK ==
    /\ run \in RunStates
    /\ request \in Requests
    /\ work \in [Work -> {"pending", "running", "done"} \cup Targets]
    /\ claim \in [Claims -> {"absent", "open", "closed"}]
    /\ attempt \in [Claims -> {"none", "claimed", "running", "closed"}]
    /\ session \in [Claims -> SessionStates]
    /\ completion \in [Claims -> Completions]
    /\ terminalEvents \subseteq
          [status : Targets \cup {"completed"}, request : 0..MaxRequests]

\* A drained termination request stays the proof it was recorded as: until it
\* is settled the run is out of its active status, no runtime of the run is or
\* comes up, nobody owns a completion and every open claim has its session.
\* (run-termination.ts markDrained, relied on by the terminal transition.)
DrainProofHolds ==
    request.state = "drained" =>
        /\ run = SourceStatus(request.target)
        /\ \A c \in Claims :
              session[c] \in {"none", "drained", "released", "quarantined"}
        /\ NoCompletionOwner
        /\ ClaimsTracked

\* A completion owner is never overtaken: while somebody drains or applies a
\* completion, no termination takes the run or its runtimes away.
\* (The deferral in requestRunTerminationInTransaction and claim.)
OwnerKeepsRun ==
    ~NoCompletionOwner =>
        /\ run \in {"running", "completed"}
        /\ request.state \notin {"draining", "drained"}

\* A run that ended has nothing left to go on: no open claim, attempt or
\* termination; and if it failed or was cancelled, no runtime and no proposal.
\* (The terminal invariants of server/run-operational-snapshot.ts.)
TerminalRunIsQuiet ==
    run \in {"completed"} \cup Targets =>
        /\ ~OpenTermination
        /\ \A c \in Claims : claim[c] # "open" /\ ~ActiveAttempt(c)
        /\ run \in Targets => \A c \in Claims :
              /\ session[c] \in {"none", "released"}
              /\ completion[c].state \notin {"requested", "draining", "processing"}

\* Two runtimes never work on the same step or story: a claim is published
\* only when every earlier runtime of its work has been released.
OneRuntimePerWork ==
    \A c, d \in Claims :
        c # d /\ WorkOf[c] = WorkOf[d] =>
            session[c] \in {"none", "released"} \/ session[d] \in {"none", "released"}

\* What an accepted completion says happened, happened: its claim and attempt
\* are over, its effects are applied and its runtime is released.
AcceptedIsWholeTruth ==
    \A c \in Claims : completion[c].state = "accepted" =>
        /\ completion[c].effects = "applied"
        /\ claim[c] = "closed"
        /\ ~ActiveAttempt(c)
        /\ session[c] = "released"

\* The receipt of an owner's commit is not taken back: the completion is never
\* rejected after it, whatever termination is asked for meanwhile.
ReceiptNotRevoked ==
    [][\A c \in Claims : completion[c].phase \in Committed =>
            /\ completion'[c].phase \in Committed
            /\ completion'[c].state # "rejected"]_lifecycleVars

\* Once a termination is asked for, no claim is published, no runtime starts
\* and no completion gets its first owner, until the request is settled.
NothingStartsUnderTermination ==
    [][OpenTermination => \A c \in Claims :
            /\ claim'[c] = "open" => claim[c] = "open"
            /\ session'[c] \in Startable => session'[c] = session[c]
            /\ completion[c].state \in {"none", "requested"} =>
                  completion'[c].state # "draining"]_lifecycleVars

\* The continuation of a committed completion survives its owner's crash, also
\* when the run's completion or an exit handler released its runtime first.
\* (resumeRuntimeCompletionEffects: "a coordinator crash can replay it".)
CommittedReceiptContinues ==
    \A c \in Claims :
        completion[c].phase \in Committed /\ session[c] = "released" =>
            completion[c].state \in {"processing", "accepted"}

\* A termination whose drain is proven can be carried out: nothing but a
\* runtime given up since then stands in its way.
\* (run-termination.test.ts: "keeps ownership active until runtime drain proof
\* then terminalizes atomically".)
DrainedRequestCanTerminalize ==
    request.state = "drained" /\ AllDrained => MayTerminalize
=============================================================================
