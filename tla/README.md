# Setfarm: TLA+ models and proofs

Setfarm runs teams of agents through workflows. A *run* consists of *steps*, some of which loop over *stories*; an agent
*claims* a step or story, works on it in a process of its own (a *runtime session*), and proposes its output as a
*completion*. A *spawner* process launches the runtimes, drains them, applies completions and terminations and publishes
events. Everything durable lies in PostgreSQL, or in git. Several spawners, the exit handlers of their children, the CLI, the
dashboard server and the medic call the same repositories at any time, and any of them may die or stall between two calls.

The specifications here are about that durable coordination: who may change which row, in which order, and what is still
true after a crash, an expired lease or a late answer.

Contents: [Components](#components) · [Plan](#plan) · [Modules](#modules) · [Runs](#runs) · [Proofs](#proofs) ·
[Findings](#findings) · [What is not modelled](#what-is-not-modelled)

    cd tla
    tlc -workers 2 -config MCRunParallel.cfg MCRunLifecycle
    tlapm RunLifecycleProofs.tla

`PROJECT.json` lists the runs, the line ranges each definition models, a seeded defect for every property, and the
hazards of the code with the properties that watch over them.

## Components

Paths are below `src/src/` of the repository. "State" is what the component keeps between two calls.

| Component | State | Operations | What makes it correct |
|---|---|---|---|
| **Operational outbox** `execution/operational-outbox-*.ts` | `operational_outbox` rows, `operational_events`; a publisher's claimed event | enqueue, claimNext, assertLease, publish, settleFailure | an event is canonical exactly when its row is published; a live lease is exclusive; a sound event is never given up |
| **Operational deliveries** `execution/operational-event-delivery-*.ts` | `operational_event_deliveries`; a worker's claim and its sink's answer | insert at publication, claimNext with sweep, heartbeat, settle, retry, quarantine | one sink call per counted attempt; a receipt is the answer of the claim that settles; every delivery settles |
| **Run termination and terminal transition** `execution/run-termination.ts`, `run-terminal-transition.ts`, `run-operational-action.ts` | `run_termination_requests`, `runs.status` | request, claim, heartbeat, markDrained, quarantine, terminalize, complete, fail, resume | a drain proof stays true until it is used; a completion's owner is not overtaken; a terminal run is quiet |
| **Runtime sessions** `execution/runtime-session-repository.ts` | `runtime_sessions` | reserve, bind attempt, starting, running, drain, drained, release, quarantine, recover | two runtimes never work on the same step or story; nothing starts under a termination |
| **Runtime completions** `execution/runtime-completion.ts` | `runtime_completion_requests` | request, claim, processing, owner commit, effects committed, accept, heartbeat, recover, preempt, quarantine | a committed receipt is not taken back; an accepted completion is the whole truth |
| **Completion effects** `execution/runtime-completion-effect-*.ts` | `runtime_completion_effects`; a runner's claim | claimNext, assertLease, heartbeat, settle, retry, quarantine; the runner's pass | effects in order, a receipt only for what was done, nothing done more often than it was attempted |
| **Claims and attempts** `execution/claim-*.ts`, `attempt-repository.ts`, `lease-fence.ts` | `claim_log`, `execution_attempts` with generations, leases and fencing tokens | publish, reserve, renew, close, supersede, reconcile | one generation at a time may write; an attempt ends with its claim |
| **Step pipeline** `installer/step-ops.ts`, `step-advance.ts`, `step-fail.ts` | `steps`, `stories` and their counters | claim, complete, advance, loop, verify, retry, fail | a loop ends when its stories do; retries are bounded; the pipeline never stalls with work left |
| **Compiler recovery** `recovery/` | recovery case with its revisions, one delivery per revision with its lease, a worker's handoff | open, route, lease, publish, reserve, run, judge, coordinate, roll back, block, end | one owner per story, each class of repair dispatched once, no work of a stale lease, a dead owner replaced |
| **Exclusive socket lease** `execution/exclusive-socket-lease-v2.ts` | a listening socket and who holds it | acquire, hand over, answer, destroy | one holder; a failed hand-over leaves none behind |
| **Merge queue** `installer/merge-queue-ops.ts` | the feature branch at origin and in the checkout, story rows | fetch, pull, merge, push, prove ancestry, record, open the pull request, end the step | what is recorded as merged is published; a merge the process died over is found, not repeated; the run goes on or fails |
| **Spawner** `spawner.ts` | the memory of its pumps, its child processes | the processors of outbox, deliveries, completions and terminations; exit handlers; recovery | what it remembers across a call is checked again; every request is carried on |
| **Medic** `medic/` | a finding, between the statements that read and write | watchdog checks, fail, advance and resume of legacy runs | it leaves runs with durable owners alone, and no unfinished step in a run it ends |

The rest (product compiler, platform release, evidence, findings, deploy, migrations, CLI and server, workflow
installation, evals, native helpers, site) is listed in `PROJECT.json` with the reason it is left out: pure
transformations, file generation, observation of a host, or I/O with no state that several actors share.

### How they interact

- **The run's row is the lock.** Transactions of the repositories lock `runs` first, then claim, session, attempt,
  completion. That is why one repository call is one step of the models.
- **Publication** inserts the claim and reserves its runtime together. A v3 attempt is bound to the reservation; the
  session starts and brings the attempt up.
- **A completion** is proposed by the agent; the proposal asks the runtime to drain. The spawner claims it, drains the
  session, becomes its *owner* for at most three attempts, and commits claim, attempt, work, receipt and planned effects
  in one transaction. A runner works the effects off; then the completion is accepted and the session released. After
  the commit a dead owner is replaced under a fresh identity, as often as necessary.
- **A termination** waits for completion owners, takes the run out of its active status, drains every session, records
  the proof, and ends everything in one transaction, which also enqueues a terminal event in the outbox.
- **The outbox** turns rows into immutable canonical events and, in the same commit, one delivery for every consumer.

### What is hard about it

Leases that run out under a holder that is alive; decisions made on rows read in an earlier transaction; a termination
that meets a completion half way; crashes between two transactions that belong together; retries that count; effects
outside the database whose answer is lost; and states from which nobody takes a row on. `PROJECT.json` names each with
its line. Those without a property carry a note that says why.

## Plan

In the order it was carried out, the most consequential behaviour first.

1. **Events**: `OperationalOutbox`, `OperationalDelivery` over `OperationalRows`, their composition `OperationalEvents`,
   the promise `EventLedger` it implements, `OperationalOutboxProofs` and `OperationalEventsProofs`.
2. **The life of a run**: `RunLifecycle` (callers in any order) and `RunLifecycleProofs`.
3. **Completion effects**: `CompletionEffects`, the promise `CompletionReceipt` it implements, `CompletionEffectsProofs`.
4. **Recovery of a story**: `RecoveryDelivery` with every party's memory, the promise `RecoveryDispatch` it implements,
   `RecoveryDeliveryProofs`.
5. **Merging**: `MergeQueue`, git and the database as two stores with crashes between them, `MergeQueueProofs`.
6. **Termination**: `TerminationProcessor`, the callers `RunLifecycle` leaves out: the pass, the launcher, the exit
   handler, the reconciler and the child processes themselves, with `TerminationProcessorProofs`.

7. **The order of steps**: `StepPipeline`, everybody who advances, ends or resumes a run's steps, with
   `StepPipelineProofs`.

Worth doing next: loops over stories (`checkLoopContinuation`, `autoVerifyAndAdvance`), `AttemptFence` (generations,
supersession and the operational retry reservation), the first half of the completion processor with its memory,
and `ExclusiveSocketLease`. Every safety and action property the passing runs check is proved, and the three refinements are.

## Modules

Conventions common to all of them:

- **One transaction, one action.** What a caller remembers from one call to the next is a variable (`publisher`,
  `worker`, `runner`, `pass`, `handler`). Where callers are left out, as in `RunLifecycle`, every order of calls is possible.
- **Time.** Deadlines are only ever compared with the database's clock inside a transaction, so a lease is a Boolean
  `live`; the clock passing it is an action, a heartbeat is that action not happening.
- **Mutants.** A definition marked `\* Mutant:` is a plausible defect. It is not part of a specification; put in the
  place of the definition after it, it must make the property named beside it in `PROJECT.json` fail.

### OperationalOutbox

Rows of `operational_outbox` and the publishers of `drainOperationalOutbox`. `Enqueue` is
`enqueueOperationalOutboxEventInTransaction`, `ClaimNext` is `claimNext`, `AssertLease`, `Publish`, `ReleaseForRetry` and
`Quarantine` are the fenced calls that follow, `SettleFenceLost` their refusal. Payloads are reduced to whether
`publicEvent` accepts them. Tokens are taken from a finite set and reused only when nobody knows them any more, which is
what a random UUID amounts to.

`OperationalRows` declares what outbox and deliveries have in common: the event keys and the attempt budget.

### OperationalDelivery

Rows of `operational_event_deliveries` and one loop per spawner and consumer. `ClaimDelivery` and `SweepOnly` are
`claimNext` with the sweep that opens it; `Retain`, `CallSink`, `Settle`, `GiveUp` are the loop's body. The sink is
outside the database, so the module counts the calls made under each attempt and keeps the answers.

### OperationalEvents and EventLedger

The two tables composed: `PublishAndDerive` joins `Publish` and `InsertDeliveries`, which the code does in one commit;
every other step belongs to one side. The fairness of the whole is
that of the spawner's poll, which drains both tables. `EventLedger` knows neither leases nor attempts: an event is recorded, then
canonical or rejected; a duty is owed, then met or abandoned. `ImplementsLedger` is the refinement.

### RunLifecycle

One run with everything it owns, over six repositories. Variables are columns: `run` is `runs.status`; `request` the
last row of `run_termination_requests`; `work` the steps and stories; `claim`, `attempt`, `session` and `completion` the
rows of each claim (their unique keys make them functions of the claim); `terminalEvents` the `run.terminal` rows of the
outbox. Actions carry the repository's names: `PublishClaim`, `BindAttempt`, `MarkStarting`, `MarkRunning`,
`RequestDrain`, `MarkSessionDrained`, `ReleaseSession`, `QuarantineSession`, `RecoverQuarantinedForTermination`,
`CloseClaim`; `RequestCompletion` … `GiveUpCompletion`; `RequestTermination` … `Terminalize`; `CompleteRun`,
`FailUnclaimedRun`, `Resume`.

Abstractions:

- Callers are left out, so its properties hold for calls in any order; `TerminationProcessor`, `CompletionEffects` and
  `RecoveryDelivery` are about what callers do.
- Owner columns are left out: a fenced call of anybody but the owner changes nothing, so a fenced action is the owner's.
- The effects of a completion are one set, pending or applied. `CompletionEffects` opens that up.
- An owner transaction that also ends the run is `OwnerCommit` with `Terminate`, or `OwnerCommit` followed by
  `CompleteRun`.
- Left out: replay of a terminal transition that already happened (it changes nothing), v3 recovery chains of a
  quarantined completion, and the status `resuming`, which only the medic writes. The branch of the terminal transition
  that commits a completion without a plan (`run-terminal-transition.ts` 466-537) needs a processing owner at a moment
  when `OwnerKeepsRun` says there is none.

### CompletionEffects and CompletionReceipt

The ledger of one completion from its owner's commit to acceptance. `runner[g]` is the pass of the owner `g`: where in
`runRuntimeCompletionEffectLedger` it stands and which claim it remembers. `ClaimEffect`, `Reconcile`, `AssertLease`,
`Apply`, `Settle`, `HandleFailure`, `EndOfLedger`, `ReadLedger` follow the loop; `MarkEffectsCommitted` and
`AcceptAndRelease` the caller in `spawner.ts`. `AdoptReceipt` is the post-commit branch of `recoverExpiredProcessing`:
the next owner has a fresh identity while its predecessor may still be at work. `OperationFails` is a handler that throws
or a heartbeat that fails, before or after the change. `Apply` is the change itself, which happens after the last check
of the lease and outside any fence; that gap is what the module is about.

Abstractions: the attempt count stands for the lease token, since both are new with every claim; all planned effects are
mandatory; a handler is one change of canonical state and whether its reconcile step can see it; the session stays
drained and the run active, the rest is in `RunLifecycle`.

`CompletionReceipt` is what the ledger promises: effects in order, each settled only once it has come about, a settled or
given-up one never touched again, acceptance last.

### RecoveryDelivery and RecoveryDispatch

The recovery of one story of a v3 run, from the first dispatch to the end of its case or its run, over a dozen files.
`delivery[r]` is the row of revision `r` with its state, owner, lease token and attempt; `pub[c]` a published claim with
its session, attempt, completion and child; `worker[i]` what instance `i` remembers of the work it holds; `coordinator`
the decision a `coordinate` call has taken and not yet carried out. `Discover`, `Acquire`, `Publish`, `ReserveAttempt`,
`BindAttempt`, `MarkStarting`, `Spawn`, `MarkRunning` are the path of a model repair from router to process, each a
transaction with a crash possible before the next; `AcquireEvidence` … `LoseEvidence` the evidence-only worker, which
looks at claims and attempts when it leases a dispatch and at runtimes only when it reserves it, ends delivery and case
whatever fails before there is a verdict, from a mere lease too (`QuarantineEvidence`), and leaves the delivery to be
replayed afterwards (`LeaveReplayable`); `FinishAttempt`, `CompleteDelivery`, `AdvanceRevision`, `AuthorizeRevision`,
`ResolveCase` the coordinator; `ResetExpiredLease`, `RollbackPublication`, `RequestExpiredDrain`, `BlockExpiredModel`,
`BlockExpiredEvidence` the lifecycle reconciler; `Terminalize` and `CompleteRun` the recovery chain a run's end closes;
`FailUnrecovered` the loop guard that fails a run nobody recovers.

`RecoveryDispatch` promises what this is for: each class of repair at most once, one dispatch outstanding, its work
executed at most once, and nothing handed out again that was executed.

Abstractions: a lease token is the number of the acquisition that drew it; packets, slices, source and evidence
identities, which nobody here changes, are left out; a restarted spawner is another instance.

### MergeQueue

The direct-merge continuation of a completion. `origin`, `local` and `tracking` are the feature branch at origin, in the
checkout, and as the checkout last saw it, each a sequence of merge commits that are told apart; `row` the status of the
stories; `pass[g]` one execution of the effect, with the story it works on, whether one of its calls failed and what it
counted. `TakeUp` is the effect runner's start of a pass, with the reconciliation a generic effect has first;
`PickStory` the choice of the queue; `Fetch`, `Pull`, `Merge`, `Push`, `Confirm` the merge of an exact source; `Sync`,
`RebaseAndMerge`, `PublishMerge` the older merge of a story branch; `Record` the row; `EndOfQueue`,
`TooManyConflicts`, `LookUpPullRequest`, `CreatePullRequest`, `Judge`, `Advance`, `FailStep`, `FailRun` the rest of the
handler; `MedicAdvance` the medic's net for stranded legacy runs. A git command, with the look at its result, is a
step. A push may be taken by origin and its answer lost; a pull, a look-up or a row's update may fail; a pass may die
anywhere, or lose its lease and go on beside its successor.

Abstractions: commits are merges with an identity; a conflict no strategy resolves is an input; two passes at once are
modelled where every story has an exact source, since the older merge moves the checkout from branch to branch.

### TerminationProcessor

How a requested termination is carried out. `request`, `session` and `closed` are rows, with the `state_version` by
which a stale quarantine is told; `child[s]` is the process behind a session; `launch`, `handler`, `reconciler` and
`pass` are what the parties stand at and what they have read. `ListPending`, `Claim`, `ListSessions`, `KillRuntime`,
`ProveRuntime`, `MarkDrained`, `Terminalize`, `QuarantineRequest` are the pass of `runRunTerminationProcessor`;
`MarkStarting` … `RunningRefused` the launch in `spawnAgentNow`; `ChildExits` and `Handler…` the exit event and
`finalizeExitedStoryRuntime`; `Reconciler…` the reconciler of terminal claims. `Killed` and `Absent` are the two halves
of `drainDurableRuntimeSession`, which all three call with a row of their own age: it kills the child it tracks, or
signals the identity the row names, and is content when that process is gone, also when the row names none.

Abstractions: the completion owner a claim of the request waits for is in `RunLifecycle`; a drain's two stable
observations are one step; the scan of command lines, which may or may not show a child, is not relied on.

### StepPipeline

The steps of a run without stories (workflows `bug-fix` and `daily-standup`). `step` and `retries` are columns of
`steps`; `claim` says how far each claim has come: open, its owner committed with a plan to advance or with nothing left
to do, or settled. `PublishClaim`, `CompleteStep`, `RetryStep`, `FailCritical`, `SkipStep` are the claim and the owner
transactions of `completeSingleStepClaimAndStateInTransaction` and `handleSingleStepFailurePG`; `AdvancePipeline` is
`advancePipeline`, which locks the run's row and is one step wherever it is called. `GiveUp` is the failure nobody
retries: the retries are used up (`MaxRetries` is what the code goes by, for a quality gate four at least), or a
platform preclaim of a v3 step failed, which counts none. The callers of `advancePipeline` are the effect of a completed
step (`ReconcileEffect`, which takes a later step that does not wait for its own work; `DecideToAdvance` and
`ApplyEffect`, `ApplyAndDie`, `ApplyLate` for a coordinator that lives, dies or was replaced), the process that skipped
a step (`AdvanceAfterSkip`), and the medic. `RequestStop`, `ClaimTermination`, `Terminalize`, `Resume` are the run's end
and its resumption. The medic has no transaction: `Finding`, `Remediate`, `ReadRunToFail`, `FailRun`, `FailStalledRun`,
`EndSteps`, `MedicAdvances` are its statements, and `medic` is where it stands between two of them. It may stop before
its last statement for good.

Abstractions: a claim's session, lease and drain are one state, `RunLifecycle` and `TerminationProcessor` have them; so
are attempts of effects and their quarantine, in `CompletionEffects`. An orphaned claim fails like one whose agent
reported it. The conditions of time the medic's checks have are dropped, so they may strike at any moment. Its
`resume_run` needs pending stories, and the abandonment sweep (`cleanup-ops.ts`) steps without a session: neither applies here, and
with the first the status `resuming` is left out.

## Runs

A type invariant that a theorem proves is not run as well (`OutboxTypeOK`, `EffectsTypeOK`, `MergeTypeOK`,
`ProcessorTypeOK`, `PipelineTypeOK`); `RunLifecycle`'s, `RecoveryDelivery`'s and `OperationalDelivery`'s are, as they bound
budgets.

| Run | Question | Instance |
|---|---|---|
| `events` | rows, leases and canonical events agree, receipts are of the last claim, the tables implement `EventLedger`, every event is handed on or given up | one event (sound or unpublishable), 2 publishers, 2 workers of one consumer, 3 tokens, 2 attempts, 1 publisher fault |
| `run_parallel` | drain proof, owner's precedence, quiet end, receipts, nothing starts under a termination | v3 run, 2 claims for 2 stories, 1 request, 2 owner attempts |
| `run_legacy` | a retry never meets the runtime it replaces, with claims without a session and with resumes | legacy run, 2 claims for the same story, 2 requests |
| `effects` | the ledger implements the receipt, with slow and dead runners; it comes to its end | 2 effects (one unobservable), 3 owners, 2 attempts |
| `recovery` | one owner per story, fences agree, a stale lease is powerless, an ended case is quiet; implements `RecoveryDispatch`; an owner that died in a state the reconciler knows is replaced or ended | 2 instances, 2 revisions (of any class of repair), 2 leases each, 2 publications |
| `merge_queue` | what is recorded is published, a done step has a whole branch, the run goes on or fails | 2 stories, 2 passes, 2 faults, all three protocols |
| `termination` | no published process outlives the run, nothing is given up without reason, a termination comes to its end | 2 instances with a runtime each, 1 fault |
| `pipeline` | one step at a time, none left behind, none outlives its run, the pipeline goes on | 3 steps (a critical one, two with a retry), 2 claims of these two, 1 resume, 1 death |
| `run_receipt`, `run_repeated`, `recovery_abandoned`, `merge_replay` | the four findings below, each refuting one property | v3 and legacy run with 2 claims for one story; `recovery` with 1 revision; `merge_queue` with 1 fault |

**Why the bounds are enough.** Two claimants are what a race over a row needs; a third behaves like one of them, and
the fresh-token rule makes one token more than there are holders sufficient. Different events share no row, lease or
budget, so `MCOperationalEvents` lets one event at a time exist, sound or not. Two claims cover both relations two
claims may have: different stories (`run_parallel`) and a retry of the same one (`run_legacy`). `MaxRequests = 1` is
exact for a v3 run: it is never resumed, and a request given up keeps later ones out. A legacy run needs two requests and
a resume for the second to meet what the first left. `MaxOwnerAttempts` and `AttemptLimit` are 3 in the code; where a run
uses 2, the first, the repeated and the last attempt still differ. Three owners of a receipt let a slow runner be
overtaken by one that is overtaken itself; two effects give an order. Two revisions are a dispatch and
the one that follows it, of any two classes; two leases are an owner and its successor. Two stories give the queue an order and a prefix to leave behind; two passes
are a crash or an overlap and its replay, two faults a failure in each. For the termination, one runtime is in every
stage of its launch and one runs and is killed only, which are the two kinds a pass meets; `MCNext` lets one instance
reconcile and lets only the first claim close before the end. Three steps are one that is at work, what is settled before
it and what waits behind it; two claims are a try and a retry, or the step before and after a resume. Deadlock is not checked where the system may stop: after
the last event, the end of a run, or an accepted completion.

**Fairness.** A publisher or worker claims when it can and finishes what it claimed, because the spawner polls for ever
and awaits each call; a lease nobody renews runs out. Crashes and stalls of publishers are finite (`MaxFaults`): a
publisher's attempts are not limited by crashes, so an unlimited number could hold an event back for ever. Workers
get no such bound, as their budget counts crashed attempts. In `CompletionEffects` a runner that lives goes on, the lease
of an owner that is gone runs out, and the recovery pump comes by; the last of `MaxOwners` owners neither dies nor
stalls, which is the same assumption of finitely many faults. No fairness is given to failures of an operation, so
success is never assumed either: an effect may use up its attempts. `RecoveryFairSpec`: an instance that lives goes on
with what it has begun, the poll of whoever lives runs the reconciler and the drains, an evidence worker that lost its
lease notices. `MergeSpec`: a pass that lives goes on, the effect is taken up again, the medic's cron comes by; the last
pass does not crash. `ProcessorFairness`: launchers, handlers, the reconciler and passes of an instance that is up go
on, a process that was killed exits, the lease of a dead owner runs out; one instance always survives, and crashes,
overrun leases and drain time-outs are bounded by `MaxFaults`. `PipelineFairness`: the spawner takes completions and terminations on at
every poll and a process that skipped a step goes on unless it dies, and the medic's cron comes by; agents owe nothing,
so a step at work may stay so. `RunLifecycle` states no liveness, as nothing in it says
who calls.

**What liveness excepts.** `EveryReceiptSettles` accepts a quarantined effect as an end. In the code that end is a dead
one: every later pass throws, the completion stays in `processing`, is adopted again and again, and holds back any
termination of its run. `TerminationSettles` accepts a quarantined request, which is as final, and leaves out processes
whose launcher died before it published them: nobody knows their identity. `ContinuationEnds` excepts the replay of a
story that has failed (`merge_replay`), overlapping passes, and shadow runs stranded with a done step.
`PipelineGoesOn` excepts runs of the compiler whose skipped step nobody followed (`SkipForgotten`).

### Behaviour the models show and no document speaks of

- A session that is still `starting` can be drained, and its run ended, before its child is spawned (`spawner.ts:7591`);
  the child comes up and is killed when `markRunning` is refused. `TerminationSettles` says that it is.
- A termination can be given up without any crash: if it is requested between the claim's publication and
  `markRunning`, the launcher quarantines the session and kills the child, the pass recovers the session as drained, the
  child's exit handler, which failed over the quarantined session, gives it up again, and `markDrained` throws. The same happens when
  an exit handler or the reconciler releases a session a pass is draining. `QuarantineHasReason` allows for both, and
  forbids giving up over runtimes that are drained.
- A pass that overran its lease gives the request up although another instance owns it by then
  (`run-termination.ts:266`), because `quarantine` has no fence.
- Between completing a recovery delivery and authorizing the next one (`v3-recovery-coordinator.ts:1427`) the loop guard
  (`step-ops.ts:7187-7250`) sees a case nobody works on, and fails the run. An evidence-only recovery that verifies
  resolves its case and leaves the story failed, with the same end.
- The coordinator may authorize an evidence-only dispatch while the session of the failed attempt is drained and not
  yet released. The worker leases it, since acquisition looks at claims and attempts only
  (`v3-evidence-only-worker.ts:393-411`); the reservation finds the runtime and throws
  (`v3-evidence-only-publication.ts:686-697`); and the quarantine ends the whole case as blocked
  (`v3-evidence-only-worker.ts:1189`), over a session that would have been released a moment later.
- A merge pass that was only slow may fail a story over a row its successor has written as merged, or the step over one
  that is done; `DoneIsWhole` and `ContinuationEnds` except `overlapped`.
- A legacy run whose pass died between push and row merges its story again, gets `empty-branch` or `no-op-merge`, and
  fails the story. A failed attempt may leave its merge commit in the checkout, and the next push publishes it.
- The reconciliation of a generic effect reports `advanced` for a step that is done without advancing
  (`step-ops.ts:12043-12085`); the medic's net (`checks.ts:1183-1236`) covers legacy runs only.
- `handleSingleStepFailurePG` commits a skip and advances the pipeline afterwards (`step-fail.ts:748`). If its process
  dies in between, nothing follows up: the completion says it has nothing left to do, and the medic looks for a *done*
  step before the waiting one (`checks.ts:1219`). A legacy run is failed after six hours, any other stands still,
  although the log says "pipeline continues".
- `SeenAnyStep`, the mutant of `SeenDone`, shows how narrow `reconcileRuntimeCompletionEffects` is: any looser test than
  a later step leaves the pipeline where it was. That the test is right rests on the order of the steps, which is proved.
- The medic's `fail_run` (`medic.ts:354`) writes without a condition: it turns a run that completed, was cancelled or is
  ending into a failed one. A request overtaken like this never terminalizes: claimed and drained, it ends what
  is left at every poll and stays open; not yet claimed, it is given up. A claim that was published before the write stays
  open for ever if no request is there, since everything else that closes claims wants an active run; it keeps the run
  from resuming.
- Between the two statements of the medic an operator may resume the run; the second then ends the steps of a run that
  is running, which is failed by the next dead-run check.
- From reading, beside the models: the sweep for abandoned steps updates steps and runs without a condition
  (`cleanup-ops.ts:563-573`), and so does `reset_step` (`medic.ts:241-247`); `resume_run` writes `resuming` before it
  looks for a failed step (`medic.ts:388-393`); `checkLoopContinuation` decides from several reads of the stories
  outside the run's lock (`step-advance.ts:217-383`).

## Proofs

`tlapm` checks these for every value of the constants, under the named assumptions of the modules (non-zero budgets,
`WorkOf` a function into `Work`, `NULL` not an identity or token and `Nobody` not a session's row, effects numbered by
naturals).

| Theorem | Statement |
|---|---|
| `OutboxTypeCorrect`, `PublishingIsAtomic`, `OnlyUnpublishableGivenUp` | the invariants of the outbox in `events` |
| `LiveLeaseExclusion` | the action property `LiveLeaseIsExclusive` |
| `OutboxInvariant` | the inductive invariant the four follow from |
| `DeliveryTypesHold`, `SinkCalledOnce`, `ReceiptsStand` | `DeliveryTypeOK`, `OneSinkCallPerAttempt`, `ReceiptIsOfLastClaim` of `events` |
| `LedgerImplemented` | outbox and deliveries implement `EventLedger` |
| `EventsInvariant` | the inductive invariant behind them |
| `LifecycleTypeCorrect`, `DrainProof`, `OwnerNeverOvertaken`, `TerminalQuiet` | the invariants of `run_parallel` with these names |
| `LifecycleInvariant` | the inductive invariant behind them |
| `AcceptedIsTrue`, `OneRuntime` | `AcceptedIsWholeTruth` and `OneRuntimePerWork` |
| `ReceiptsStay`, `NothingStarts` | the action properties `ReceiptNotRevoked` and `NothingStartsUnderTermination` |
| `ReceiptInvariant` | the inductive invariant behind the four |
| `EffectsTypesHold` | the types and lease columns of the effect ledger |
| `ReceiptImplemented` | `CompletionEffects` implements `CompletionReceipt` |
| `NothingGivenUpEarly` | `GivenUpAfterLastAttempt` |
| `CrashedEffectsRunOnce` | `CrashesDoNotRepeat`, from the invariant of `OneRunnerAtATime` |
| `RecoveryTypesHold`, `StoryHasOneOwner`, `FencesAgree`, `RepairIsOwned`, `EndedIsQuiet` | the five invariants of `recovery` |
| `RunningEndsProven`, `StaleStartsNothing` | the action properties `RunningAttemptEndsProven` and `StaleLeaseStartsNothing` |
| `DispatchImplemented` | `RecoveryDelivery` implements `RecoveryDispatch` |
| `RecoveryInvariant` | the inductive invariant behind them |
| `MergeTypesHold`, `MergedPublished` | `MergeTypeOK` and `MergedIsPublished` of `merge_queue` |
| `OriginOnlyGrows` | every step extends what origin has |
| `MergeInvariant` | the inductive invariant behind them |
| `PublishedFailsByFault` | the action property `PublishedFailsByFaultOnly`, from the invariant of `RefusalInvariant` |
| `DoneMeansWhole` | `DoneIsWhole`, from the invariant of `QueueInvariant` |
| `NothingOutlivesTheRun`, `ProcessorTypesHold` | `NothingRunsAfterTheEnd` and `ProcessorTypeOK` of `termination` |
| `ProcessorInvariant` | the inductive invariant behind them |
| `GivenUpForAReason` | `QuarantineHasReason`, from the invariant of `ReasonInvariant` |
| `PipelineTyped` | `PipelineTypeOK`, with the bound on retries |
| `OneStep`, `NothingLeftBehind`, `EndLeavesNothing` | `OneStepAtATime`, `NoStepIsLeftBehind`, `EndLeavesNoStep` of `pipeline` |

**Outbox.** The checked invariants are not inductive: a publisher that remembers no token and a row that has none would
match. `LeaseColumns` (a row has a token exactly while leased) and `PublisherMemory` (a busy publisher remembers a real
event and token) close that. Every settling step then is one lemma about a row leaving its lease.

**Deliveries.** A superseded worker may call the sink and answer at any time. What keeps that harmless is that an attempt
has one worker: a claim counts the row's attempts past all that anybody remembers (`WorkerMemory`,
`OneWorkerPerAttempt`), so a late call is made under an attempt of its own that the row has left behind
(`ReceiptOutlivesWorkers`), and what the sink has been asked and has answered under each attempt is known from where its
worker is (`SinkProgress`). `ClaimIsCurrent` says when a token is worth anything: while it matches, the row is as the
claim left it. With `OwedForCanonical`, nothing is owed for an event that is not canonical, every step of the two tables is
one step of `EventLedger` or a stutter.

**Run.** `DrainProofHolds`, `OwnerKeepsRun` and `TerminalRunIsQuiet` support one another: a drained request is safe
because no step that starts anything is possible while a request is open, and a terminal run has no open request. Two
facts are added: the run's status and its open request agree (`StatusFollowsRequest`), and an unpublished claim owns
nothing (`AbsentIsUnused`). The proof goes by kinds of step: steps of an unchallenged run, steps of one completion row,
steps of one session, and the steps of the termination itself.

**Receipts of a run.** `AcceptedIsWholeTruth` and `OneRuntimePerWork` speak of rows that different transactions write. Two
tables connect them: what one step may do to a completion (`RowMoves`) and what it may do to the claim, attempt and
session of the same claim (`OwnersMove`: closed stays closed, over stays over, released stays released, a runtime appears
only with its claim). `StepMoves` shows both for every action; `ReceiptsInOrder` adds what a completion's state says of its
past. That a committed receipt is never rejected and that nothing starts under a termination are read off the same tables.

**Receipt.** `LedgerInv` adds three things to the types. A runner at work remembers an effect *whose turn has come*
(`RunnersInTurn`), and because no step unsettles an effect (`SettledStays`) a turn once come stays, however late the
runner acts: this carries the unfenced `Apply`. A runner that is about to settle has *performed or seen* its effect
(`SettlesWhatWasDone`). A receipt past its commit has *all effects settled* (`CommitIsEarned`), which makes acceptance
sound although `acceptAndRelease` does not read the ledger again. The refinement then maps `Apply`, `Settle`, the last
`HandleFailure` and `AcceptAndRelease` to the abstract steps, and every other step to a stutter (`UnseenSteps`).

`CrashesDoNotRepeat` needs more: that no two runners are at work unless a lease ran out under a living one. `OneRunner`
says that the owners before the present one are gone and those after it yet to come; `AppliesOnce`, that a runner which
looked and saw its effect undone still finds it so when it applies it, however many owners died before.

**Recovery.** Every party acts on a delivery and a publication it read some transactions ago. `RecoveryInv` says what is
true of the rows (`CaseRows`: later revisions are empty, a publication belongs to a dispatched revision, an open claim
is that of the active delivery) and what each memory is worth (`WorkerKnows`). A publication belongs to the worker that
made it and to no other (`OwnerRemembers`); before the reservation its claim is open as long as the delivery is still
under that worker's lease (`UnreservedClaim`); from the reservation on the lease of a model dispatch does not change
hands any more (`ReservedKeepsLease`), so whoever holds an older lease has reserved nothing: that is
`StaleLeaseStartsNothing`. `RunningIsWatched` ties a running attempt with a living child to a session that knows of it.
Evidence is claimed in the transaction that binds its delivery (`ClaimsAreActive`), so the end of a dispatch that is
only leased leaves nothing open. The refinement goes by what a step does to the class of one delivery; that no class is
dispatched twice is `RevisionsInOrder`.

**Merging.** `MergedIsPublished` looks local and is not: a pass records what it has seen two steps ago, while others push,
reset and merge in the same checkout. `OriginOnlyGrows` is the key: a push without force needs what origin has to precede
what is pushed, so what has been seen at origin stays there. `PassKnows` says what a pass at each place has seen: a story
it calls published is at origin; a merge it has made and not yet pushed is on the local branch, which it can rely on only
while no other pass resets that branch, hence `AloneUnlessExact`.

Why a story fails is a second argument (`WhyInv`). A story that clashes is on no branch (`ClashingStaysOut`), and where all
sources are exact the local branch is never behind origin (`OriginBehind`). `KnowsWhy` follows a pass to its refusal:
what it refuses was not at origin when it looked, or a call failed; with an exact source at origin only the latter remains.

That a done step is whole is a third (`WholeInv`), for passes that do not overlap: rows are then written by one pass only,
so what it has read still holds and every ready story is still before it (`QueueIsTrue`). At the verdict none is ready; a
step set to done has only merged and skipped stories, and the pass that set it writes no row any more (`DoneIsEnding`). That
the merged ones are on origin is `MergedIsPublished`.

**Termination.** Three parties drain the same sessions, each by a row it has read some time ago, and what is dead must be
dead when the run ends. A row that was read once its session was asked to drain names the same process as the session
does for ever, because `markRunning` stores a process only in a session that is still starting (`Keeps`); every row a
drain goes by was read after that (`HandlersFine`, `ReconcilersFine`, and `PassesFine`, where the claim of the request
asks all sessions first); and a process that was published and is dead is not started again (`PublishedIsSpawned`). So
whatever is drained is dead (`DrainedIsDead`), however old the row, and a run ends only when all is drained or released.

`QuarantineHasReason` is a statement about executions without a fault, and so is its invariant (`ReasonInv`): the pass
then owns the request as long as it works for it, what it has found over stays settled, and the only thing left to make it
throw is a session that another intent released or gave up (`Disturbed`), which stays so. `NoRowAssumption` is used to tell
a session the pass is done with, which it remembers as `Nobody`, from a row it has read.

**Steps.** What makes the pipeline right is the order of the steps, `InOrder`: before a step at work or done all are
settled, before one that no longer waits none waits, behind one at work all wait. `advancePipeline` keeps it because it
shows the *first* waiting step and only when none before it is at work; a resume, which starts in the middle, because
failed and cancelled steps do not meet (`EndedApart`), so what it sets back to waiting lies behind what it starts. With
`InOrder`, a done step whose run is unchallenged and that no completion will advance has a later step that is visible;
the guard of `advancePipeline` against failed steps is shown never to strike (`AdvanceMoves`).

**Only model-checked.** Liveness, as fairness and ENABLED are beyond the prover: `RecordedEventIsHandedOn`,
`EveryReceiptSettles`, `ReconcilableOwnerIsReplaced`, `ContinuationEnds`, `TerminationSettles`, `PipelineGoesOn`. With it
the four refuted properties of the findings. The proofs speak of the specifications as they stand: where a run's instance
narrows `Next` (`MCNext` of `termination`), the theorem is about the unrestricted one. The abstract
specifications state safety only, so no refinement claims fairness.

## Findings

1. **A committed receipt can be quarantined instead of continued** (`run_receipt`, `CommittedReceiptContinues`).
   `recoverExpiredProcessing` continues a committed completion only if its session is `drained`
   (`runtime-completion.ts:1279`). But the session may already be `released`, by the run's completion or by an exit
   handler, since both ask only for a closed claim and attempt. If the owner dies then, its completion is quarantined
   with `EXPIRED_COMPLETION_PROCESSING_RECEIPT_INVALID`, although `step-ops.ts:12170-12174` says a coordinator's crash
   can replay the continuation. `acceptAndRelease` itself does accept a released session.
2. **A resumed run cannot be terminated the same way twice** (`run_repeated`, `DrainedRequestCanTerminalize`). The key
   of the `run.terminal` event names only run and status, while its payload names the request
   (`run-terminal-transition.ts:584`). The outbox refuses a known key with another payload, so the second termination to
   a status the run has had throws after its drain is proven, and the request is quarantined: the run stays in `failing`
   or `cancelling`.
3. **An owner that dies between two transactions is never replaced** (`recovery_abandoned`, `AbandonedOwnerSettles`).
   Claiming a routed recovery reserves the attempt, which binds the delivery to it, and binds the runtime session to the
   attempt in a later transaction (`step-ops.ts:5313`). After a crash between the two the reconciler finds neither the
   publication it can roll back nor the attempt owner it can block (`v3-recovery-lifecycle-reconciler.ts:581-692`) and
   reports a mismatch on every poll. The production-closure design promises that crash and restart "settle without
   duplicate ownership, lost work, leaked processes".
4. **A continuation that failed its own story cannot be replayed** (`merge_replay`, `ReplayIsAccepted`). The queue writes
   the story `failed` (`merge-queue-ops.ts:1019`) before step and run are failed. After a crash in between every replay
   is refused by the test of the story's status (`step-ops.ts:12248`), which lies outside the block that would fail the
   step; the effect is given up, and the run stays `running`, as the medic's stalled-run check (`checks.ts:114-136`)
   skips a run with a completion in processing.

## What is not modelled

- Stories and what is about them: loops, verification of each story, quality gates and routing back to implementation,
  in `step-ops.ts` and its neighbours, with budgets of their own and from several callers, most of it for the legacy
  protocol. Only the order of steps without stories, the merge continuation, the recovery claims and the effect on a
  run are.
- Attempts beyond one per claim or recovery dispatch: generations, supersession, shadow attempts, and the reservation of
  operational retries.
- The completion processor before the owner's commit, other than as calls in any order (`RunLifecycle`).
- The opening of recovery cases from findings, and the integration, review and deploy recovery.
- The medic's resets of steps and stories, its `resume_run`, and the checks that report or clean the host; the socket
  lease; deploy receipts.
- What a transaction does to data no property tells apart: packets, digests, manifests' contents, diagnostics, counts.
  Digest checks that refuse an inconsistent row are taken to succeed, as the rows are written by the same code.
- Operating-system processes beyond their life and identity: that a recycled process id is told apart is taken from the
  start time in the stored identity.
- The products of the compilers, evidence and release tooling: deterministic transformations of data with tests of their
  own and no shared state.
