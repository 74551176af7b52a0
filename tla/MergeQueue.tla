----------------------------- MODULE MergeQueue -----------------------------
(***************************************************************************)
(* The direct-merge continuation of a run: the branches of its stories are *)
(* merged one after another into the feature branch and published to       *)
(* origin, a final pull request is made sure of, and the loop step ends.   *)
(*                                                                         *)
(* The continuation is an effect of a runtime completion: after a crash or *)
(* a lost lease it runs again from its first line, in another pass, and an *)
(* earlier pass that was only slow goes on beside it (CompletionEffects).  *)
(* What a pass knows of earlier ones it reads from the rows of the stories *)
(* and from git.  The effect of a legacy or a shadow run is generic: it is  *)
(* reconciled first, and when the rows say that all is done nothing is     *)
(* applied.  A v3 run has a recovery effect in its place and always an     *)
(* exact source; a legacy run has never one.                               *)
(*                                                                         *)
(* A git command, with the look at its result, is one step.  The checkout  *)
(* is shared by all passes; commits are told apart, so that merging a      *)
(* story again does not give the commit it gave before.  Two passes at     *)
(* once are modelled where both stay on the feature branch, that is when   *)
(* every story has an exact source: the older merge of story branches      *)
(* takes the checkout to the branch of the story in between.               *)
(***************************************************************************)
EXTENDS Naturals, Sequences

CONSTANTS
    Stories,     \* by story_index
    MaxPasses,   \* bound on the passes; the last one does not crash
    MaxFaults    \* bound on git, GitHub and database calls that fail

ASSUME MergeAssumption ==
    /\ Stories \subseteq Nat
    /\ MaxPasses \in Nat \ {0}
    /\ MaxFaults \in Nat

VARIABLES
    exact,      \* stories with a reviewed source commit (source_after_sha)
    clashing,   \* stories whose merge meets a conflict no strategy resolves
    last,       \* the story whose completion this is
    protocol,   \* the protocol of its run
    settled,    \* whether the effect is applied or reconciled
    row,        \* status and merge_status of the stories
    step, run,  \* the loop step and its run
    origin,     \* the feature branch at origin, by its merge commits
    local,      \* ... in the checkout
    tracking,   \* ... as the checkout last saw it at origin
    pullRequest,  \* whether the final pull request is open
    pass,       \* what each pass is doing and remembers
    made, faults, overlapped  \* merge commits made; faults so far; history

gitVars == <<origin, local, tracking, made>>
dbVars == <<row, step, run>>
inputs == <<exact, clashing, last, protocol>>
mergeVars == <<inputs, dbVars, settled, gitVars, pullRequest, pass, faults, overlapped>>

Passes == 1..MaxPasses

Commits == [story : Stories, nr : Nat]

RowStates == {"ready", "merged", "failed", "skipped"}

Protocols == {"legacy", "shadow", "v3"}

\* Whose stories have an exact source.
SourcesOf(p) == IF p = "v3" THEN {Stories} ELSE IF p = "legacy" THEN {{}} ELSE SUBSET Stories

\* Where a pass is: between stories, in mergeExactSourceIntoFeature, in
\* mergeStoryIntoFeature, or at the end of the queue.
Merging == {"fetch", "pull", "merge", "push", "confirm",
            "sync", "rebase", "publish", "retry", "published", "refused"}

Queueing == {"none", "queue", "lookup", "create", "judge", "caught", "failing",
             "record", "advance", "rejected", "gone"}

PassRows == [pc : Queueing, left : SUBSET Stories, story : {0}, hit : BOOLEAN,
             merged : Nat, conflicted : Nat, seen : [Stories -> RowStates]] \cup
            [pc : Merging, left : SUBSET Stories, story : Stories, hit : BOOLEAN,
             merged : Nat, conflicted : Nat, seen : [Stories -> RowStates]]

NewPass == [pc |-> "none", left |-> {}, story |-> 0, hit |-> FALSE,
            merged |-> 0, conflicted |-> 0, seen |-> [s \in Stories |-> "ready"]]

TakenUp == [pc |-> "queue", left |-> Stories, story |-> 0, hit |-> FALSE,
            merged |-> 0, conflicted |-> 0, seen |-> row]

\* The last story has just been completed; others may have been skipped, or
\* have failed before.
MergeInit ==
    /\ protocol \in Protocols
    /\ exact \in SourcesOf(protocol)
    /\ clashing \in SUBSET Stories
    /\ row \in [Stories -> RowStates \ {"merged"}]
    /\ last \in {s \in Stories : row[s] # "failed"}
    /\ settled = FALSE
    /\ step = "running"
    /\ run = "running"
    /\ origin = <<>>
    /\ local = <<>>
    /\ tracking = <<>>
    /\ pullRequest = FALSE
    /\ pass = [g \in Passes |-> NewPass]
    /\ made = 0
    /\ faults = 0
    /\ overlapped = FALSE

-----------------------------------------------------------------------------
(* Git *)

Holds(branch, s) == \E i \in DOMAIN branch : branch[i].story = s

\* The first branch is an ancestor of the second.
Precedes(a, b) == Len(a) <= Len(b) /\ \A i \in DOMAIN a : a[i] = b[i]

\* pull --ff-only: what the checkout has next, if that is a fast forward.
Forwarded == IF Precedes(local, origin) THEN origin ELSE local

Pullable == Precedes(local, origin) \/ Precedes(origin, local)

MergeCommit(s) ==
    /\ local' = Append(local, [story |-> s, nr |-> made + 1])
    /\ made' = made + 1

-----------------------------------------------------------------------------
(* A pass *)

At(g, pc) == pass[g].pc = pc

Alive(g) == pass[g].pc \notin {"none", "rejected", "gone"}

Becomes(g, p) == pass' = [pass EXCEPT ![g] = p]

Goes(g, pc) == Becomes(g, [pass[g] EXCEPT !.pc = pc])

\* A call fails: the pass notices and goes to pc.
Fault(g, pc) ==
    /\ faults < MaxFaults
    /\ faults' = faults + 1
    /\ Becomes(g, [pass[g] EXCEPT !.pc = pc, !.hit = TRUE])

Ends(g) == Becomes(g, [pass[g] EXCEPT !.pc = "gone", !.story = 0])

\* The effect is settled by the pass that holds its lease, the newest one.
Settles(g) == settled' = (settled \/ \A h \in Passes : h > g => At(h, "none"))

\* The next attempt at the effect, beside an earlier one that only was slow.
NextPass(g) ==
    /\ At(g, "none")
    /\ g > 1 => ~At(g - 1, "none")
    /\ (\E h \in Passes : Alive(h)) => exact = Stories
    /\ ~settled
    /\ run # "failed"
    /\ overlapped' = (overlapped \/ \E h \in Passes : Alive(h))
    /\ UNCHANGED <<inputs, dbVars, origin, local, made, pullRequest, faults>>

\* reconcileRuntimeCompletionEffects takes the effect for applied.
Reconcilable == protocol # "v3" /\ step = "done" /\ \A s \in Stories : row[s] \in {"merged", "skipped"}

Reconcile(g) ==
    /\ Reconcilable
    /\ NextPass(g)
    /\ settled' = TRUE
    /\ Goes(g, "gone")
    /\ UNCHANGED tracking

\* The continuation refuses a story that has not been completed.
Reject(g) ==
    /\ ~Reconcilable
    /\ row[last] = "failed"
    /\ NextPass(g)
    /\ Goes(g, "rejected")
    /\ UNCHANGED <<settled, tracking>>

\* Mutant: a step that has failed is not taken up again.
ResumeOpenStep(g) ==
    /\ ~Reconcilable
    /\ row[last] # "failed"
    /\ NextPass(g)
    /\ step = "running"
    /\ Becomes(g, TakenUp)
    /\ tracking' \in {tracking, origin}
    /\ UNCHANGED settled

\* resumeRuntimeCompletionEffects up to the queue: fetch --prune, which may
\* fail unnoticed, and the rows of the stories.
Resume(g) ==
    /\ ~Reconcilable
    /\ row[last] # "failed"
    /\ NextPass(g)
    /\ IF step = "done" THEN Goes(g, "advance") /\ UNCHANGED tracking
       ELSE Becomes(g, TakenUp) /\ tracking' \in {tracking, origin}
    /\ UNCHANGED settled

\* A story of the pass that no other one precedes.
IsNext(g, s) == s \in pass[g].left /\ \A t \in pass[g].left : s <= t

TakesUp(g, s, pc) == [pass[g] EXCEPT !.left = @ \ {s}, !.story = s, !.hit = FALSE, !.pc = pc]

Skips(g, s) == [pass[g] EXCEPT !.left = @ \ {s},
                    !.merged = IF pass[g].seen[s] = "merged" THEN @ + 1 ELSE @]

\* Mutant: the exact source is not looked at.
PickStoryByBranch(g) ==
    /\ At(g, "queue")
    /\ \E s \in Stories :
          /\ IsNext(g, s)
          /\ Becomes(g, IF pass[g].seen[s] = "ready" THEN TakesUp(g, s, "sync") ELSE Skips(g, s))
    /\ UNCHANGED <<inputs, dbVars, settled, gitVars, pullRequest, faults, overlapped>>

\* The next story in its order, by the rows the pass has read.
PickStory(g) ==
    /\ At(g, "queue")
    /\ \E s \in Stories :
          /\ IsNext(g, s)
          /\ Becomes(g, IF pass[g].seen[s] = "ready"
                        THEN TakesUp(g, s, IF s \in exact THEN "fetch" ELSE "sync")
                        ELSE Skips(g, s))
    /\ UNCHANGED <<inputs, dbVars, settled, gitVars, pullRequest, faults, overlapped>>

-----------------------------------------------------------------------------
(* mergeExactSourceIntoFeature *)

\* The fetch, and the proof that origin has the source already.
Fetch(g) ==
    /\ At(g, "fetch")
    /\ \/ /\ tracking' = origin
          /\ Goes(g, IF Holds(origin, pass[g].story) THEN "published" ELSE "pull")
          /\ UNCHANGED faults
       \/ Fault(g, "refused") /\ UNCHANGED tracking
    /\ UNCHANGED <<inputs, dbVars, settled, origin, local, made, pullRequest, overlapped>>

\* checkout, pull --ff-only, and the proof on the local branch.
Pull(g) ==
    /\ At(g, "pull")
    /\ \/ /\ Pullable
          /\ tracking' = origin
          /\ local' = Forwarded
          /\ Goes(g, IF Holds(Forwarded, pass[g].story) THEN "push" ELSE "merge")
          /\ UNCHANGED faults
       \/ ~Pullable /\ Goes(g, "refused") /\ UNCHANGED <<local, tracking, faults>>
       \/ Fault(g, "refused") /\ UNCHANGED <<local, tracking>>
    /\ UNCHANGED <<inputs, dbVars, settled, origin, made, pullRequest, overlapped>>

\* A conflict is aborted and ends the attempt; a source that has come in
\* meanwhile makes no commit.
Merge(g) ==
    LET s == pass[g].story IN
    /\ At(g, "merge")
    /\ \/ Holds(local, s) /\ Goes(g, "push") /\ UNCHANGED <<local, made>>
       \/ /\ ~Holds(local, s)
          /\ IF s \in clashing
             THEN Goes(g, "refused") /\ UNCHANGED <<local, made>>
             ELSE MergeCommit(s) /\ Goes(g, "push")
    /\ UNCHANGED <<inputs, dbVars, settled, origin, tracking, pullRequest, faults, overlapped>>

\* Whatever the push reports, origin decides: it may have refused the update,
\* or taken it and lost the answer.
Push(g) ==
    /\ At(g, "push")
    /\ \/ /\ Precedes(origin, local)
          /\ origin' = local
          /\ tracking' = local
          /\ Goes(g, "confirm")
          /\ UNCHANGED faults
       \/ /\ ~Precedes(origin, local)
          /\ Goes(g, "confirm")
          /\ UNCHANGED <<origin, tracking, faults>>
       \/ /\ Fault(g, "confirm")
          /\ origin' \in {origin} \cup (IF Precedes(origin, local) THEN {local} ELSE {})
          /\ UNCHANGED tracking
    /\ UNCHANGED <<inputs, dbVars, settled, local, made, pullRequest, overlapped>>

\* Mutant: the local branch is taken for the proof.
ConfirmLocally(g) ==
    /\ At(g, "confirm")
    /\ Goes(g, IF Holds(local, pass[g].story) THEN "published" ELSE "refused")
    /\ UNCHANGED <<inputs, dbVars, settled, gitVars, pullRequest, faults, overlapped>>

\* Fetch again: only what origin has is published.
Confirm(g) ==
    /\ At(g, "confirm")
    /\ \/ /\ tracking' = origin
          /\ Goes(g, IF Holds(origin, pass[g].story) THEN "published" ELSE "refused")
          /\ UNCHANGED faults
       \/ Fault(g, "refused") /\ UNCHANGED tracking
    /\ UNCHANGED <<inputs, dbVars, settled, origin, local, made, pullRequest, overlapped>>

-----------------------------------------------------------------------------
(* mergeStoryIntoFeature, for a story without an exact source *)

\* checkout and pull, or else a reset to what was last seen at origin.
Sync(g) ==
    /\ At(g, "sync")
    /\ \/ Pullable /\ tracking' = origin /\ local' = Forwarded /\ Goes(g, "rebase")
          /\ UNCHANGED faults
       \/ ~Pullable /\ local' = tracking /\ Goes(g, "rebase") /\ UNCHANGED <<tracking, faults>>
       \/ Fault(g, "rebase") /\ local' = tracking /\ UNCHANGED tracking
    /\ UNCHANGED <<inputs, dbVars, settled, origin, made, pullRequest, overlapped>>

\* A branch with nothing ahead of the feature branch is refused as empty; the
\* others are rebased onto it and merged, in the end with -X theirs.
RebaseAndMerge(g) ==
    LET s == pass[g].story IN
    /\ At(g, "rebase")
    /\ IF Holds(local, s) \/ s \in clashing
       THEN Goes(g, "refused") /\ UNCHANGED <<local, made>>
       ELSE MergeCommit(s) /\ Goes(g, "publish")
    /\ UNCHANGED <<inputs, dbVars, settled, origin, tracking, pullRequest, faults, overlapped>>

\* The push of the merge, and the one of the retry that follows when it fails
\* and finds the merge made.
PublishMerge(g) ==
    /\ pass[g].pc \in {"publish", "retry"}
    /\ LET lost == IF At(g, "publish") THEN "retry" ELSE "refused" IN
       \/ /\ Precedes(origin, local)
          /\ origin' = local
          /\ tracking' = local
          /\ Goes(g, "published")
          /\ UNCHANGED faults
       \/ ~Precedes(origin, local) /\ Goes(g, lost) /\ UNCHANGED <<origin, tracking, faults>>
       \/ /\ Fault(g, lost)
          /\ origin' \in {origin} \cup (IF Precedes(origin, local) THEN {local} ELSE {})
          /\ UNCHANGED tracking
    /\ UNCHANGED <<inputs, dbVars, settled, local, made, pullRequest, overlapped>>

-----------------------------------------------------------------------------
(* The rows, the pull request and the end of the step *)

\* merge_status, and the status of the story with it, whatever they were.
Record(g) ==
    LET ok == At(g, "published")
        s == pass[g].story
    IN  /\ pass[g].pc \in {"published", "refused"}
        /\ row' = [row EXCEPT ![s] = IF ok THEN "merged" ELSE "failed"]
        /\ Becomes(g, [pass[g] EXCEPT !.pc = "queue", !.story = 0,
                          !.merged = IF ok THEN @ + 1 ELSE @,
                          !.conflicted = IF ok THEN @ ELSE @ + 1])
        /\ UNCHANGED <<inputs, step, run, settled, gitVars, pullRequest, faults, overlapped>>

\* The end of the queue: a pull request, if anything was merged; and an
\* exception if too little was.
EndOfQueue(g) ==
    /\ At(g, "queue")
    /\ pass[g].left = {}
    /\ Goes(g, IF pass[g].merged > 0 THEN "lookup" ELSE "judge")
    /\ UNCHANGED <<inputs, dbVars, settled, gitVars, pullRequest, faults, overlapped>>

\* ensureFinalPullRequest finds one, or that there is none, or cannot tell.
LookUpPullRequest(g) ==
    /\ At(g, "lookup")
    /\ \/ Goes(g, IF pullRequest THEN "judge" ELSE "create") /\ UNCHANGED faults
       \/ Fault(g, "judge")
    /\ UNCHANGED <<inputs, dbVars, settled, gitVars, pullRequest, overlapped>>

\* GitHub takes the request or not, and whether the answer arrives or not the
\* lookup after it decides; without a pull request the pass goes on as well.
CreatePullRequest(g) ==
    /\ At(g, "create")
    /\ \/ pullRequest' = TRUE /\ Goes(g, "judge") /\ UNCHANGED faults
       \/ pullRequest' \in {TRUE, pullRequest} /\ Fault(g, "judge")
    /\ UNCHANGED <<inputs, dbVars, settled, gitVars, overlapped>>

TooManyConflicts(g) ==
    /\ pass[g].conflicted > 0
    /\ pass[g].merged = 0 \/ pass[g].conflicted > 2 * pass[g].merged

\* Mutant: the stories that failed before the queue are not looked at.
JudgeConflictsOnly(g) ==
    /\ At(g, "judge")
    /\ IF TooManyConflicts(g) \/ pass[g].conflicted > 0
       THEN Goes(g, "failing") /\ step' = "failed"
       ELSE Goes(g, "record") /\ step' = "done"
    /\ UNCHANGED <<inputs, row, run, settled, gitVars, pullRequest, faults, overlapped>>

\* The queue throws, or any failed story fails the step; else it is done.
Judge(g) ==
    /\ At(g, "judge")
    /\ IF TooManyConflicts(g) \/ \E s \in Stories : row[s] = "failed"
       THEN Goes(g, "failing") /\ step' = "failed"
       ELSE Goes(g, "record") /\ step' = "done"
    /\ UNCHANGED <<inputs, row, run, settled, gitVars, pullRequest, faults, overlapped>>

\* The database fails a statement of the queue or of the continuation: the
\* handler fails the step, with a statement of its own.
Throw(g) ==
    /\ pass[g].pc \in {"queue", "published", "refused", "judge", "record"}
    /\ faults < MaxFaults
    /\ faults' = faults + 1
    /\ Becomes(g, [pass[g] EXCEPT !.pc = "caught", !.story = 0])
    /\ UNCHANGED <<inputs, dbVars, settled, gitVars, pullRequest, overlapped>>

FailStep(g) ==
    /\ At(g, "caught")
    /\ step' = "failed"
    /\ Goes(g, "failing")
    /\ UNCHANGED <<inputs, row, run, settled, gitVars, pullRequest, faults, overlapped>>

FailRun(g) ==
    /\ At(g, "failing")
    /\ run' = "failed"
    /\ Ends(g)
    /\ Settles(g)
    /\ UNCHANGED <<inputs, row, step, gitVars, pullRequest, faults, overlapped>>

\* advancePipeline, in this pass or in one that finds the step done.
Advance(g) ==
    /\ pass[g].pc \in {"record", "advance"}
    /\ run' = IF run = "running" THEN "advanced" ELSE run
    /\ Ends(g)
    /\ Settles(g)
    /\ UNCHANGED <<inputs, row, step, gitVars, pullRequest, faults, overlapped>>

\* The medic advances a run whose step is done and whose next one waits; not
\* one that is the compiler's, nor under a completion that is being processed.
MedicAdvance ==
    /\ protocol = "legacy"
    /\ settled
    /\ run = "running"
    /\ step = "done"
    /\ run' = "advanced"
    /\ UNCHANGED <<inputs, row, step, settled, gitVars, pullRequest, pass, faults, overlapped>>

Crash(g) ==
    /\ Alive(g)
    /\ g < MaxPasses
    /\ Ends(g)
    /\ UNCHANGED <<inputs, dbVars, settled, gitVars, pullRequest, faults, overlapped>>

-----------------------------------------------------------------------------

ExactStep(g) == Fetch(g) \/ Pull(g) \/ Merge(g) \/ Push(g) \/ Confirm(g)

BranchStep(g) == Sync(g) \/ RebaseAndMerge(g) \/ PublishMerge(g)

QueueStep(g) ==
    \/ PickStory(g) \/ Record(g) \/ EndOfQueue(g)
    \/ LookUpPullRequest(g) \/ CreatePullRequest(g)
    \/ Judge(g) \/ FailStep(g) \/ FailRun(g) \/ Advance(g)

PassStep(g) == ExactStep(g) \/ BranchStep(g) \/ QueueStep(g)

TakeUp(g) == Reconcile(g) \/ Reject(g) \/ Resume(g)

MergeNext ==
    \/ \E g \in Passes : TakeUp(g) \/ PassStep(g) \/ Throw(g) \/ Crash(g)
    \/ MedicAdvance

\* A pass that lives goes on, the effect runner takes an effect up again that
\* is not settled, and the medic makes its rounds.
MergeSpec ==
    /\ MergeInit /\ [][MergeNext]_mergeVars
    /\ \A g \in Passes : WF_mergeVars(PassStep(g)) /\ WF_mergeVars(TakeUp(g))
    /\ WF_mergeVars(MedicAdvance)

-----------------------------------------------------------------------------
(* Properties *)

\* The type invariant.
MergeTypeOK ==
    /\ exact \subseteq Stories
    /\ clashing \subseteq Stories
    /\ last \in Stories
    /\ protocol \in Protocols
    /\ settled \in BOOLEAN
    /\ row \in [Stories -> RowStates]
    /\ step \in {"running", "done", "failed"}
    /\ run \in {"running", "advanced", "failed"}
    /\ {origin, local, tracking} \subseteq Seq(Commits)
    /\ pullRequest \in BOOLEAN
    /\ pass \in [Passes -> PassRows]
    /\ made \in Nat
    /\ faults \in 0..MaxFaults
    /\ overlapped \in BOOLEAN

\* What the rows call merged is at origin, whatever pushes were lost, answered
\* late or repeated, and whichever pass wrote the row.  ("prove that the exact
\* commit is published to origin"; a branch is not merged without its push.)
MergedIsPublished == \A s \in Stories : row[s] = "merged" => Holds(origin, s)

\* A pass that finds an exact source at origin reconciles it: it fails such a
\* story only if one of its own calls for it failed.  (reconcileStoryMerge:
\* "An exact source commit already reachable from the target is success, even
\* when replaying the merge command itself would now report an empty/no-op
\* branch".)
PublishedFailsByFaultOnly ==
    [][\A s \in exact :
          Holds(origin, s) /\ row[s] # "failed" /\ row'[s] = "failed" =>
              \E g \in Passes : pass[g].story = s /\ At(g, "refused") /\ pass[g].hit]_mergeVars

\* The step is done only over a whole feature branch: every story that was not
\* skipped is merged, and nothing the run advances with was left behind.
\* (step-ops.ts: "explicitly count failed stories AFTER the merge queue".)
DoneIsWhole ==
    step = "done" /\ ~overlapped =>
        \A s \in Stories : row[s] = "skipped" \/ (row[s] = "merged" /\ Holds(origin, s))

\* The run stands with its step done: a pass died before it advanced, and the
\* next one took all for done.
Stranded == settled /\ run = "running" /\ step = "done"

\* The continuation is carried through: the run advances or fails, unless the
\* story it belongs to has failed, or a pass that was only slow undid another.
\* The medic sees to what is stranded, in a legacy run.  ("This is the safety
\* net for gateway restarts during advancePipeline", medic/checks.ts.)
ContinuationEnds ==
    <>(\/ run # "running"
       \/ row[last] = "failed"
       \/ overlapped
       \/ protocol = "shadow" /\ Stranded)

\* "Every mutation is an idempotent projection of canonical story/step/run
\* state, so a coordinator crash can replay it" (step-ops.ts): a replay that is
\* refused does not leave a running run to nobody.
ReplayIsAccepted ==
    run = "running" /\ (\E g \in Passes : At(g, "rejected")) => \E g \in Passes : Alive(g)
=============================================================================
