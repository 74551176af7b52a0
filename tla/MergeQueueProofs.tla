-------------------------- MODULE MergeQueueProofs --------------------------
(***************************************************************************)
(* Whatever is recorded as merged is published, for any stories, passes    *)
(* and faults.                                                             *)
(*                                                                         *)
(* The argument: the feature branch at origin only grows, because a push   *)
(* without force needs it to precede what is pushed.  A pass calls a story *)
(* published when it has seen it at origin, or when it has pushed a local  *)
(* branch with the story on it; the latter only while it has the checkout  *)
(* for itself, so that nobody resets the branch between merge and push.    *)
(*                                                                         *)
(* Two more invariants follow.  WhyInv says what a refusal means: with     *)
(* exact sources only nobody resets the checkout, so a pass that finds its *)
(* merge neither there nor publishable has had a call fail, or the story   *)
(* clashes, and then it is on no branch.  WholeInv says what the queue of  *)
(* a pass is worth while no other overlaps it: every ready story is still  *)
(* before it, by rows nobody else writes.                                  *)
(***************************************************************************)
EXTENDS MergeQueue, TLAPS

QueueRows == [pc : Queueing, left : SUBSET Stories, story : {0}, hit : BOOLEAN,
              merged : Nat, conflicted : Nat, seen : [Stories -> RowStates]]

MergeRows == [pc : Merging, left : SUBSET Stories, story : Stories, hit : BOOLEAN,
              merged : Nat, conflicted : Nat, seen : [Stories -> RowStates]]

OnBranch == {"sync", "rebase", "publish", "retry"}

\* Two passes live only where every story has an exact source.
AloneUnlessExact ==
    exact # Stories => \A g, h \in Passes : Alive(g) /\ Alive(h) => g = h

\* What a pass may rely on: in the older merge its story has no exact source,
\* its merge stays on the local branch until it is pushed, and what it calls
\* published is.
PassKnows(g) ==
    /\ pass[g].pc \in OnBranch => pass[g].story \notin exact
    /\ pass[g].pc \in {"publish", "retry"} => Holds(local, pass[g].story)
    /\ At(g, "published") => Holds(origin, pass[g].story)

MergeInv ==
    /\ MergeTypeOK
    /\ AloneUnlessExact
    /\ \A g \in Passes : PassKnows(g)
    /\ MergedIsPublished

PassAction(g) == TakeUp(g) \/ PassStep(g) \/ Throw(g) \/ Crash(g)

-----------------------------------------------------------------------------
(* Branches *)

\* What a branch holds, every branch it precedes holds as well.
LEMMA HoldsForward ==
    ASSUME NEW a \in Seq(Commits), NEW b \in Seq(Commits), Precedes(a, b),
           NEW s, Holds(a, s)
    PROVE  Holds(b, s)
<1>1. PICK i \in DOMAIN a : a[i].story = s
    BY DEF Holds
<1>2. i \in DOMAIN b /\ a[i] = b[i]
    BY <1>1 DEF Precedes
<1> QED
    BY <1>1, <1>2 DEF Holds

\* A branch precedes itself.
LEMMA PrecedesItself ==
    ASSUME NEW a \in Seq(Commits)
    PROVE  Precedes(a, a)
BY DEF Precedes

\* A merge adds its story to the branch.
LEMMA MergeHolds ==
    ASSUME MergeTypeOK, NEW s \in Stories, MergeCommit(s)
    PROVE  /\ local' \in Seq(Commits)
           /\ made' \in Nat
           /\ Holds(local', s)
<1> DEFINE c == [story |-> s, nr |-> made + 1]
<1>1. made \in Nat /\ local \in Seq(Commits)
    BY DEF MergeTypeOK
<1>2. c \in Commits /\ c.story = s
    BY <1>1 DEF Commits
<1>3. local' = Append(local, c) /\ made' = made + 1
    BY DEF MergeCommit
<1> HIDE DEF c
<1>4. Append(local, c) \in Seq(Commits) /\ Append(local, c)[Len(local) + 1] = c
        /\ Len(local) + 1 \in DOMAIN Append(local, c)
    BY <1>1, <1>2
<1>5. Holds(Append(local, c), s)
    BY <1>2, <1>4 DEF Holds
<1> QED
    BY <1>1, <1>3, <1>4, <1>5 DEF Holds

\* A pull gives a branch that is one of the two it looked at.
LEMMA ForwardedType ==
    ASSUME MergeTypeOK
    PROVE  Forwarded \in Seq(Commits)
BY DEF MergeTypeOK, Forwarded

-----------------------------------------------------------------------------
(* Passes *)

\* A pass works on a story exactly when it is at a step of a merge.
LEMMA RowsApart ==
    ASSUME NEW p \in PassRows
    PROVE  /\ p \in QueueRows \/ p \in MergeRows
           /\ p.pc \in Queueing => p \in QueueRows
           /\ p.pc \in Merging => p \in MergeRows
<1>1. Queueing \cap Merging = {}
    BY DEF Queueing, Merging
<1>2. p \in QueueRows \/ p \in MergeRows
    BY DEF PassRows, QueueRows, MergeRows
<1>3. ASSUME p \in QueueRows PROVE p.pc \in Queueing
    BY <1>3 DEF QueueRows
<1>4. ASSUME p \in MergeRows PROVE p.pc \in Merging
    BY <1>4 DEF MergeRows
<1> QED
    BY <1>1, <1>2, <1>3, <1>4

LEMMA RowsTogether == PassRows = QueueRows \cup MergeRows
BY DEF PassRows, QueueRows, MergeRows

\* A step within the queue, or within a merge, gives a pass of its kind.
LEMMA GoesQueueing ==
    ASSUME NEW p \in QueueRows, NEW pc \in Queueing
    PROVE  [p EXCEPT !.pc = pc] \in QueueRows
BY DEF QueueRows

LEMMA GoesMerging ==
    ASSUME NEW p \in MergeRows, NEW pc \in Merging
    PROVE  [p EXCEPT !.pc = pc] \in MergeRows
BY DEF MergeRows

LEMMA EndsTyped ==
    ASSUME NEW p \in PassRows, NEW pc \in Queueing
    PROVE  [p EXCEPT !.pc = pc, !.story = 0] \in QueueRows
BY DEF PassRows, QueueRows

LEMMA HitQueueing ==
    ASSUME NEW p \in QueueRows, NEW pc \in Queueing
    PROVE  [p EXCEPT !.pc = pc, !.hit = TRUE] \in QueueRows
BY DEF QueueRows

LEMMA HitMerging ==
    ASSUME NEW p \in MergeRows, NEW pc \in Merging
    PROVE  [p EXCEPT !.pc = pc, !.hit = TRUE] \in MergeRows
BY DEF MergeRows

\* One pass changes; the others are as they were.
LEMMA OnePass ==
    ASSUME MergeTypeOK, NEW g \in Passes, NEW p \in PassRows, Becomes(g, p)
    PROVE  /\ pass' \in [Passes -> PassRows]
           /\ pass'[g] = p
           /\ \A h \in Passes : h # g => pass'[h] = pass[h]
BY DEF MergeTypeOK, Becomes

\* Where g has gone to, and the story it has there.
Moves(g, pc, story) ==
    /\ pass' \in [Passes -> PassRows]
    /\ pass'[g].pc = pc
    /\ pass'[g].story = story
    /\ \A h \in Passes : h # g => pass'[h] = pass[h]

LEMMA QueueMoves ==
    ASSUME MergeTypeOK, NEW g \in Passes, pass[g].pc \in Queueing, NEW pc \in Queueing,
           Goes(g, pc) \/ Fault(g, pc)
    PROVE  Moves(g, pc, 0)
<1> DEFINE p == [pass[g] EXCEPT !.pc = pc]
           q == [pass[g] EXCEPT !.pc = pc, !.hit = TRUE]
<1>1. pass[g] \in PassRows /\ pass[g] \in QueueRows
    BY RowsApart DEF MergeTypeOK
<1>2. p \in QueueRows /\ q \in QueueRows
    BY <1>1, GoesQueueing, HitQueueing
<1>3. p.pc = pc /\ p.story = 0 /\ q.pc = pc /\ q.story = 0
    BY <1>1, <1>2 DEF QueueRows
<1>4. Becomes(g, p) \/ Becomes(g, q)
    BY DEF Goes, Fault
<1> HIDE DEF p, q
<1> QED
    BY <1>2, <1>3, <1>4, OnePass, RowsTogether DEF Moves

LEMMA MergeMoves ==
    ASSUME MergeTypeOK, NEW g \in Passes, pass[g].pc \in Merging, NEW pc \in Merging,
           Goes(g, pc) \/ Fault(g, pc)
    PROVE  Moves(g, pc, pass[g].story)
<1> DEFINE p == [pass[g] EXCEPT !.pc = pc]
           q == [pass[g] EXCEPT !.pc = pc, !.hit = TRUE]
<1>1. pass[g] \in PassRows /\ pass[g] \in MergeRows
    BY RowsApart DEF MergeTypeOK
<1>2. p \in MergeRows /\ q \in MergeRows
    BY <1>1, GoesMerging, HitMerging
<1>3. p.pc = pc /\ p.story = pass[g].story /\ q.pc = pc /\ q.story = pass[g].story
    BY <1>1, <1>2 DEF MergeRows
<1>4. Becomes(g, p) \/ Becomes(g, q)
    BY DEF Goes, Fault
<1> HIDE DEF p, q
<1> QED
    BY <1>2, <1>3, <1>4, OnePass, RowsTogether DEF Moves

\* A pass that ends, or whose handler has caught, has no story.
LEMMA StoryLeft ==
    ASSUME MergeTypeOK, NEW g \in Passes, NEW pc \in Queueing,
           Becomes(g, [pass[g] EXCEPT !.pc = pc, !.story = 0])
    PROVE  Moves(g, pc, 0)
<1> DEFINE p == [pass[g] EXCEPT !.pc = pc, !.story = 0]
<1>1. pass[g] \in PassRows
    BY DEF MergeTypeOK
<1>2. p \in QueueRows
    BY <1>1, EndsTyped
<1>3. p.pc = pc /\ p.story = 0
    BY <1>1, <1>2 DEF QueueRows, PassRows
<1> HIDE DEF p
<1> QED
    BY <1>2, <1>3, OnePass, RowsTogether DEF p, Moves

LEMMA StoryTyped ==
    ASSUME MergeTypeOK, NEW g \in Passes, pass[g].pc \in Merging
    PROVE  pass[g].story \in Stories
<1>1. pass[g] \in MergeRows
    BY RowsApart DEF MergeTypeOK
<1> QED
    BY <1>1 DEF MergeRows

-----------------------------------------------------------------------------
(* What one step of a pass may change *)

StepSound(g) ==
    /\ MergeTypeOK'
    /\ exact' = exact
    /\ \A h \in Passes : h # g => pass'[h] = pass[h]
    /\ Alive(g)' => Alive(g) \/ ((\E h \in Passes : Alive(h)) => exact = Stories)
    /\ Alive(g) \/ local' = local
    /\ Precedes(origin, origin')
    /\ PassKnows(g)'
    /\ \A s \in Stories : row'[s] = "merged" => row[s] = "merged" \/ Holds(origin, s)

LEMMA TakeUpSound ==
    ASSUME MergeInv, NEW g \in Passes, TakeUp(g)
    PROVE  StepSound(g)
<1>1. MergeTypeOK /\ UNCHANGED <<inputs, dbVars, origin, local, made, pullRequest, faults>>
        /\ pass[g].pc = "none" /\ pass[g].pc \in Queueing
    BY DEF MergeInv, TakeUp, Reconcile, Reject, Resume, NextPass, At, Queueing
<1>2. tracking' \in Seq(Commits) /\ overlapped' \in BOOLEAN /\ settled' \in BOOLEAN
    <2>1. settled' \in {settled, TRUE}
        BY DEF TakeUp, Reconcile, Reject, Resume
    <2>2. tracking' \in {tracking, origin}
        BY DEF TakeUp, Reconcile, Reject, Resume
    <2>3. overlapped' = (overlapped \/ \E h \in Passes : Alive(h))
        BY DEF TakeUp, Reconcile, Reject, Resume, NextPass
    <2> QED
        BY <1>1, <2>1, <2>2, <2>3 DEF MergeTypeOK
<1>3. \E pc \in {"queue", "advance", "gone", "rejected"} : Moves(g, pc, 0)
    <2>1. CASE \E pc \in {"advance", "gone", "rejected"} : Goes(g, pc)
        <3>1. PICK pc \in {"advance", "gone", "rejected"} : Goes(g, pc)
            BY <2>1
        <3> QED
            BY <1>1, <3>1, QueueMoves DEF Queueing
    <2>2. CASE Becomes(g, TakenUp)
        <3>1. TakenUp \in QueueRows /\ TakenUp.pc = "queue" /\ TakenUp.story = 0
            BY <1>1 DEF MergeTypeOK, TakenUp, QueueRows, Queueing
        <3> QED
            BY <1>1, <2>2, <3>1, OnePass, RowsTogether DEF Moves
    <2> QED
        BY <2>1, <2>2 DEF TakeUp, Reconcile, Reject, Resume
<1>4. PICK pc \in {"queue", "advance", "gone", "rejected"} : Moves(g, pc, 0)
    BY <1>3
<1>5. MergeTypeOK'
    BY <1>1, <1>2, <1>4 DEF MergeTypeOK, Moves, inputs, dbVars
<1>6. PassKnows(g)'
    BY <1>4 DEF PassKnows, Moves, OnBranch, At
<1>7. Precedes(origin, origin')
    BY <1>1, PrecedesItself DEF MergeTypeOK
<1> QED
    BY <1>1, <1>4, <1>5, <1>6, <1>7 
       DEF StepSound, Moves, TakeUp, Reconcile, Reject, Resume, NextPass, inputs, dbVars

\* A step that leaves the branches and the rows alone.
QuietStep == UNCHANGED <<inputs, row, origin, local, tracking, made, overlapped>>

QuietTypes ==
    /\ step' \in {"running", "done", "failed"}
    /\ run' \in {"running", "advanced", "failed"}
    /\ {pullRequest', settled'} \subseteq BOOLEAN
    /\ faults' \in 0..MaxFaults

\* Such a step is sound if it does not take the pass into the older merge, nor
\* make it call its story published.
LEMMA QuietSound ==
    ASSUME MergeInv, NEW g \in Passes, Alive(g), QuietStep, QuietTypes,
           NEW pc, NEW story, Moves(g, pc, story), pc \notin OnBranch \cup {"published"}
    PROVE  StepSound(g)
<1>1. MergeTypeOK
    BY DEF MergeInv
<1>2. MergeTypeOK'
    BY <1>1 DEF MergeTypeOK, QuietStep, QuietTypes, Moves, inputs
<1>3. PassKnows(g)'
    BY DEF PassKnows, Moves, OnBranch, At
<1>4. Precedes(origin, origin')
    BY <1>1, PrecedesItself DEF MergeTypeOK, QuietStep
<1> QED
    BY <1>2, <1>3, <1>4 DEF StepSound, Moves, QuietStep, inputs

\* The number of faults stays within its bound.
LEMMA FaultsTyped ==
    ASSUME MergeTypeOK, NEW g \in Passes, NEW pc, Fault(g, pc) \/ UNCHANGED faults
    PROVE  faults' \in 0..MaxFaults
BY MergeAssumption DEF MergeTypeOK, Fault

LEMMA QueueSound ==
    ASSUME MergeInv, NEW g \in Passes,
           \/ EndOfQueue(g) \/ LookUpPullRequest(g) \/ CreatePullRequest(g)
           \/ Judge(g) \/ FailStep(g)
    PROVE  StepSound(g)
<1>1. MergeTypeOK /\ QuietStep
    BY DEF MergeInv, EndOfQueue, LookUpPullRequest, CreatePullRequest, Judge, FailStep,
           QuietStep, gitVars, dbVars, inputs
<1>2. pass[g].pc \in Queueing /\ Alive(g)
    BY DEF EndOfQueue, LookUpPullRequest, CreatePullRequest, Judge, FailStep, At,
           Queueing, Alive
<1>3. \E pc \in {"lookup", "judge", "create", "failing", "record"} :
          Goes(g, pc) \/ Fault(g, pc)
    BY DEF EndOfQueue, LookUpPullRequest, CreatePullRequest, Judge, FailStep
<1>4. PICK pc \in {"lookup", "judge", "create", "failing", "record"} :
          Goes(g, pc) \/ Fault(g, pc)
    BY <1>3
<1>5. Moves(g, pc, 0)
    BY <1>1, <1>2, <1>4, QueueMoves DEF Queueing
<1>6. QuietTypes
    <2>1. faults' \in 0..MaxFaults
        BY <1>1, FaultsTyped
           DEF EndOfQueue, LookUpPullRequest, CreatePullRequest, Judge, FailStep
    <2> QED
        BY <1>1, <2>1 DEF QuietTypes, MergeTypeOK, EndOfQueue, LookUpPullRequest,
           CreatePullRequest, Judge, FailStep, dbVars
<1> QED
    BY <1>1, <1>2, <1>5, <1>6, QuietSound DEF OnBranch

LEMMA EndSound ==
    ASSUME MergeInv, NEW g \in Passes,
           Throw(g) \/ FailRun(g) \/ Advance(g) \/ Crash(g)
    PROVE  StepSound(g)
<1>1. MergeTypeOK /\ QuietStep
    BY DEF MergeInv, Throw, FailRun, Advance, Crash, QuietStep, gitVars, dbVars, inputs
<1>2. Alive(g)
    BY DEF Throw, FailRun, Advance, Crash, At, Alive
<1>3. PICK pc \in {"caught", "gone"} : Becomes(g, [pass[g] EXCEPT !.pc = pc, !.story = 0])
    BY DEF Throw, FailRun, Advance, Crash, Ends
<1>4. Moves(g, pc, 0)
    BY <1>1, <1>3, StoryLeft DEF Queueing
<1>5. QuietTypes
    <2>1. faults' \in 0..MaxFaults
        BY <1>1, MergeAssumption DEF MergeTypeOK, Throw, FailRun, Advance, Crash
    <2> QED
        BY <1>1, <2>1 DEF QuietTypes, MergeTypeOK, Throw, FailRun, Advance, Crash, dbVars,
           Settles
<1> QED
    BY <1>1, <1>2, <1>4, <1>5, QuietSound DEF OnBranch

LEMMA TakesUpTyped ==
    ASSUME MergeTypeOK, NEW g \in Passes, pass[g].pc \in Queueing,
           NEW s \in Stories, NEW pc \in Merging
    PROVE  TakesUp(g, s, pc) \in MergeRows /\ TakesUp(g, s, pc).pc = pc
             /\ TakesUp(g, s, pc).story = s
<1>1. pass[g] \in QueueRows
    BY RowsApart DEF MergeTypeOK
<1> QED
    BY <1>1 DEF TakesUp, QueueRows, MergeRows

LEMMA LeavesTyped ==
    ASSUME NEW p \in QueueRows, NEW left \in SUBSET Stories, NEW n \in Nat
    PROVE  LET q == [p EXCEPT !.left = left, !.merged = n]
           IN  q \in QueueRows /\ q.pc = p.pc /\ q.story = 0
BY DEF QueueRows

LEMMA RecordedTyped ==
    ASSUME NEW p \in MergeRows, NEW n \in Nat, NEW m \in Nat
    PROVE  LET q == [p EXCEPT !.pc = "queue", !.story = 0, !.merged = n, !.conflicted = m]
           IN  q \in QueueRows /\ q.pc = "queue" /\ q.story = 0
BY DEF MergeRows, QueueRows, Queueing

LEMMA SkipsTyped ==
    ASSUME MergeTypeOK, NEW g \in Passes, At(g, "queue"), NEW s \in Stories
    PROVE  Skips(g, s) \in QueueRows /\ Skips(g, s).pc = "queue" /\ Skips(g, s).story = 0
<1>1. pass[g] \in QueueRows
    BY RowsApart DEF MergeTypeOK, At, Queueing
<1> DEFINE left == pass[g].left \ {s}
           n == IF pass[g].seen[s] = "merged" THEN pass[g].merged + 1 ELSE pass[g].merged
<1>2. left \in SUBSET Stories /\ n \in Nat
    BY <1>1 DEF QueueRows
<1>3. Skips(g, s) = [pass[g] EXCEPT !.left = left, !.merged = n]
    BY DEF Skips
<1> HIDE DEF left, n
<1> DEFINE q == [pass[g] EXCEPT !.left = left, !.merged = n]
<1>4. q \in QueueRows /\ q.pc = pass[g].pc /\ q.story = 0
    BY <1>1, <1>2, LeavesTyped
<1> HIDE DEF q
<1> QED
    BY <1>3, <1>4 DEF At, q

\* A story without an exact source is the only kind the older merge takes up.
LEMMA PickSound ==
    ASSUME MergeInv, NEW g \in Passes, PickStory(g)
    PROVE  StepSound(g)
<1>1. MergeTypeOK /\ QuietStep
    BY DEF MergeInv, PickStory, QuietStep, gitVars, dbVars, inputs
<1>2. QuietTypes
    BY <1>1 DEF QuietTypes, MergeTypeOK, PickStory, dbVars
<1>3. pass[g].pc \in Queueing /\ Alive(g) /\ At(g, "queue")
    BY DEF PickStory, At, Queueing, Alive
<1>4. PICK s \in Stories :
          Becomes(g, IF pass[g].seen[s] = "ready"
                     THEN TakesUp(g, s, IF s \in exact THEN "fetch" ELSE "sync")
                     ELSE Skips(g, s))
    BY DEF PickStory
<1>5. CASE pass[g].seen[s] = "ready" /\ s \in exact
    <2>1. Becomes(g, TakesUp(g, s, "fetch"))
        BY <1>4, <1>5
    <2>2. Moves(g, "fetch", s)
        BY <1>1, <1>3, <2>1, TakesUpTyped, OnePass, RowsTogether DEF Moves, Merging
    <2> QED
        BY <1>1, <1>2, <1>3, <2>2, QuietSound DEF OnBranch
<1>6. CASE pass[g].seen[s] = "ready" /\ s \notin exact
    <2>1. Becomes(g, TakesUp(g, s, "sync"))
        BY <1>4, <1>6
    <2>2. Moves(g, "sync", s)
        BY <1>1, <1>3, <2>1, TakesUpTyped, OnePass, RowsTogether DEF Moves, Merging
    <2>3. MergeTypeOK'
        BY <1>1, <1>2, <2>2 DEF MergeTypeOK, QuietStep, QuietTypes, Moves, inputs
    <2>4. PassKnows(g)'
        BY <1>1, <1>6, <2>2 DEF PassKnows, Moves, OnBranch, At, QuietStep, inputs
    <2>5. Precedes(origin, origin')
        BY <1>1, PrecedesItself DEF MergeTypeOK, QuietStep
    <2> QED
        BY <1>1, <1>3, <2>2, <2>3, <2>4, <2>5 DEF StepSound, Moves, QuietStep, inputs
<1>7. CASE pass[g].seen[s] # "ready"
    <2>1. Becomes(g, Skips(g, s))
        BY <1>4, <1>7
    <2>2. Moves(g, "queue", 0)
        BY <1>1, <1>3, <2>1, SkipsTyped, OnePass, RowsTogether DEF Moves
    <2> QED
        BY <1>1, <1>2, <1>3, <2>2, QuietSound DEF OnBranch
<1> QED
    BY <1>5, <1>6, <1>7

\* A row becomes merged only for a story the pass knows to be published.
LEMMA RecordSound ==
    ASSUME MergeInv, NEW g \in Passes, Record(g)
    PROVE  StepSound(g)
<1> DEFINE ok == At(g, "published")
           n == IF ok THEN pass[g].merged + 1 ELSE pass[g].merged
           m == IF ok THEN pass[g].conflicted ELSE pass[g].conflicted + 1
           p == [pass[g] EXCEPT !.pc = "queue", !.story = 0, !.merged = n,
                     !.conflicted = m]
<1>1. MergeTypeOK /\ pass[g].pc \in Merging /\ Alive(g)
    BY DEF MergeInv, Record, Merging, Alive
<1>2. pass[g].story \in Stories /\ pass[g] \in MergeRows
    BY <1>1, StoryTyped, RowsApart DEF MergeTypeOK
<1>3. p \in QueueRows /\ p.pc = "queue" /\ p.story = 0
    <2>1. n \in Nat /\ m \in Nat
        BY <1>2 DEF MergeRows
    <2> HIDE DEF n, m
    <2> QED
        BY <1>2, <2>1, RecordedTyped
<1>4. Becomes(g, p)
    BY DEF Record
<1> HIDE DEF p, n, m
<1>5. Moves(g, "queue", 0)
    BY <1>1, <1>3, <1>4, OnePass, RowsTogether DEF Moves
<1>6. row' = [row EXCEPT ![pass[g].story] = IF ok THEN "merged" ELSE "failed"]
    BY DEF Record
<1>7. row' \in [Stories -> RowStates]
    BY <1>1, <1>6 DEF MergeTypeOK, RowStates
<1>8. MergeTypeOK'
    BY <1>1, <1>5, <1>7 DEF MergeTypeOK, Record, Moves, inputs, gitVars
<1>9. PassKnows(g)'
    BY <1>5 DEF PassKnows, Moves, OnBranch, At
<1>10. ok => Holds(origin, pass[g].story)
    BY DEF MergeInv, PassKnows
<1>11. \A s \in Stories : row'[s] = "merged" => row[s] = "merged" \/ Holds(origin, s)
    BY <1>1, <1>2, <1>6, <1>10 DEF MergeTypeOK
<1>12. Precedes(origin, origin')
    BY <1>1, PrecedesItself DEF MergeTypeOK, Record, gitVars
<1> QED
    BY <1>1, <1>5, <1>8, <1>9, <1>11, <1>12 DEF StepSound, Moves, Record, inputs

-----------------------------------------------------------------------------
(* Merges *)

MergeStep == UNCHANGED <<inputs, dbVars, settled, pullRequest, overlapped>>

BranchTypes ==
    /\ {origin', local', tracking'} \subseteq Seq(Commits)
    /\ made' \in Nat
    /\ faults' \in 0..MaxFaults

\* A git step is sound if origin only grows and the pass may rely on what it
\* has seen or done.
LEMMA GitSound ==
    ASSUME MergeInv, NEW g \in Passes, Alive(g), MergeStep, BranchTypes,
           NEW pc, NEW story, Moves(g, pc, story),
           Precedes(origin, origin'), PassKnows(g)'
    PROVE  StepSound(g)
<1>1. MergeTypeOK
    BY DEF MergeInv
<1>2. MergeTypeOK'
    BY <1>1 DEF MergeTypeOK, MergeStep, BranchTypes, Moves, inputs, dbVars
<1> QED
    BY <1>2 DEF StepSound, Moves, MergeStep, inputs, dbVars

\* The look at origin, before and after the push.
LEMMA LookSound ==
    ASSUME MergeInv, NEW g \in Passes, Fetch(g) \/ Confirm(g)
    PROVE  StepSound(g)
<1> DEFINE s == pass[g].story
<1>1. MergeTypeOK /\ MergeStep /\ Alive(g) /\ pass[g].pc \in Merging
    BY DEF MergeInv, Fetch, Confirm, MergeStep, At, Merging, Alive, inputs, dbVars
<1>2. PICK pc \in {"published", "pull", "refused"} :
          /\ Goes(g, pc) \/ Fault(g, pc)
          /\ pc = "published" => Holds(origin, s)
    BY DEF Fetch, Confirm
<1>3. Moves(g, pc, s)
    BY <1>1, <1>2, MergeMoves DEF Merging
<1>4. BranchTypes
    <2>1. faults' \in 0..MaxFaults
        BY <1>1, FaultsTyped DEF Fetch, Confirm
    <2> QED
        BY <1>1, <2>1 DEF BranchTypes, MergeTypeOK, Fetch, Confirm
<1>5. origin' = origin /\ Precedes(origin, origin')
    BY <1>1, PrecedesItself DEF MergeTypeOK, Fetch, Confirm
<1>6. PassKnows(g)'
    BY <1>2, <1>3, <1>5 DEF PassKnows, Moves, OnBranch, At, Holds
<1> QED
    BY <1>1, <1>3, <1>4, <1>5, <1>6, GitSound

\* The pull and the merge of an exact source: origin stays, and nothing is
\* claimed of it yet.
LEMMA PullSound ==
    ASSUME MergeInv, NEW g \in Passes, Pull(g)
    PROVE  StepSound(g)
<1>1. MergeTypeOK /\ MergeStep /\ Alive(g) /\ pass[g].pc \in Merging
    BY DEF MergeInv, Pull, MergeStep, At, Merging, Alive, inputs, dbVars
<1>2. PICK pc \in {"push", "merge", "refused"} : Goes(g, pc) \/ Fault(g, pc)
    BY DEF Pull
<1>3. Moves(g, pc, pass[g].story)
    BY <1>1, <1>2, MergeMoves DEF Merging
<1>4. BranchTypes
    <2>1. faults' \in 0..MaxFaults
        BY <1>1, FaultsTyped DEF Pull
    <2> QED
        BY <1>1, <2>1, ForwardedType DEF BranchTypes, MergeTypeOK, Pull
<1>5. Precedes(origin, origin')
    BY <1>1, PrecedesItself DEF MergeTypeOK, Pull
<1>6. PassKnows(g)'
    BY <1>3 DEF PassKnows, Moves, OnBranch, At
<1> QED
    BY <1>1, <1>3, <1>4, <1>5, <1>6, GitSound

LEMMA MergeSound ==
    ASSUME MergeInv, NEW g \in Passes, Merge(g)
    PROVE  StepSound(g)
<1>1. MergeTypeOK /\ MergeStep /\ Alive(g) /\ pass[g].pc \in Merging
    BY DEF MergeInv, Merge, MergeStep, At, Merging, Alive, inputs, dbVars
<1>2. PICK pc \in {"push", "refused"} : Goes(g, pc)
    BY DEF Merge
<1>3. Moves(g, pc, pass[g].story)
    BY <1>1, <1>2, MergeMoves DEF Merging
<1>4. BranchTypes
    <2>1. MergeCommit(pass[g].story) \/ UNCHANGED <<local, made>>
        BY DEF Merge
    <2>2. local' \in Seq(Commits) /\ made' \in Nat
        BY <1>1, <2>1, MergeHolds, StoryTyped DEF MergeTypeOK
    <2> QED
        BY <1>1, <2>2 DEF BranchTypes, MergeTypeOK, Merge
<1>5. Precedes(origin, origin')
    BY <1>1, PrecedesItself DEF MergeTypeOK, Merge
<1>6. PassKnows(g)'
    BY <1>3 DEF PassKnows, Moves, OnBranch, At
<1> QED
    BY <1>1, <1>3, <1>4, <1>5, <1>6, GitSound

\* A push moves origin along the local branch or not at all.
LEMMA PushSound ==
    ASSUME MergeInv, NEW g \in Passes, Push(g)
    PROVE  StepSound(g)
<1>1. MergeTypeOK /\ MergeStep /\ Alive(g) /\ pass[g].pc \in Merging
    BY DEF MergeInv, Push, MergeStep, At, Merging, Alive, inputs, dbVars
<1>2. Goes(g, "confirm") \/ Fault(g, "confirm")
    BY DEF Push
<1>3. Moves(g, "confirm", pass[g].story)
    BY <1>1, <1>2, MergeMoves DEF Merging
<1>4. BranchTypes
    <2>1. faults' \in 0..MaxFaults
        BY <1>1, FaultsTyped DEF Push
    <2> QED
        BY <1>1, <2>1 DEF BranchTypes, MergeTypeOK, Push
<1>5. Precedes(origin, origin')
    BY <1>1, PrecedesItself DEF MergeTypeOK, Push
<1>6. PassKnows(g)'
    BY <1>3 DEF PassKnows, Moves, OnBranch, At
<1> QED
    BY <1>1, <1>3, <1>4, <1>5, <1>6, GitSound

LEMMA SyncSound ==
    ASSUME MergeInv, NEW g \in Passes, Sync(g)
    PROVE  StepSound(g)
<1>1. MergeTypeOK /\ MergeStep /\ Alive(g) /\ pass[g].pc \in Merging
    BY DEF MergeInv, Sync, MergeStep, At, Merging, Alive, inputs, dbVars
<1>2. Goes(g, "rebase") \/ Fault(g, "rebase")
    BY DEF Sync
<1>3. Moves(g, "rebase", pass[g].story)
    BY <1>1, <1>2, MergeMoves DEF Merging
<1>4. BranchTypes
    <2>1. faults' \in 0..MaxFaults
        BY <1>1, FaultsTyped DEF Sync
    <2> QED
        BY <1>1, <2>1, ForwardedType DEF BranchTypes, MergeTypeOK, Sync
<1>5. Precedes(origin, origin')
    BY <1>1, PrecedesItself DEF MergeTypeOK, Sync
<1>6. pass[g].story \notin exact
    BY DEF MergeInv, PassKnows, Sync, OnBranch, At
<1>7. PassKnows(g)'
    BY <1>1, <1>3, <1>6 DEF PassKnows, Moves, OnBranch, At, MergeStep, inputs
<1> QED
    BY <1>1, <1>3, <1>4, <1>5, <1>7, GitSound

\* After the merge of a story branch the local branch holds the story.
LEMMA RebaseSound ==
    ASSUME MergeInv, NEW g \in Passes, RebaseAndMerge(g)
    PROVE  StepSound(g)
<1> DEFINE s == pass[g].story
<1>1. MergeTypeOK /\ MergeStep /\ Alive(g) /\ pass[g].pc \in Merging
    BY DEF MergeInv, RebaseAndMerge, MergeStep, At, Merging, Alive, inputs, dbVars
<1>2. s \in Stories
    BY <1>1, StoryTyped
<1>3. s \notin exact
    BY DEF MergeInv, PassKnows, RebaseAndMerge, OnBranch, At
<1>4. Precedes(origin, origin')
    BY <1>1, PrecedesItself DEF MergeTypeOK, RebaseAndMerge
<1>5. CASE Goes(g, "refused") /\ UNCHANGED <<local, made>>
    <2>1. Moves(g, "refused", s)
        BY <1>1, <1>5, MergeMoves DEF Merging
    <2>2. PassKnows(g)'
        BY <2>1 DEF PassKnows, Moves, OnBranch, At
    <2>3. BranchTypes
        BY <1>1, <1>5 DEF BranchTypes, MergeTypeOK, RebaseAndMerge
    <2> QED
        BY <1>1, <1>4, <2>1, <2>2, <2>3, GitSound
<1>6. CASE MergeCommit(s) /\ Goes(g, "publish")
    <2>1. Moves(g, "publish", s)
        BY <1>1, <1>6, MergeMoves DEF Merging
    <2>2. local' \in Seq(Commits) /\ made' \in Nat /\ Holds(local', s)
        BY <1>1, <1>2, <1>6, MergeHolds
    <2>3. Holds(local', pass'[g].story)
        BY <2>1, <2>2 DEF Moves, Holds
    <2>4. PassKnows(g)'
        <3>1. exact' = exact
            BY <1>1 DEF MergeStep, inputs
        <3>2. pass'[g].pc = "publish" /\ pass'[g].story = s
            BY <2>1 DEF Moves
        <3> QED
            BY <1>3, <2>3, <3>1, <3>2 DEF PassKnows, OnBranch, At
    <2>5. BranchTypes
        BY <1>1, <2>2 DEF BranchTypes, MergeTypeOK, RebaseAndMerge
    <2> QED
        BY <1>1, <1>4, <2>1, <2>4, <2>5, GitSound
<1> QED
    BY <1>5, <1>6 DEF RebaseAndMerge

\* A story is published with the local branch it is on.
LEMMA PublishSound ==
    ASSUME MergeInv, NEW g \in Passes, PublishMerge(g)
    PROVE  StepSound(g)
<1> DEFINE s == pass[g].story
<1>1. MergeTypeOK /\ MergeStep /\ Alive(g) /\ pass[g].pc \in Merging
    BY DEF MergeInv, PublishMerge, MergeStep, At, Merging, Alive, inputs, dbVars
<1>2. s \notin exact /\ Holds(local, s)
    BY DEF MergeInv, PassKnows, PublishMerge, OnBranch, At
<1>3. Precedes(origin, origin')
    BY <1>1, PrecedesItself DEF MergeTypeOK, PublishMerge
<1>4. BranchTypes
    <2>1. faults' \in 0..MaxFaults
        BY <1>1, FaultsTyped DEF PublishMerge
    <2> QED
        BY <1>1, <2>1 DEF BranchTypes, MergeTypeOK, PublishMerge
<1>5. PICK pc \in {"published", "retry", "refused"} :
          /\ Goes(g, pc) \/ Fault(g, pc)
          /\ pc = "published" => origin' = local
    BY DEF PublishMerge
<1>6. Moves(g, pc, s)
    BY <1>1, <1>5, MergeMoves DEF Merging
<1>7. PassKnows(g)'
    <2>1. exact' = exact /\ local' = local
        BY <1>1 DEF MergeStep, inputs, PublishMerge
    <2>2. pass'[g].pc = pc /\ pass'[g].story = s
        BY <1>6 DEF Moves
    <2>3. Holds(local', pass'[g].story)
        BY <1>2, <2>1, <2>2 DEF Holds
    <2>4. pc = "published" => Holds(origin', pass'[g].story)
        BY <1>5, <2>1, <2>3
    <2> QED
        BY <1>2, <2>1, <2>2, <2>3, <2>4 DEF PassKnows, OnBranch, At
<1> QED
    BY <1>1, <1>3, <1>4, <1>6, <1>7, GitSound

-----------------------------------------------------------------------------
(* The invariant *)

LEMMA EveryStepSound ==
    ASSUME MergeInv, NEW g \in Passes, PassAction(g)
    PROVE  StepSound(g)
BY TakeUpSound, QueueSound, EndSound, PickSound, RecordSound, LookSound, PullSound,
   MergeSound, PushSound, SyncSound, RebaseSound, PublishSound
   DEF PassAction, PassStep, ExactStep, BranchStep, QueueStep

\* A sound step keeps the invariant: what the other passes know stays true,
\* for origin only grows and a pass that resets the checkout is alone.
LEMMA SoundStepKeeps ==
    ASSUME MergeInv, NEW g \in Passes, StepSound(g)
    PROVE  MergeInv'
<1>1. MergeTypeOK'
    BY DEF StepSound
<1>2. AloneUnlessExact'
    <2> SUFFICES ASSUME exact # Stories, NEW h \in Passes, NEW k \in Passes,
                        Alive(h)', Alive(k)', h # k
                 PROVE  FALSE
        BY DEF AloneUnlessExact, StepSound
    <2>1. \A i \in Passes : i # g => (Alive(i)' <=> Alive(i))
        BY DEF StepSound, Alive
    <2>2. Alive(g)' => \A i \in Passes : Alive(i) => i = g
        <3>1. CASE Alive(g)
            BY <3>1 DEF MergeInv, AloneUnlessExact
        <3>2. CASE ~Alive(g)
            BY <3>2 DEF StepSound
        <3> QED
            BY <3>1, <3>2
    <2>3. Alive(h) /\ Alive(k) => h = k
        BY DEF MergeInv, AloneUnlessExact
    <2> QED
        BY <2>1, <2>2, <2>3
<1>3. \A s : Holds(origin, s) => Holds(origin', s)
    BY HoldsForward DEF MergeInv, MergeTypeOK, StepSound
<1>4. ASSUME NEW h \in Passes PROVE PassKnows(h)'
    <2>1. CASE h = g
        BY <2>1 DEF StepSound
    <2>2. CASE h # g
        <3>1. pass'[h] = pass[h] /\ exact' = exact
            BY <2>2 DEF StepSound
        <3>2. PassKnows(h)
            BY DEF MergeInv
        <3>3. pass[h].pc \in {"publish", "retry"} => local' = local
            <4> SUFFICES ASSUME pass[h].pc \in {"publish", "retry"}
                         PROVE  local' = local
                OBVIOUS
            <4>1. pass[h].story \in Stories /\ pass[h].story \notin exact
                BY <3>2, StoryTyped DEF MergeInv, PassKnows, OnBranch, Merging
            <4>2. Alive(h) /\ exact # Stories
                BY <4>1 DEF Alive
            <4>3. ~Alive(g)
                BY <2>2, <4>2 DEF MergeInv, AloneUnlessExact
            <4> QED
                BY <4>3 DEF StepSound
        <3>4. pass[h].pc \in {"publish", "retry"} => Holds(local', pass'[h].story)
            BY <3>1, <3>2, <3>3 DEF PassKnows
        <3>5. At(h, "published") => Holds(origin', pass'[h].story)
            BY <1>3, <3>1, <3>2 DEF PassKnows
        <3> QED
            BY <3>1, <3>2, <3>4, <3>5 DEF PassKnows, At
    <2> QED
        BY <2>1, <2>2
<1>5. MergedIsPublished'
    <2> SUFFICES ASSUME NEW s \in Stories, row'[s] = "merged"
                 PROVE  Holds(origin', s)
        BY DEF MergedIsPublished, Holds
    <2> QED
        BY <1>3 DEF StepSound, MergeInv, MergedIsPublished
<1> QED
    BY <1>1, <1>2, <1>4, <1>5 DEF MergeInv

LEMMA MergeInitially == MergeInit => MergeInv
<1> SUFFICES ASSUME MergeInit PROVE MergeInv
    OBVIOUS
<1>1. NewPass \in PassRows
    BY RowsTogether DEF QueueRows, NewPass, Queueing, RowStates
<1>2. MergeTypeOK
    <2>1. pass \in [Passes -> PassRows]
        BY <1>1 DEF MergeInit
    <2>2. <<>> \in Seq(Commits)
        OBVIOUS
    <2>3. 0 \in 0..MaxFaults
        BY MergeAssumption
    <2>4. row \in [Stories -> RowStates]
        BY DEF MergeInit
    <2>5. exact \subseteq Stories
        BY DEF MergeInit, SourcesOf
    <2> QED
        BY <2>1, <2>2, <2>3, <2>4, <2>5 DEF MergeInit, MergeTypeOK
<1>3. \A g \in Passes : pass[g].pc = "none"
    BY DEF MergeInit, NewPass
<1>4. AloneUnlessExact /\ \A g \in Passes : PassKnows(g)
    BY <1>3 DEF AloneUnlessExact, Alive, PassKnows, OnBranch, At
<1>5. MergedIsPublished
    BY DEF MergeInit, MergedIsPublished
<1> QED
    BY <1>2, <1>4, <1>5 DEF MergeInv

LEMMA MergeStepKeeps == MergeInv /\ [MergeNext]_mergeVars => MergeInv'
<1> SUFFICES ASSUME MergeInv, [MergeNext]_mergeVars PROVE MergeInv'
    OBVIOUS
<1>1. CASE \E g \in Passes : PassAction(g)
    BY <1>1, EveryStepSound, SoundStepKeeps
<1>2. CASE MedicAdvance
    <2>1. run' = "advanced" /\ UNCHANGED <<exact, clashing, last, protocol, row, step,
              settled, origin, local, tracking, made, pullRequest, pass, faults, overlapped>>
        BY <1>2 DEF MedicAdvance, inputs, gitVars
    <2> QED
        BY <2>1 DEF MergeInv, MergeTypeOK, AloneUnlessExact, PassKnows,
           MergedIsPublished, Alive, At, Holds
<1>3. CASE UNCHANGED mergeVars
    <2>1. UNCHANGED <<exact, clashing, last, protocol, settled, row, step, run, origin, local, tracking,
                      pullRequest, pass, made, faults, overlapped>>
        BY <1>3 DEF mergeVars, inputs, dbVars, gitVars
    <2> QED
        BY <2>1 DEF MergeInv, MergeTypeOK, AloneUnlessExact, PassKnows,
           MergedIsPublished, Alive, At, Holds
<1> QED
    BY <1>1, <1>2, <1>3 DEF MergeNext, PassAction

\* The inductive invariant of the continuation.
THEOREM MergeInvariant == MergeSpec => []MergeInv
BY MergeInitially, MergeStepKeeps, PTL DEF MergeSpec

\* Every field keeps its type: no pass between two stories keeps one, and the
\* branches are sequences of merges of stories.
THEOREM MergeTypesHold == MergeSpec => []MergeTypeOK
<1>1. MergeInv => MergeTypeOK
    BY DEF MergeInv
<1> QED
    BY <1>1, MergeInvariant, PTL

\* A story whose row says merged is on the feature branch at origin, for any
\* number of stories, passes, faults and crashes (Record after Confirm,
\* PublishMerge or Fetch).
THEOREM MergedPublished == MergeSpec => []MergedIsPublished
<1>1. MergeInv => MergedIsPublished
    BY DEF MergeInv
<1> QED
    BY <1>1, MergeInvariant, PTL

\* The branch at origin never loses a story it has held: nothing is pushed by
\* force, in any pass.
THEOREM OriginOnlyGrows == MergeSpec => [][Precedes(origin, origin')]_mergeVars
<1>1. ASSUME MergeInv, MergeNext
      PROVE  Precedes(origin, origin')
    <2>1. CASE \E g \in Passes : PassAction(g)
        BY <1>1, <2>1, EveryStepSound DEF StepSound
    <2>2. CASE MedicAdvance
        BY <1>1, <2>2, PrecedesItself DEF MedicAdvance, gitVars, MergeInv, MergeTypeOK
    <2> QED
        BY <1>1, <2>1, <2>2 DEF MergeNext, PassAction
<1>2. MergeInv /\ [MergeNext]_mergeVars => [Precedes(origin, origin')]_mergeVars
    BY <1>1
<1> QED
    BY <1>2, MergeInvariant, PTL DEF MergeSpec


-----------------------------------------------------------------------------
(* Why a published story fails *)

\* No branch has a story whose merge meets a conflict.
ClashingStaysOut ==
    \A s \in clashing : ~Holds(origin, s) /\ ~Holds(local, s) /\ ~Holds(tracking, s)

\* With exact sources only, nobody resets the checkout.
OriginBehind == exact = Stories => Precedes(origin, local)

\* What a pass knows of its exact source on the way: that origin did not have
\* it, that its merge is ahead of origin, that the push went through or a call
\* failed; so one that is refused had a call fail, clashes, or is not published.
KnowsWhy(g) ==
    LET s == pass[g].story IN
    /\ pass[g].pc \in {"fetch", "pull", "merge", "push", "confirm"} => s \in exact
    /\ At(g, "pull") => exact = Stories \/ ~Holds(origin, s)
    /\ pass[g].pc \in {"merge", "push"} => Precedes(origin, local)
    /\ At(g, "push") => Holds(local, s)
    /\ At(g, "confirm") => pass[g].hit \/ Holds(origin, s)
    /\ At(g, "refused") /\ s \in exact =>
          \/ pass[g].hit
          \/ s \in clashing
          \/ exact # Stories /\ ~Holds(origin, s)

WhyInv ==
    /\ ClashingStaysOut
    /\ OriginBehind
    /\ \A g \in Passes : KnowsWhy(g)

\* A branch precedes what a branch after it precedes.
LEMMA PrecedesOn ==
    ASSUME NEW a \in Seq(Commits), NEW b \in Seq(Commits), NEW c \in Seq(Commits),
           Precedes(a, b), Precedes(b, c)
    PROVE  Precedes(a, c)
<1>1. Len(a) <= Len(c)
    BY DEF Precedes
<1>2. ASSUME NEW i \in DOMAIN a PROVE a[i] = c[i]
    <2>1. i \in DOMAIN b /\ a[i] = b[i]
        BY DEF Precedes
    <2> QED
        BY <2>1 DEF Precedes
<1> QED
    BY <1>1, <1>2 DEF Precedes

\* A merge commit goes on from its branch and adds its own story only.
LEMMA MergeGoesOn ==
    ASSUME MergeTypeOK, NEW s \in Stories, MergeCommit(s)
    PROVE  /\ Precedes(local, local')
           /\ \A t : Holds(local', t) => Holds(local, t) \/ t = s
<1> DEFINE c == [story |-> s, nr |-> made + 1]
<1>1. local \in Seq(Commits) /\ made \in Nat /\ c.story = s
    BY DEF MergeTypeOK
<1>2. c \in Commits
    BY <1>1 DEF Commits
<1>3. local' = Append(local, c)
    BY DEF MergeCommit
<1> HIDE DEF c
<1>4. /\ Len(local') = Len(local) + 1
      /\ \A i \in DOMAIN local : local'[i] = local[i]
      /\ local'[Len(local) + 1] = c
      /\ DOMAIN local' = DOMAIN local \cup {Len(local) + 1}
    BY <1>1, <1>2, <1>3
<1>5. Precedes(local, local')
    BY <1>1, <1>4 DEF Precedes
<1>6. ASSUME NEW t, Holds(local', t) PROVE Holds(local, t) \/ t = s
    <2>1. PICK i \in DOMAIN local' : local'[i].story = t
        BY <1>6 DEF Holds
    <2>2. CASE i \in DOMAIN local
        BY <1>4, <2>1, <2>2 DEF Holds
    <2>3. CASE i = Len(local) + 1
        BY <1>1, <1>4, <2>1, <2>3
    <2> QED
        BY <1>4, <2>1, <2>2, <2>3
<1> QED
    BY <1>5, <1>6

\* A pull goes on from the local branch, and is up to origin if it succeeds.
LEMMA PullGoesOn ==
    ASSUME MergeTypeOK
    PROVE  /\ Forwarded \in {local, origin}
           /\ Precedes(local, Forwarded)
           /\ Pullable => Precedes(origin, Forwarded)
BY PrecedesItself DEF MergeTypeOK, Forwarded, Pullable

\* A call that fails is remembered, and nothing else is.
LEMMA FaultHits ==
    ASSUME MergeTypeOK, NEW g \in Passes, NEW pc
    PROVE  /\ Fault(g, pc) => pass'[g].hit = TRUE
           /\ Goes(g, pc) => pass'[g].hit = pass[g].hit
<1>1. pass[g] \in QueueRows \/ pass[g] \in MergeRows
    BY RowsApart DEF MergeTypeOK
<1>2. [pass[g] EXCEPT !.pc = pc, !.hit = TRUE].hit = TRUE
    BY <1>1 DEF QueueRows, MergeRows
<1>3. [pass[g] EXCEPT !.pc = pc].hit = pass[g].hit
    BY <1>1 DEF QueueRows, MergeRows
<1> QED
    BY <1>2, <1>3 DEF MergeTypeOK, Fault, Goes, Becomes

\* A pass has company only where every story has an exact source.
LEMMA CompanyIsExact ==
    ASSUME MergeInv, NEW g \in Passes, PassAction(g), NEW h \in Passes \ {g}, Alive(h)
    PROVE  exact = Stories
<1>1. CASE Alive(g)
    BY <1>1 DEF MergeInv, AloneUnlessExact
<1>2. CASE ~Alive(g)
    <2>1. TakeUp(g)
        BY <1>2 DEF PassAction, PassStep, ExactStep, BranchStep, QueueStep, Throw, Crash, Alive, At,
           PickStory, Record, EndOfQueue, LookUpPullRequest, CreatePullRequest, Judge, FailStep,
           FailRun, Advance, Fetch, Pull, Merge, Push, Confirm, Sync, RebaseAndMerge, PublishMerge
    <2> QED
        BY <2>1 DEF TakeUp, Reconcile, Reject, Resume, NextPass
<1> QED
    BY <1>1, <1>2

\* What a step of a pass does to the branches and to its own knowledge.
WhySound(g) ==
    /\ UNCHANGED inputs
    /\ ClashingStaysOut'
    /\ exact = Stories => Precedes(local, local') /\ Precedes(origin', local')
    /\ KnowsWhy(g)'

\* Such a step keeps what all the others know.
LEMMA WhySoundKeeps ==
    ASSUME MergeInv, WhyInv, NEW g \in Passes, PassAction(g), StepSound(g), WhySound(g)
    PROVE  WhyInv'
<1>1. exact' = exact /\ clashing' = clashing
    BY DEF WhySound, inputs
<1>2. ASSUME NEW h \in Passes \ {g} PROVE KnowsWhy(h)'
    <2>1. pass'[h] = pass[h] /\ KnowsWhy(h)
        BY DEF StepSound, WhyInv
    <2>2. CASE ~Alive(h)
        BY <2>1, <2>2 DEF KnowsWhy, Alive, At
    <2>3. CASE Alive(h)
        <3>1. exact = Stories
            BY <2>3, CompanyIsExact
        <3>2. Precedes(local, local') /\ Precedes(origin', local') /\ Precedes(origin, origin')
            BY <3>1 DEF WhySound, StepSound
        <3>3. \A s : (Holds(local, s) => Holds(local', s)) /\ (Holds(origin, s) => Holds(origin', s))
            BY <3>2, HoldsForward DEF MergeInv, MergeTypeOK, StepSound
        <3> QED
            BY <1>1, <2>1, <3>1, <3>2, <3>3 DEF KnowsWhy, At
    <2> QED
        BY <2>2, <2>3
<1> QED
    BY <1>1, <1>2 DEF WhyInv, WhySound, OriginBehind

\* A step that leaves the branches of the checkout and of origin alone, and
\* takes the pass nowhere it would have to know anything.
LEMMA QuietWhy ==
    ASSUME MergeInv, WhyInv, NEW g \in Passes, UNCHANGED <<inputs, origin, local>>,
           tracking' \in {tracking, origin},
           NEW pc, NEW story, Moves(g, pc, story),
           \/ pc \in Queueing \cup OnBranch \cup {"published"}
           \/ pc = "fetch" /\ story \in exact
    PROVE  WhySound(g)
<1>1. KnowsWhy(g)'
    BY DEF KnowsWhy, Moves, At, inputs, Queueing, OnBranch
<1>2. ClashingStaysOut'
    <2> SUFFICES ASSUME NEW s \in clashing
                 PROVE  ~Holds(origin, s) /\ ~Holds(local, s) /\ ~Holds(tracking', s)
        BY DEF ClashingStaysOut, inputs, Holds
    <2>1. ~Holds(origin, s) /\ ~Holds(local, s) /\ ~Holds(tracking, s)
        BY DEF WhyInv, ClashingStaysOut
    <2> QED
        BY <2>1
<1>3. exact = Stories => Precedes(local, local') /\ Precedes(origin', local')
    BY PrecedesItself DEF WhyInv, OriginBehind, MergeInv, MergeTypeOK
<1> QED
    BY <1>1, <1>2, <1>3 DEF WhySound

\* Steps between the stories, and the older merge up to its own commit.
LEMMA QueueWhy ==
    ASSUME MergeInv, WhyInv, NEW g \in Passes,
           \/ TakeUp(g) \/ EndOfQueue(g) \/ LookUpPullRequest(g) \/ CreatePullRequest(g)
           \/ Judge(g) \/ FailStep(g) \/ Throw(g) \/ FailRun(g) \/ Advance(g) \/ Crash(g)
    PROVE  WhySound(g)
<1>1. MergeTypeOK
    BY DEF MergeInv
<1>2. UNCHANGED <<inputs, origin, local>> /\ tracking' \in {tracking, origin}
    BY DEF TakeUp, Reconcile, Reject, Resume, NextPass, EndOfQueue, LookUpPullRequest,
           CreatePullRequest, Judge, FailStep, Throw, FailRun, Advance, Crash, gitVars
<1>3. \E pc \in Queueing : Moves(g, pc, 0)
    <2>1. CASE \E pc \in Queueing :
                  /\ pass[g].pc \in Queueing
                  /\ Goes(g, pc) \/ Fault(g, pc)
        BY <1>1, <2>1, QueueMoves
    <2>2. CASE \E pc \in {"caught", "gone"} : Becomes(g, [pass[g] EXCEPT !.pc = pc, !.story = 0])
        BY <1>1, <2>2, StoryLeft DEF Queueing
    <2>3. CASE Becomes(g, TakenUp)
        <3>1. TakenUp \in QueueRows /\ TakenUp.pc = "queue" /\ TakenUp.story = 0
            BY <1>1 DEF MergeTypeOK, TakenUp, QueueRows, Queueing
        <3>2. Moves(g, "queue", 0)
            BY <1>1, <2>3, <3>1, OnePass, RowsTogether DEF Moves
        <3> QED
            BY <3>2 DEF Queueing
    <2>4. CASE TakeUp(g)
        BY <2>1, <2>3, <2>4 DEF TakeUp, Reconcile, Reject, Resume, NextPass, At, Queueing
    <2>5. CASE EndOfQueue(g) \/ LookUpPullRequest(g) \/ CreatePullRequest(g) \/ Judge(g) \/ FailStep(g)
        <3>1. \E pc \in {"lookup", "judge", "create", "failing", "record"} :
                  Goes(g, pc) \/ Fault(g, pc)
            BY <2>5 DEF EndOfQueue, LookUpPullRequest, CreatePullRequest, Judge, FailStep
        <3>2. pass[g].pc \in Queueing
            BY <2>5 DEF EndOfQueue, LookUpPullRequest, CreatePullRequest, Judge, FailStep, At, Queueing
        <3>3. {"lookup", "judge", "create", "failing", "record"} \subseteq Queueing
            BY DEF Queueing
        <3> QED
            BY <2>1, <3>1, <3>2, <3>3
    <2> QED
        BY <2>2, <2>4, <2>5 DEF Throw, FailRun, Advance, Crash, Ends
<1> QED
    BY <1>2, <1>3, QuietWhy

\* A story is taken up by its source.
LEMMA PickWhy ==
    ASSUME MergeInv, WhyInv, NEW g \in Passes, PickStory(g)
    PROVE  WhySound(g)
<1>1. MergeTypeOK /\ UNCHANGED <<inputs, origin, local, tracking>>
    BY DEF MergeInv, PickStory, gitVars
<1>2. pass[g].pc \in Queueing /\ At(g, "queue")
    BY DEF PickStory, At, Queueing
<1>3. PICK s \in Stories :
          Becomes(g, IF pass[g].seen[s] = "ready"
                     THEN TakesUp(g, s, IF s \in exact THEN "fetch" ELSE "sync")
                     ELSE Skips(g, s))
    BY DEF PickStory
<1>4. CASE pass[g].seen[s] = "ready" /\ s \in exact
    <2>1. Moves(g, "fetch", s)
        BY <1>1, <1>2, <1>3, <1>4, TakesUpTyped, OnePass, RowsTogether DEF Moves, Merging
    <2> QED
        BY <1>1, <1>4, <2>1, QuietWhy
<1>5. CASE pass[g].seen[s] = "ready" /\ s \notin exact
    <2>1. Moves(g, "sync", s)
        BY <1>1, <1>2, <1>3, <1>5, TakesUpTyped, OnePass, RowsTogether DEF Moves, Merging
    <2> QED
        BY <1>1, <2>1, QuietWhy DEF OnBranch
<1>6. CASE pass[g].seen[s] # "ready"
    <2>1. Moves(g, "queue", 0)
        BY <1>1, <1>2, <1>3, <1>6, SkipsTyped, OnePass, RowsTogether DEF Moves
    <2> QED
        BY <1>1, <2>1, QuietWhy DEF Queueing
<1> QED
    BY <1>4, <1>5, <1>6

\* The result of a merge is recorded, and the pass goes back to the queue.
LEMMA RecordMoves ==
    ASSUME MergeTypeOK, NEW g \in Passes, Record(g)
    PROVE  Moves(g, "queue", 0)
<1> DEFINE ok == At(g, "published")
           n == IF ok THEN pass[g].merged + 1 ELSE pass[g].merged
           m == IF ok THEN pass[g].conflicted ELSE pass[g].conflicted + 1
           p == [pass[g] EXCEPT !.pc = "queue", !.story = 0, !.merged = n,
                     !.conflicted = m]
<1>1. pass[g] \in MergeRows
    BY RowsApart DEF MergeTypeOK, Record, Merging
<1>2. p \in QueueRows /\ p.pc = "queue" /\ p.story = 0
    <2>1. n \in Nat /\ m \in Nat
        BY <1>1 DEF MergeRows
    <2> HIDE DEF n, m
    <2> QED
        BY <1>1, <2>1, RecordedTyped
<1>3. Becomes(g, p)
    BY DEF Record
<1> HIDE DEF p, n, m
<1> QED
    BY <1>2, <1>3, OnePass, RowsTogether DEF Moves

\* The looks at origin.
LEMMA LookWhy ==
    ASSUME MergeInv, WhyInv, NEW g \in Passes, Fetch(g) \/ Confirm(g)
    PROVE  WhySound(g)
<1> DEFINE s == pass[g].story
<1>1. MergeTypeOK /\ pass[g].pc \in Merging /\ s \in exact
    BY DEF MergeInv, WhyInv, KnowsWhy, Fetch, Confirm, At, Merging
<1>2. UNCHANGED <<inputs, origin, local>> /\ tracking' \in {tracking, origin}
    BY DEF Fetch, Confirm
<1>3. CASE Goes(g, "published")
    BY <1>1, <1>2, <1>3, MergeMoves, QuietWhy DEF Merging
<1>4. CASE ~Goes(g, "published")
    <2>1. \/ Goes(g, "pull") /\ ~Holds(origin, s)
          \/ Goes(g, "refused") /\ pass[g].hit
          \/ Fault(g, "refused")
        BY <1>4 DEF Fetch, Confirm, WhyInv, KnowsWhy
    <2>2. PICK pc \in {"pull", "refused"} :
              /\ Moves(g, pc, s)
              /\ pc = "pull" => ~Holds(origin, s)
              /\ pc = "refused" => pass'[g].hit
        BY <1>1, <2>1, MergeMoves, FaultHits DEF Merging
    <2>3. KnowsWhy(g)'
        BY <1>1, <1>2, <2>2 DEF KnowsWhy, Moves, At, Holds, inputs
    <2>4. ClashingStaysOut'
        BY <1>2 DEF WhyInv, ClashingStaysOut, inputs, Holds
    <2>5. exact = Stories => Precedes(local, local') /\ Precedes(origin', local')
        BY <1>1, <1>2, PrecedesItself DEF WhyInv, OriginBehind, MergeTypeOK
    <2> QED
        BY <1>2, <2>3, <2>4, <2>5 DEF WhySound
<1> QED
    BY <1>3, <1>4

\* The pull: with the checkout for itself a pass may find it gone astray, with
\* exact sources only it never is.
LEMMA PullWhy ==
    ASSUME MergeInv, WhyInv, NEW g \in Passes, Pull(g)
    PROVE  WhySound(g)
<1> DEFINE s == pass[g].story
<1>1. /\ MergeTypeOK /\ pass[g].pc \in Merging /\ s \in exact
      /\ exact = Stories \/ ~Holds(origin, s)
    BY DEF MergeInv, WhyInv, KnowsWhy, Pull, At, Merging
<1>2. UNCHANGED <<inputs, origin>> /\ tracking' \in {tracking, origin}
    BY DEF Pull
<1>3. /\ local' \in {local, Forwarded}
      /\ Precedes(local, local')
    BY <1>1, PullGoesOn, PrecedesItself DEF Pull, MergeTypeOK
<1>4. exact = Stories => Precedes(origin, local) /\ Pullable
    BY DEF WhyInv, OriginBehind, Pullable
<1>5. local' \in {local, origin}
    BY <1>1, <1>3, PullGoesOn
<1>6. ClashingStaysOut'
    BY <1>2, <1>5 DEF WhyInv, ClashingStaysOut, inputs, Holds
<1>7. exact = Stories => Precedes(origin', local')
    <2>1. origin \in Seq(Commits) /\ local \in Seq(Commits) /\ local' \in Seq(Commits) /\ origin' = origin
        BY <1>1, <1>2, <1>5 DEF MergeTypeOK
    <2> QED
        BY <1>3, <1>4, <2>1, PrecedesOn
<1>8. KnowsWhy(g)'
    <2>1. CASE Pullable /\ local' = Forwarded /\ Goes(g, IF Holds(Forwarded, s) THEN "push" ELSE "merge")
        <3>1. PICK pc \in {"push", "merge"} : Moves(g, pc, s) /\ (pc = "push" => Holds(Forwarded, s))
            BY <1>1, <2>1, MergeMoves DEF Merging
        <3>2. Precedes(origin', local')
            BY <1>1, <1>2, <2>1, PullGoesOn
        <3> QED
            BY <1>1, <1>2, <2>1, <3>1, <3>2 DEF KnowsWhy, Moves, At, Holds, inputs
    <2>2. CASE ~Pullable /\ Goes(g, "refused")
        <3>1. Moves(g, "refused", s)
            BY <1>1, <2>2, MergeMoves DEF Merging
        <3>2. exact # Stories /\ ~Holds(origin, s)
            BY <1>1, <1>4, <2>2
        <3> QED
            BY <1>1, <1>2, <3>1, <3>2 DEF KnowsWhy, Moves, At, Holds, inputs
    <2>3. CASE Fault(g, "refused")
        <3>1. Moves(g, "refused", s) /\ pass'[g].hit
            BY <1>1, <2>3, MergeMoves, FaultHits DEF Merging
        <3> QED
            BY <3>1 DEF KnowsWhy, Moves, At
    <2> QED
        BY <2>1, <2>2, <2>3 DEF Pull
<1> QED
    BY <1>2, <1>3, <1>6, <1>7, <1>8 DEF WhySound

\* A merge commit keeps the clashing stories out.
LEMMA MergeCommitWhy ==
    ASSUME MergeInv, WhyInv, NEW s \in Stories, s \notin clashing, MergeCommit(s),
           UNCHANGED <<inputs, origin, tracking>>
    PROVE  /\ ClashingStaysOut'
           /\ Precedes(origin, local) => Precedes(origin', local')
           /\ Precedes(local, local')
           /\ Holds(local', s)
<1>1. /\ MergeTypeOK
      /\ local' \in Seq(Commits) /\ Holds(local', s)
      /\ Precedes(local, local')
      /\ \A t : Holds(local', t) => Holds(local, t) \/ t = s
    BY MergeHolds, MergeGoesOn DEF MergeInv
<1>2. ClashingStaysOut'
    BY <1>1 DEF WhyInv, ClashingStaysOut, inputs, Holds
<1>3. Precedes(origin, local) => Precedes(origin', local')
    BY <1>1, PrecedesOn DEF MergeTypeOK
<1> QED
    BY <1>1, <1>2, <1>3

\* The merge of an exact source is refused over a conflict only.
LEMMA MergeWhy ==
    ASSUME MergeInv, WhyInv, NEW g \in Passes, Merge(g)
    PROVE  WhySound(g)
<1> DEFINE s == pass[g].story
<1>1. /\ MergeTypeOK /\ pass[g].pc \in Merging /\ s \in exact /\ Precedes(origin, local)
      /\ s \in Stories
    BY StoryTyped DEF MergeInv, WhyInv, KnowsWhy, Merge, At, Merging
<1>2. UNCHANGED <<inputs, origin, tracking>>
    BY DEF Merge
<1>3. CASE MergeCommit(s) /\ s \notin clashing /\ Goes(g, "push")
    <2>1. Moves(g, "push", s)
        BY <1>1, <1>3, MergeMoves DEF Merging
    <2>2. ClashingStaysOut' /\ Precedes(origin', local') /\ Precedes(local, local') /\ Holds(local', s)
        BY <1>1, <1>2, <1>3, MergeCommitWhy
    <2>3. KnowsWhy(g)'
        BY <1>1, <1>2, <2>1, <2>2 DEF KnowsWhy, Moves, At, Holds, inputs
    <2> QED
        BY <1>2, <2>2, <2>3 DEF WhySound
<1>4. CASE UNCHANGED <<local, made>>
    <2>1. PICK pc \in {"push", "refused"} :
              /\ Moves(g, pc, s)
              /\ pc = "push" => Holds(local, s)
              /\ pc = "refused" => s \in clashing
        <3>1. \/ Goes(g, "push") /\ Holds(local, s)
              \/ Goes(g, "refused") /\ s \in clashing
              \/ MergeCommit(s)
            BY DEF Merge
        <3>2. ~MergeCommit(s)
            BY <1>1, <1>4 DEF MergeCommit, MergeTypeOK
        <3> QED
            BY <1>1, <3>1, <3>2, MergeMoves DEF Merging
    <2>2. KnowsWhy(g)'
        BY <1>1, <1>2, <1>4, <2>1 DEF KnowsWhy, Moves, At, Holds, inputs
    <2>3. ClashingStaysOut'
        BY <1>2, <1>4 DEF WhyInv, ClashingStaysOut, inputs, Holds
    <2> QED
        BY <1>1, <1>2, <1>4, <2>2, <2>3, PrecedesItself DEF WhySound, MergeTypeOK
<1> QED
    BY <1>3, <1>4 DEF Merge

\* A push of a merge that is ahead of origin goes through, unless a call fails.
LEMMA PushWhy ==
    ASSUME MergeInv, WhyInv, NEW g \in Passes, Push(g)
    PROVE  WhySound(g)
<1> DEFINE s == pass[g].story
<1>1. /\ MergeTypeOK /\ pass[g].pc \in Merging /\ s \in exact
      /\ Precedes(origin, local) /\ Holds(local, s)
    BY DEF MergeInv, WhyInv, KnowsWhy, Push, At, Merging
<1>2. /\ UNCHANGED <<inputs, local>> /\ origin' \in {origin, local} /\ tracking' \in {tracking, local}
      /\ Moves(g, "confirm", s)
      /\ pass'[g].hit \/ origin' = local
    <2>1. \/ Goes(g, "confirm") /\ origin' = local
          \/ Fault(g, "confirm")
        BY <1>1 DEF Push
    <2> QED
        BY <1>1, <2>1, MergeMoves, FaultHits DEF Push, Merging
<1>3. ClashingStaysOut'
    BY <1>2 DEF WhyInv, ClashingStaysOut, inputs, Holds
<1>4. Precedes(local, local') /\ Precedes(origin', local')
    BY <1>1, <1>2, PrecedesItself DEF MergeTypeOK
<1>5. KnowsWhy(g)'
    BY <1>1, <1>2 DEF KnowsWhy, Moves, At, Holds, inputs
<1> QED
    BY <1>2, <1>3, <1>4, <1>5 DEF WhySound

\* The older merge is of stories without an exact source only.
LEMMA BranchWhy ==
    ASSUME MergeInv, WhyInv, NEW g \in Passes, BranchStep(g)
    PROVE  WhySound(g)
<1> DEFINE s == pass[g].story
<1>1. /\ MergeTypeOK /\ pass[g].pc \in Merging /\ pass[g].pc \in OnBranch
    BY DEF MergeInv, BranchStep, Sync, RebaseAndMerge, PublishMerge, At, Merging, OnBranch
<1>2. s \in Stories /\ s \notin exact /\ exact # Stories
    BY <1>1, StoryTyped DEF MergeInv, PassKnows
<1>3. UNCHANGED inputs
    BY DEF BranchStep, Sync, RebaseAndMerge, PublishMerge
<1>4. PICK pc \in {"rebase", "publish", "published", "retry", "refused"} : Moves(g, pc, s)
    <2>1. \E pc \in {"rebase", "publish", "published", "retry", "refused"} : Goes(g, pc) \/ Fault(g, pc)
        BY DEF BranchStep, Sync, RebaseAndMerge, PublishMerge
    <2> QED
        BY <1>1, <2>1, MergeMoves DEF Merging
<1>5. KnowsWhy(g)'
    BY <1>2, <1>3, <1>4 DEF KnowsWhy, Moves, At, inputs
<1>6. ClashingStaysOut'
    <2>1. CASE /\ UNCHANGED <<inputs>>
               /\ {origin', local', tracking'} \subseteq {origin, local, tracking}
        BY <2>1 DEF WhyInv, ClashingStaysOut, inputs, Holds
    <2>2. CASE MergeCommit(s) /\ s \notin clashing /\ UNCHANGED <<origin, tracking>>
        BY <1>2, <1>3, <2>2, MergeCommitWhy
    <2>3. CASE Sync(g)
        BY <1>1, <1>3, <2>1, <2>3, PullGoesOn DEF Sync
    <2>4. CASE RebaseAndMerge(g)
        BY <1>3, <2>1, <2>2, <2>4 DEF RebaseAndMerge
    <2>5. CASE PublishMerge(g)
        <3>1. origin' \in {origin, local} /\ local' = local /\ tracking' \in {tracking, local}
            BY <2>5 DEF PublishMerge
        <3> QED
            BY <1>3, <2>1, <3>1
    <2> QED
        BY <2>3, <2>4, <2>5 DEF BranchStep
<1> QED
    BY <1>2, <1>3, <1>5, <1>6 DEF WhySound

\* Every step of a pass is sound for what the passes know.
LEMMA EveryStepWhy ==
    ASSUME MergeInv, WhyInv, NEW g \in Passes, PassAction(g)
    PROVE  WhySound(g)
<1>1. CASE Record(g)
    <2>1. Moves(g, "queue", 0)
        BY <1>1, RecordMoves DEF MergeInv
    <2>2. UNCHANGED <<inputs, origin, local>> /\ tracking' \in {tracking, origin}
        BY <1>1 DEF Record, gitVars
    <2> QED
        BY <2>1, <2>2, QuietWhy DEF Queueing
<1> QED
    BY <1>1, QueueWhy, PickWhy, LookWhy, PullWhy, MergeWhy, PushWhy, BranchWhy
       DEF PassAction, PassStep, ExactStep, QueueStep

LEMMA WhyInitially == MergeInit => WhyInv
<1> SUFFICES ASSUME MergeInit PROVE WhyInv
    OBVIOUS
<1>1. origin = <<>> /\ local = <<>> /\ tracking = <<>> /\ \A g \in Passes : pass[g].pc = "none"
    BY DEF MergeInit, NewPass
<1>2. ClashingStaysOut /\ OriginBehind
    BY <1>1 DEF ClashingStaysOut, OriginBehind, Holds, Precedes
<1>3. \A g \in Passes : KnowsWhy(g)
    BY <1>1 DEF KnowsWhy, At
<1> QED
    BY <1>2, <1>3 DEF WhyInv

LEMMA WhyStepKeeps == MergeInv /\ WhyInv /\ [MergeNext]_mergeVars => WhyInv'
<1> SUFFICES ASSUME MergeInv, WhyInv, [MergeNext]_mergeVars PROVE WhyInv'
    OBVIOUS
<1>1. CASE \E g \in Passes : PassAction(g)
    BY <1>1, EveryStepSound, EveryStepWhy, WhySoundKeeps
<1>2. CASE UNCHANGED <<inputs, origin, local, tracking, pass>>
    BY <1>2 DEF WhyInv, ClashingStaysOut, OriginBehind, KnowsWhy, At, Holds, inputs
<1> QED
    BY <1>1, <1>2 DEF MergeNext, PassAction, MedicAdvance, mergeVars, gitVars

\* The second invariant: what a pass knows of an exact source on its way to
\* origin, and why it is refused.
THEOREM RefusalInvariant == MergeSpec => []WhyInv
BY MergeInvariant, WhyInitially, WhyStepKeeps, PTL DEF MergeSpec

\* An exact source that origin has fails only in a pass one of whose calls for
\* it failed, for any stories, passes, faults and crashes.
THEOREM PublishedFailsByFault == MergeSpec => PublishedFailsByFaultOnly
<1>1. ASSUME MergeInv, WhyInv, MergeNext,
             NEW s \in exact, Holds(origin, s), row[s] # "failed", row'[s] = "failed"
      PROVE  \E g \in Passes : pass[g].story = s /\ At(g, "refused") /\ pass[g].hit
    <2>1. PICK g \in Passes : Record(g)
        BY <1>1 DEF MergeNext, TakeUp, Reconcile, Reject, Resume, NextPass, PassStep, ExactStep,
           BranchStep, QueueStep, PickStory, EndOfQueue, LookUpPullRequest, CreatePullRequest, Judge,
           FailStep, FailRun, Advance, Throw, Crash, MedicAdvance, Fetch, Pull, Merge, Push, Confirm,
           Sync, RebaseAndMerge, PublishMerge, dbVars
    <2>2. s \in Stories /\ row \in [Stories -> RowStates]
        BY <1>1 DEF MergeInv, MergeTypeOK
    <2>3. pass[g].story = s /\ At(g, "refused")
        BY <1>1, <2>1, <2>2 DEF Record, At
    <2>4. s \notin clashing
        BY <1>1 DEF WhyInv, ClashingStaysOut
    <2>5. pass[g].hit
        BY <1>1, <2>3, <2>4 DEF WhyInv, KnowsWhy
    <2> QED
        BY <2>3, <2>5
<1>2. MergeInv /\ WhyInv /\ [MergeNext]_mergeVars =>
          [\A s \in exact :
              Holds(origin, s) /\ row[s] # "failed" /\ row'[s] = "failed" =>
                  \E g \in Passes : pass[g].story = s /\ At(g, "refused") /\ pass[g].hit]_mergeVars
    BY <1>1
<1> QED
    BY <1>2, MergeInvariant, RefusalInvariant, PTL DEF MergeSpec, PublishedFailsByFaultOnly

-----------------------------------------------------------------------------
(* What is done is whole *)

Ending == {"record", "advance", "caught", "failing"}

\* A story a pass has yet to come to, or is at.
Open(g, s) == s \in pass[g].left \/ (pass[g].pc \in Merging /\ s = pass[g].story)

NoneReady == \A s \in Stories : row[s] # "ready"

\* In the queue a pass has every ready story before it, by rows that still hold
\* for it; behind the queue no story is ready.
QueueIsTrue(g) ==
    /\ pass[g].pc \in Merging \cup {"queue"} =>
          \A s \in Stories :
              /\ row[s] = "ready" => Open(g, s)
              /\ s \in pass[g].left => pass[g].seen[s] = row[s]
    /\ pass[g].pc \in Merging => pass[g].story \notin pass[g].left
    /\ pass[g].pc \in {"lookup", "create", "judge"} => NoneReady

\* A done step has nothing left to merge, and a pass that lives ends under it.
DoneIsEnding ==
    step = "done" =>
        /\ \A s \in Stories : row[s] \in {"merged", "skipped"}
        /\ \A g \in Passes : Alive(g) => pass[g].pc \in Ending

WholeInv ==
    ~overlapped =>
        /\ \A g, h \in Passes : Alive(g) /\ Alive(h) => g = h
        /\ DoneIsEnding
        /\ \A g \in Passes : QueueIsTrue(g)

\* A pass that only goes on keeps what it has read and has left.
LEMMA MemoryKept ==
    ASSUME MergeTypeOK, NEW g \in Passes, NEW pc,
           \/ Goes(g, pc) \/ Fault(g, pc)
           \/ Becomes(g, [pass[g] EXCEPT !.pc = pc, !.story = 0])
    PROVE  /\ pass'[g].left = pass[g].left /\ pass'[g].seen = pass[g].seen
           /\ pass'[g].pc = pc
<1>1. pass[g] \in QueueRows \/ pass[g] \in MergeRows
    BY RowsApart DEF MergeTypeOK
<1>2. PICK p \in {[pass[g] EXCEPT !.pc = pc], [pass[g] EXCEPT !.pc = pc, !.hit = TRUE],
                  [pass[g] EXCEPT !.pc = pc, !.story = 0]} : Becomes(g, p)
    BY DEF Goes, Fault
<1>3. p.left = pass[g].left /\ p.seen = pass[g].seen /\ p.pc = pc
    BY <1>1, <1>2 DEF QueueRows, MergeRows
<1> QED
    BY <1>2, <1>3 DEF MergeTypeOK, Becomes

\* A step of the one pass there is, and what it has to show.
WholeSound(g) ==
    /\ step' = "done" =>
          /\ \A s \in Stories : row'[s] \in {"merged", "skipped"}
          /\ Alive(g)' => pass'[g].pc \in Ending
    /\ QueueIsTrue(g)'

\* Nobody else is alive beside it.
LEMMA WholeSoundKeeps ==
    ASSUME WholeInv, NEW g \in Passes, StepSound(g), WholeSound(g),
           ~overlapped, \A h \in Passes \ {g} : ~Alive(h)
    PROVE  WholeInv'
<1>1. ASSUME NEW h \in Passes \ {g}
      PROVE  ~Alive(h)' /\ QueueIsTrue(h)'
    <2>1. pass'[h] = pass[h] /\ pass[h].pc \in {"none", "rejected", "gone"}
        BY <1>1 DEF StepSound, Alive
    <2> QED
        BY <2>1 DEF Alive, QueueIsTrue, Merging
<1> QED
    BY <1>1 DEF WholeInv, WholeSound, DoneIsEnding

\* A pass begins with all the stories and their rows, or at its end.
LEMMA TakeUpWhole ==
    ASSUME MergeInv, WholeInv, NEW g \in Passes, TakeUp(g), ~overlapped'
    PROVE  /\ WholeSound(g) /\ ~overlapped
           /\ \A h \in Passes \ {g} : ~Alive(h)
<1>1. MergeTypeOK /\ MergeTypeOK'
    BY TakeUpSound DEF MergeInv, StepSound
<1>2. /\ UNCHANGED dbVars /\ pass[g].pc = "none"
      /\ overlapped' = (overlapped \/ \E h \in Passes : Alive(h))
    BY DEF TakeUp, Reconcile, Reject, Resume, NextPass, At
<1>3. ~overlapped /\ \A h \in Passes : ~Alive(h)
    BY <1>2
<1>4. DoneIsEnding
    BY <1>3 DEF WholeInv
<1>5. CASE Becomes(g, TakenUp) /\ step # "done"
    <2>1. /\ pass'[g].pc = "queue" /\ pass'[g].left = Stories /\ pass'[g].seen = row
        BY <1>1, <1>5 DEF MergeTypeOK, Becomes, TakenUp
    <2>2. QueueIsTrue(g)'
        BY <1>2, <2>1 DEF QueueIsTrue, Open, Merging, dbVars
    <2> QED
        BY <1>2, <1>3, <1>5, <2>2 DEF WholeSound, dbVars
<1>6. CASE \E pc \in {"gone", "rejected", "advance"} : Goes(g, pc)
    <2>1. pass'[g].pc \in {"gone", "rejected", "advance"}
        BY <1>1, <1>6, MemoryKept
    <2>2. QueueIsTrue(g)'
        BY <2>1 DEF QueueIsTrue, Merging
    <2> QED
        BY <1>2, <1>3, <1>4, <2>1, <2>2 DEF WholeSound, DoneIsEnding, Alive, Ending, dbVars
<1> QED
    BY <1>5, <1>6 DEF TakeUp, Reconcile, Reject, Resume

\* Whoever is in the queue finds the step open.
LEMMA QueueIsOpen ==
    ASSUME DoneIsEnding, NEW g \in Passes, Alive(g), pass[g].pc \notin Ending
    PROVE  step # "done"
BY DEF DoneIsEnding

\* A merge keeps the story and what the pass has left.
LEMMA MergingWhole ==
    ASSUME MergeInv, WholeInv, ~overlapped, NEW g \in Passes, ExactStep(g) \/ BranchStep(g)
    PROVE  WholeSound(g)
<1>1. /\ MergeTypeOK /\ pass[g].pc \in Merging /\ UNCHANGED dbVars
      /\ QueueIsTrue(g) /\ DoneIsEnding
    BY DEF MergeInv, WholeInv, ExactStep, BranchStep, Fetch, Pull, Merge, Push, Confirm, Sync,
           RebaseAndMerge, PublishMerge, At, Merging
<1>2. step # "done"
    BY <1>1, QueueIsOpen DEF Alive, Merging, Ending
<1>3. PICK pc \in Merging : Goes(g, pc) \/ Fault(g, pc)
    <2>1. \E pc \in {"published", "pull", "refused", "push", "merge", "confirm", "rebase", "publish", "retry"} :
              Goes(g, pc) \/ Fault(g, pc)
        BY DEF ExactStep, BranchStep, Fetch, Pull, Merge, Push, Confirm, Sync, RebaseAndMerge, PublishMerge
    <2> QED
        BY <2>1 DEF Merging
<1>4. /\ pass'[g].pc = pc /\ pass'[g].story = pass[g].story
      /\ pass'[g].left = pass[g].left /\ pass'[g].seen = pass[g].seen
    BY <1>1, <1>3, MergeMoves, MemoryKept DEF Moves
<1>5. QueueIsTrue(g)'
    BY <1>1, <1>3, <1>4 DEF QueueIsTrue, Open, Merging, dbVars
<1> QED
    BY <1>1, <1>2, <1>5 DEF WholeSound, dbVars

\* The next story leaves the queue: to be merged, or because it is not ready.
LEMMA PickWhole ==
    ASSUME MergeInv, WholeInv, ~overlapped, NEW g \in Passes, PickStory(g)
    PROVE  WholeSound(g)
<1>1. /\ MergeTypeOK /\ pass[g].pc = "queue" /\ UNCHANGED dbVars
      /\ QueueIsTrue(g) /\ DoneIsEnding /\ pass[g] \in QueueRows
    BY RowsApart DEF MergeInv, MergeTypeOK, WholeInv, PickStory, At, Queueing
<1>2. step # "done"
    BY <1>1, QueueIsOpen DEF Alive, Ending
<1>3. PICK s \in Stories :
          /\ IsNext(g, s)
          /\ Becomes(g, IF pass[g].seen[s] = "ready"
                        THEN TakesUp(g, s, IF s \in exact THEN "fetch" ELSE "sync")
                        ELSE Skips(g, s))
    BY DEF PickStory
<1>4. s \in pass[g].left /\ pass[g].seen[s] = row[s]
    BY <1>1, <1>3 DEF IsNext, QueueIsTrue
<1>5. CASE pass[g].seen[s] = "ready"
    <2>1. PICK pc \in {"fetch", "sync"} : Becomes(g, TakesUp(g, s, pc))
        BY <1>3, <1>5
    <2>2. /\ pass'[g].pc = pc /\ pass'[g].story = s /\ pass'[g].left = pass[g].left \ {s}
          /\ pass'[g].seen = pass[g].seen
        <3>1. pass'[g] = TakesUp(g, s, pc)
            BY <1>1, <2>1 DEF MergeTypeOK, Becomes
        <3> QED
            BY <1>1, <3>1 DEF TakesUp, QueueRows
    <2>3. pc \in Merging
        BY DEF Merging
    <2>4. QueueIsTrue(g)'
        BY <1>1, <2>2, <2>3 DEF QueueIsTrue, Open, Merging, dbVars
    <2> QED
        BY <1>1, <1>2, <2>4 DEF WholeSound, dbVars
<1>6. CASE pass[g].seen[s] # "ready"
    <2>1. /\ pass'[g].pc = "queue" /\ pass'[g].left = pass[g].left \ {s}
          /\ pass'[g].seen = pass[g].seen
        <3>1. pass'[g] = Skips(g, s)
            BY <1>1, <1>3, <1>6 DEF MergeTypeOK, Becomes
        <3> QED
            BY <1>1, <3>1 DEF Skips, QueueRows
    <2>2. QueueIsTrue(g)'
        BY <1>1, <1>4, <1>6, <2>1 DEF QueueIsTrue, Open, Merging, dbVars
    <2> QED
        BY <1>1, <1>2, <2>2 DEF WholeSound, dbVars
<1> QED
    BY <1>5, <1>6

\* The story that is recorded is no longer ready, and no other row changes.
LEMMA RecordWhole ==
    ASSUME MergeInv, WholeInv, ~overlapped, NEW g \in Passes, Record(g)
    PROVE  WholeSound(g)
<1> DEFINE s == pass[g].story
<1>1. /\ MergeTypeOK /\ pass[g].pc \in Merging /\ step' = step
      /\ QueueIsTrue(g) /\ DoneIsEnding /\ pass[g] \in MergeRows /\ s \in Stories
    BY RowsApart, StoryTyped DEF MergeInv, MergeTypeOK, WholeInv, Record, Merging
<1>2. step # "done"
    BY <1>1, QueueIsOpen DEF Alive, Ending, Merging
<1>3. /\ row'[s] # "ready"
      /\ \A t \in Stories \ {s} : row'[t] = row[t]
    BY <1>1 DEF Record, MergeTypeOK
<1>4. /\ pass'[g].pc = "queue" /\ pass'[g].left = pass[g].left /\ pass'[g].seen = pass[g].seen
    <2>1. PICK n, m : Becomes(g, [pass[g] EXCEPT !.pc = "queue", !.story = 0, !.merged = n, !.conflicted = m])
        BY DEF Record
    <2> QED
        BY <1>1, <2>1 DEF MergeTypeOK, Becomes, MergeRows
<1>5. QueueIsTrue(g)'
    BY <1>1, <1>3, <1>4 DEF QueueIsTrue, Open, Merging
<1> QED
    BY <1>1, <1>2, <1>5 DEF WholeSound

\* Behind the queue no story is ready, so a step without a failed one is whole.
LEMMA EndingWhole ==
    ASSUME MergeInv, WholeInv, ~overlapped, NEW g \in Passes,
           \/ EndOfQueue(g) \/ LookUpPullRequest(g) \/ CreatePullRequest(g) \/ Judge(g)
    PROVE  WholeSound(g)
<1>1. /\ MergeTypeOK /\ row' = row /\ pass[g].pc \in {"queue", "lookup", "create", "judge"}
      /\ QueueIsTrue(g) /\ DoneIsEnding
    BY DEF MergeInv, WholeInv, EndOfQueue, LookUpPullRequest, CreatePullRequest, Judge, At, dbVars
<1>2. step # "done"
    BY <1>1, QueueIsOpen DEF Alive, Ending
<1>3. NoneReady
    <2>1. CASE EndOfQueue(g)
        BY <1>1, <2>1 DEF EndOfQueue, At, QueueIsTrue, Open, NoneReady, Merging
    <2>2. CASE ~EndOfQueue(g)
        BY <1>1, <2>2 DEF LookUpPullRequest, CreatePullRequest, Judge, At, QueueIsTrue
    <2> QED
        BY <2>1, <2>2
<1>4. PICK pc \in {"lookup", "create", "judge", "failing", "record"} : Goes(g, pc) \/ Fault(g, pc)
    BY DEF EndOfQueue, LookUpPullRequest, CreatePullRequest, Judge
<1>5. pass'[g].pc = pc
    BY <1>1, <1>4, MemoryKept
<1>6. QueueIsTrue(g)'
    BY <1>1, <1>3, <1>5 DEF QueueIsTrue, NoneReady, Merging
<1>7. CASE Judge(g) /\ step' = "done"
    <2>1. Goes(g, "record") /\ \A s \in Stories : row[s] # "failed"
        BY <1>7 DEF Judge
    <2>2. pass'[g].pc = "record"
        BY <1>1, <2>1, MemoryKept
    <2>3. \A s \in Stories : row'[s] \in {"merged", "skipped"}
        BY <1>1, <1>3, <2>1 DEF MergeTypeOK, RowStates, NoneReady
    <2> QED
        BY <1>6, <2>2, <2>3 DEF WholeSound, Ending
<1>8. CASE ~(Judge(g) /\ step' = "done")
    <2>1. step' # "done"
        BY <1>2, <1>8 DEF EndOfQueue, LookUpPullRequest, CreatePullRequest, Judge, dbVars
    <2> QED
        BY <1>6, <2>1 DEF WholeSound
<1> QED
    BY <1>7, <1>8

\* A pass that throws or ends leaves the rows as they are.
LEMMA LeavingWhole ==
    ASSUME MergeInv, WholeInv, ~overlapped, NEW g \in Passes,
           \/ Throw(g) \/ FailStep(g) \/ FailRun(g) \/ Advance(g) \/ Crash(g)
    PROVE  WholeSound(g)
<1>1. MergeTypeOK /\ row' = row /\ DoneIsEnding /\ (step' = "done" => step = "done")
    BY DEF MergeInv, WholeInv, Throw, FailStep, FailRun, Advance, Crash, dbVars
<1>2. PICK pc \in {"caught", "failing", "gone"} :
          Goes(g, pc) \/ Becomes(g, [pass[g] EXCEPT !.pc = pc, !.story = 0])
    BY DEF Throw, FailStep, FailRun, Advance, Crash, Ends
<1>3. pass'[g].pc = pc
    BY <1>1, <1>2, MemoryKept
<1>4. QueueIsTrue(g)'
    BY <1>3 DEF QueueIsTrue, Merging
<1> QED
    BY <1>1, <1>3, <1>4 DEF WholeSound, DoneIsEnding, Alive, Ending

\* Every step of a pass that is alone keeps the queue true and what is done whole.
LEMMA WholeStepKeeps == MergeInv /\ WholeInv /\ [MergeNext]_mergeVars => WholeInv'
<1> SUFFICES ASSUME MergeInv, WholeInv, [MergeNext]_mergeVars, ~overlapped' PROVE WholeInv'
    BY DEF WholeInv
<1>1. ASSUME NEW g \in Passes, TakeUp(g) PROVE WholeInv'
    BY <1>1, TakeUpSound, TakeUpWhole, WholeSoundKeeps
<1>2. ASSUME NEW g \in Passes, PassStep(g) \/ Throw(g) \/ Crash(g) PROVE WholeInv'
    <2> USE DEF At, Alive
    <2>live. Alive(g)
        <3>1. CASE Throw(g) \/ Crash(g)
            BY <3>1 DEF Throw, Crash
        <3>2. CASE PassStep(g)
            BY <3>2 DEF PassStep, ExactStep, BranchStep, QueueStep, PickStory, Record,
               EndOfQueue, LookUpPullRequest, CreatePullRequest, Judge, FailStep, FailRun,
               Advance, Fetch, Pull, Merge, Push, Confirm, Sync, RebaseAndMerge, PublishMerge
        <3> QED
            BY <1>2, <3>1, <3>2
    <2>same. overlapped' = overlapped
        <3>1. CASE Throw(g) \/ Crash(g)
            BY <3>1 DEF Throw, Crash
        <3>2. CASE ExactStep(g)
            BY <3>2 DEF ExactStep, Fetch, Pull, Merge, Push, Confirm, Sync, RebaseAndMerge, PublishMerge
        <3>3. CASE BranchStep(g)
            BY <3>3 DEF BranchStep, Fetch, Pull, Merge, Push, Confirm, Sync, RebaseAndMerge, PublishMerge
        <3>4. CASE QueueStep(g)
            BY <3>4 DEF QueueStep, PickStory, Record, EndOfQueue, LookUpPullRequest,
               CreatePullRequest, Judge, FailStep, FailRun, Advance
        <3> QED
            BY <1>2, <3>1, <3>2, <3>3, <3>4 DEF PassStep
    <2>1. /\ Alive(g) /\ ~overlapped
        BY <2>live, <2>same
    <2>2. \A h \in Passes \ {g} : ~Alive(h)
        BY <2>1 DEF WholeInv
    <2>3. WholeSound(g)
        BY <1>2, <2>1, MergingWhole, PickWhole, RecordWhole, EndingWhole, LeavingWhole
           DEF PassStep, QueueStep
    <2>4. StepSound(g)
        BY <1>2, EveryStepSound DEF PassAction
    <2> QED
        BY <2>1, <2>2, <2>3, <2>4, WholeSoundKeeps
<1>3. CASE UNCHANGED <<row, step, pass, overlapped>>
    BY <1>3 DEF WholeInv, DoneIsEnding, QueueIsTrue, Open, NoneReady, Alive
<1> QED
    BY <1>1, <1>2, <1>3 DEF MergeNext, MedicAdvance, mergeVars, dbVars

\* The third invariant: while passes come one after another, the queue of each
\* is true to the rows, and a done step has nothing left to merge.
THEOREM QueueInvariant == MergeSpec => []WholeInv
<1>1. MergeInit => WholeInv
    <2> SUFFICES ASSUME MergeInit PROVE WholeInv
        OBVIOUS
    <2>1. step = "running" /\ \A g \in Passes : pass[g].pc = "none"
        BY DEF MergeInit, NewPass
    <2> QED
        BY <2>1 DEF WholeInv, DoneIsEnding, QueueIsTrue, Alive, Merging
<1> QED
    BY <1>1, MergeInvariant, WholeStepKeeps, PTL DEF MergeSpec

\* The loop step is done only over a whole feature branch, for any stories,
\* faults and crashes, as long as no pass overlaps another.
THEOREM DoneMeansWhole == MergeSpec => []DoneIsWhole
<1>1. MergeInv /\ WholeInv => DoneIsWhole
    BY DEF MergeInv, MergedIsPublished, WholeInv, DoneIsEnding, DoneIsWhole
<1> QED
    BY <1>1, MergeInvariant, QueueInvariant, PTL
=============================================================================
