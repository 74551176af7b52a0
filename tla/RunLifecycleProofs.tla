------------------------- MODULE RunLifecycleProofs -------------------------
(***************************************************************************)
(* The safety of a run's life for every number of claims, steps, stories   *)
(* and termination requests and for both protocols.                        *)
(*                                                                         *)
(* LifecycleInv adds to the checked invariants what the transactions rely  *)
(* on without testing it: a run on its way out has an open request that    *)
(* says so, and a claim not yet published has nothing of its own.          *)
(*                                                                         *)
(* Three kinds of step make up the proof: those that test Unchallenged,    *)
(* where no request is open and the run stays active or is asked to end;   *)
(* those that change one completion row; and those that change one         *)
(* session.  What remains are the steps of the termination itself.         *)
(*                                                                         *)
(* ReceiptInv says what the state of a completion tells of its past.  It   *)
(* rests on two tables, of what one step may do to a completion (RowMoves) *)
(* and to its claim, attempt and runtime (OwnersMove), shown once for all  *)
(* actions (StepMoves); four of the theorems are read off them.            *)
(***************************************************************************)
EXTENDS RunLifecycle, TLAPS

Pending == {"requested", "draining", "processing"}

\* The run's status and its open request say the same.
StatusFollowsRequest ==
    /\ request.state \in {"draining", "drained"} => run = SourceStatus(request.target)
    /\ run \in {"failing", "cancelling"} => OpenTermination

\* A claim that was never published has no attempt, runtime or completion.
AbsentIsUnused ==
    \A c \in Claims : claim[c] = "absent" =>
        attempt[c] = "none" /\ session[c] = "none" /\ completion[c].state = "none"

LifecycleInv ==
    /\ LifecycleTypeOK
    /\ OwnerKeepsRun
    /\ DrainProofHolds
    /\ TerminalRunIsQuiet
    /\ StatusFollowsRequest
    /\ AbsentIsUnused

-----------------------------------------------------------------------------
(* Kinds of step *)

\* A step of an unchallenged run that leaves it so keeps the invariant if it
\* keeps the types and the unused claims.
LEMMA UnchallengedKeeps ==
    ASSUME LifecycleInv, Unchallenged, UNCHANGED <<run, request>>,
           LifecycleTypeOK', AbsentIsUnused'
    PROVE  LifecycleInv'
<1> USE DEF LifecycleInv, Unchallenged, OpenTermination
<1>1. OwnerKeepsRun'
    BY DEF OwnerKeepsRun
<1>2. DrainProofHolds'
    BY DEF DrainProofHolds
<1>3. TerminalRunIsQuiet'
    BY DEF TerminalRunIsQuiet, Targets
<1>4. StatusFollowsRequest'
    BY DEF StatusFollowsRequest
<1>5. QED
    BY <1>1, <1>2, <1>3, <1>4

\* A step that asks an unchallenged run to end, deferred or not.
LEMMA TerminateKeeps ==
    ASSUME LifecycleInv, Unchallenged, NEW target \in Targets, Terminate(target),
           LifecycleTypeOK', AbsentIsUnused',
           \A c \in Claims : Owned(c)' => Owned(c)
    PROVE  LifecycleInv'
<1> USE DEF LifecycleInv, Terminate, Targets, SourceStatus
<1>1. request'.state = "requested"
    OBVIOUS
<1>2. run' \in {"running", "failing", "cancelling"}
    BY DEF Unchallenged
<1>3. OwnerKeepsRun'
    BY <1>1 DEF OwnerKeepsRun, NoCompletionOwner, Unchallenged
<1>4. DrainProofHolds'
    BY <1>1 DEF DrainProofHolds
<1>5. TerminalRunIsQuiet'
    BY <1>2 DEF TerminalRunIsQuiet
<1>6. StatusFollowsRequest'
    BY <1>1 DEF StatusFollowsRequest, OpenTermination
<1>7. QED
    BY <1>3, <1>4, <1>5, <1>6

\* A change of one completion row keeps the invariant if it opens no row that
\* was closed and finds no new owner while a termination is open.
LEMMA CompletesKeeps ==
    ASSUME LifecycleInv, NEW c \in Claims, NEW row \in Completions, Completes(c, row),
           completion[c].state # "none",
           row.state \in Pending => completion[c].state \in Pending,
           row.state \in {"draining", "processing"} => Owned(c) \/ ~OpenTermination
    PROVE  LifecycleInv'
<1> USE DEF LifecycleInv, Completes
<1>1. LifecycleTypeOK'
    BY DEF LifecycleTypeOK
<1>2. \A d \in Claims : completion'[d] = IF d = c THEN row ELSE completion[d]
    BY DEF LifecycleTypeOK
<1>3. OwnerKeepsRun'
  <2>1. CASE OpenTermination
    BY <1>2, <2>1 DEF OwnerKeepsRun, NoCompletionOwner, Owned
  <2>2. CASE ~OpenTermination
    <3>1. request.state \in {"none", "terminalized"}
        BY <2>2 DEF OpenTermination
    <3>2. run \in {"running", "completed"} \/ run \in Targets
        BY <2>2 DEF StatusFollowsRequest, LifecycleTypeOK, RunStates
    <3>3. CASE run \in Targets
        BY <1>2, <3>3 DEF TerminalRunIsQuiet, OwnerKeepsRun, NoCompletionOwner, Owned, Pending
    <3>4. QED
        BY <3>1, <3>2, <3>3 DEF OwnerKeepsRun
  <2>3. QED
    BY <2>1, <2>2
<1>4. DrainProofHolds'
    BY <1>2 DEF DrainProofHolds, NoCompletionOwner, Owned, ClaimsTracked, OpenTermination
<1>5. TerminalRunIsQuiet'
    BY <1>2 DEF TerminalRunIsQuiet, Pending, OpenTermination, ActiveAttempt
<1>6. StatusFollowsRequest'
    BY DEF StatusFollowsRequest, OpenTermination
<1>7. AbsentIsUnused'
    BY <1>2 DEF AbsentIsUnused
<1>8. QED
    BY <1>1, <1>3, <1>4, <1>5, <1>6, <1>7

\* A change of one session that neither forgets nor reopens it.
LEMMA SessionKeeps ==
    ASSUME LifecycleInv, NEW c \in Claims, NEW from, NEW to,
           SessionMoves(c, from, to),
           from \subseteq SessionStates \ {"none", "released"},
           to \in SessionStates \ {"none"},
           from \subseteq Startable \/ to \in {"drained", "released", "quarantined"}
    PROVE  LifecycleInv'
<1> USE DEF LifecycleInv, SessionMoves
<1>1. LifecycleTypeOK'
    BY DEF LifecycleTypeOK
<1>2. \A d \in Claims : session'[d] = IF d = c THEN to ELSE session[d]
    BY DEF LifecycleTypeOK
<1>3. OwnerKeepsRun'
    BY DEF OwnerKeepsRun, NoCompletionOwner, Owned
<1>4. DrainProofHolds'
    BY <1>2 DEF DrainProofHolds, NoCompletionOwner, Owned, ClaimsTracked, Startable
<1>5. TerminalRunIsQuiet'
    BY <1>2 DEF TerminalRunIsQuiet, OpenTermination, ActiveAttempt
<1>6. StatusFollowsRequest'
    BY DEF StatusFollowsRequest, OpenTermination
<1>7. AbsentIsUnused'
    BY <1>2 DEF AbsentIsUnused
<1>8. QED
    BY <1>1, <1>3, <1>4, <1>5, <1>6, <1>7

-----------------------------------------------------------------------------
(* Claims, attempts and runtimes *)

LEMMA ClosedAttemptIsOver ==
    ASSUME LifecycleTypeOK, NEW c \in Claims
    PROVE  ClosedAttempt(c) \in {"none", "closed"}
BY DEF ClosedAttempt, ActiveAttempt, LifecycleTypeOK

LEMMA PublishClaimKeeps ==
    ASSUME LifecycleInv, NEW c \in Claims, NEW managed \in BOOLEAN, PublishClaim(c, managed)
    PROVE  LifecycleInv'
<1> USE LifecycleAssumption DEF PublishClaim, LifecycleInv
<1>1. WorkOf[c] \in Work
    OBVIOUS
<1>2. LifecycleTypeOK'
    BY <1>1 DEF LifecycleTypeOK, SessionStates, Startable
<1>3. AbsentIsUnused'
    BY DEF LifecycleTypeOK, AbsentIsUnused
<1>4. QED
    BY <1>2, <1>3, UnchallengedKeeps

\* An open claim is of a run that has not ended.
LEMMA BindAttemptKeeps ==
    ASSUME LifecycleInv, NEW c \in Claims, BindAttempt(c)
    PROVE  LifecycleInv'
<1> USE DEF BindAttempt, LifecycleInv
<1>1. LifecycleTypeOK'
    BY DEF LifecycleTypeOK
<1>2. run \notin {"completed"} \cup Targets
    BY DEF TerminalRunIsQuiet
<1>3. OwnerKeepsRun' /\ DrainProofHolds'
    BY DEF OwnerKeepsRun, DrainProofHolds, NoCompletionOwner, Owned, ClaimsTracked
<1>4. TerminalRunIsQuiet'
    BY <1>2 DEF TerminalRunIsQuiet
<1>5. StatusFollowsRequest'
    BY DEF StatusFollowsRequest, OpenTermination
<1>6. AbsentIsUnused'
    BY DEF LifecycleTypeOK, AbsentIsUnused
<1>7. QED
    BY <1>1, <1>3, <1>4, <1>5, <1>6

LEMMA StartKeeps ==
    ASSUME LifecycleInv, NEW c \in Claims, MarkStarting(c) \/ MarkRunning(c)
    PROVE  LifecycleInv'
<1> USE DEF MarkStarting, MarkRunning, LifecycleInv
<1>1. LifecycleTypeOK'
    BY DEF LifecycleTypeOK, SessionStates, Startable
<1>2. AbsentIsUnused'
    BY DEF LifecycleTypeOK, AbsentIsUnused, ActiveAttempt
<1>3. QED
    BY <1>1, <1>2, UnchallengedKeeps

LEMMA SessionStepKeeps ==
    ASSUME LifecycleInv, NEW c \in Claims,
           \/ RequestDrain(c)
           \/ MarkSessionDrained(c)
           \/ QuarantineSession(c)
           \/ RecoverQuarantinedForTermination(c)
           \/ ReleaseSession(c)
    PROVE  LifecycleInv'
<1> USE SessionKeeps DEF SessionStates, Startable
<1>1. CASE RequestDrain(c)
    BY <1>1 DEF RequestDrain
<1>2. CASE MarkSessionDrained(c)
    BY <1>2 DEF MarkSessionDrained
<1>3. CASE QuarantineSession(c)
    BY <1>3 DEF QuarantineSession
<1>4. CASE RecoverQuarantinedForTermination(c)
    BY <1>4 DEF RecoverQuarantinedForTermination
<1>5. CASE ReleaseSession(c)
    BY <1>5 DEF ReleaseSession
<1>6. QED
    BY <1>1, <1>2, <1>3, <1>4, <1>5

\* Closing an open claim's owners keeps types and unused claims.
LEMMA CloseOwnersTypes ==
    ASSUME LifecycleInv, NEW c \in Claims, claim[c] = "open",
           NEW outcome \in {"pending", "done", "failed"}, CloseOwners(c, outcome),
           UNCHANGED <<session, terminalEvents>>,
           run' \in RunStates, request' \in Requests,
           completion' \in [Claims -> Completions],
           \A d \in Claims : d # c => completion'[d] = completion[d]
    PROVE  LifecycleTypeOK' /\ AbsentIsUnused'
<1> USE LifecycleAssumption DEF CloseOwners, LifecycleInv
<1>1. WorkOf[c] \in Work
    OBVIOUS
<1>2. ClosedAttempt(c) \in {"none", "closed"}
    BY ClosedAttemptIsOver
<1>3. work' \in [Work -> {"pending", "running", "done"} \cup Targets]
    BY <1>1 DEF LifecycleTypeOK, Targets
<1>4. attempt' \in [Claims -> {"none", "claimed", "running", "closed"}]
    BY <1>2 DEF LifecycleTypeOK
<1>5. LifecycleTypeOK'
    BY <1>3, <1>4 DEF LifecycleTypeOK
<1>6. AbsentIsUnused'
    BY DEF LifecycleTypeOK, AbsentIsUnused
<1>7. QED
    BY <1>5, <1>6

LEMMA TerminateTypes ==
    ASSUME LifecycleTypeOK, NEW target \in Targets, Terminate(target)
    PROVE  run' \in RunStates /\ request' \in Requests
<1>1. request.id \in 0..MaxRequests /\ MaxRequests \in Nat
    BY LifecycleAssumption DEF LifecycleTypeOK, Requests
<1>2. run' \in RunStates
    BY DEF Terminate, LifecycleTypeOK, RunStates, SourceStatus
<1>3. request' \in Requests
    BY <1>1 DEF Terminate, Requests
<1>4. QED
    BY <1>2, <1>3

LEMMA CloseClaimKeeps ==
    ASSUME LifecycleInv, NEW c \in Claims, NEW outcome \in {"pending", "done", "failed"},
           CloseClaim(c, outcome)
    PROVE  LifecycleInv'
<1> USE DEF CloseClaim, LifecycleInv
<1>1. CASE outcome = "failed"
  <2>1. Terminate("failed") /\ "failed" \in Targets
    BY <1>1 DEF Targets
  <2>2. run' \in RunStates /\ request' \in Requests
    BY <2>1, TerminateTypes
  <2>3. LifecycleTypeOK' /\ AbsentIsUnused'
    BY <2>2, CloseOwnersTypes DEF LifecycleTypeOK
  <2>4. \A d \in Claims : Owned(d)' => Owned(d)
    BY DEF Owned
  <2>5. QED
    BY <2>1, <2>3, <2>4, TerminateKeeps
<1>2. CASE outcome # "failed"
  <2>1. LifecycleTypeOK' /\ AbsentIsUnused'
    BY <1>2, CloseOwnersTypes DEF LifecycleTypeOK
  <2>2. QED
    BY <1>2, <2>1, UnchallengedKeeps
<1>3. QED
    BY <1>1, <1>2

-----------------------------------------------------------------------------
(* Completions *)

LEMMA RequestCompletionKeeps ==
    ASSUME LifecycleInv, NEW c \in Claims, RequestCompletion(c)
    PROVE  LifecycleInv'
<1> USE DEF RequestCompletion, LifecycleInv
<1>1. LifecycleTypeOK'
    BY DEF LifecycleTypeOK, SessionStates, Completions
<1>2. AbsentIsUnused'
    BY DEF LifecycleTypeOK, AbsentIsUnused
<1>3. QED
    BY <1>1, <1>2, UnchallengedKeeps

\* The rows the completion repository writes are rows, in the state they name.
LEMMA RowState ==
    ASSUME NEW r \in Completions, NEW live \in BOOLEAN,
           NEW state \in {"none", "requested", "draining", "processing",
                          "accepted", "rejected", "quarantined"}
    PROVE  /\ [r EXCEPT !.state = state, !.live = live] \in Completions
           /\ [r EXCEPT !.state = state, !.live = live].state = state
BY DEF Completions

LEMMA RowLive ==
    ASSUME NEW r \in Completions, NEW live \in BOOLEAN
    PROVE  /\ [r EXCEPT !.live = live] \in Completions
           /\ [r EXCEPT !.live = live].state = r.state
           /\ [r EXCEPT !.live = live].tries = r.tries
BY DEF Completions

LEMMA RowPhase ==
    ASSUME NEW r \in Completions, NEW phase \in Committed
    PROVE  /\ [r EXCEPT !.phase = phase] \in Completions
           /\ [r EXCEPT !.phase = phase].state = r.state
BY DEF Completions

LEMMA RowApplied ==
    ASSUME NEW r \in Completions
    PROVE  /\ [r EXCEPT !.effects = "applied"] \in Completions
           /\ [r EXCEPT !.effects = "applied"].state = r.state
BY DEF Completions

LEMMA RowCommit ==
    ASSUME NEW r \in Completions
    PROVE  [r EXCEPT !.phase = "owner_committed", !.effects = "pending"] \in Completions
BY DEF Completions, Committed

LEMMA RowTries ==
    ASSUME NEW r \in Completions, r.tries < MaxOwnerAttempts
    PROVE  /\ [r EXCEPT !.tries = @ + 1] \in Completions
           /\ [r EXCEPT !.tries = @ + 1].state = r.state
<1>1. r.tries + 1 \in 0..MaxOwnerAttempts
    BY LifecycleAssumption DEF Completions
<1>2. QED
    BY <1>1 DEF Completions

LEMMA RowStart ==
    ASSUME NEW r \in Completions, r.tries < MaxOwnerAttempts
    PROVE  LET row == [r EXCEPT !.state = "processing", !.phase = "executing",
                                !.tries = @ + 1]
           IN  row \in Completions /\ row.state = "processing"
<1>1. r.tries + 1 \in 0..MaxOwnerAttempts
    BY LifecycleAssumption DEF Completions
<1>2. QED
    BY <1>1 DEF Completions

LEMMA CompletionRowKeeps ==
    ASSUME LifecycleInv, NEW c \in Claims,
           \/ ClaimCompletion(c)
           \/ MarkProcessing(c)
           \/ ApplyEffects(c)
           \/ MarkEffectsCommitted(c)
           \/ ExpireCompletionLease(c)
           \/ PreemptForTermination(c)
    PROVE  LifecycleInv'
<1> USE CompletesKeeps DEF Owned, Pending
<1>0. completion[c] \in Completions
    BY DEF LifecycleInv, LifecycleTypeOK
<1>1. CASE ClaimCompletion(c)
  <2> DEFINE row == [completion[c] EXCEPT !.state = "draining", !.live = TRUE]
  <2>1. row \in Completions /\ row.state = "draining"
    BY <1>0, RowState
  <2>2. Completes(c, row)
    BY <1>1 DEF ClaimCompletion
  <2> HIDE DEF row
  <2>3. QED
    BY <1>1, <2>1, <2>2 DEF ClaimCompletion
<1>2. CASE MarkProcessing(c)
  <2> DEFINE row == [completion[c] EXCEPT !.state = "processing", !.phase = "executing",
                                          !.tries = @ + 1]
  <2>1. row \in Completions /\ row.state = "processing"
    BY <1>0, <1>2, RowStart DEF MarkProcessing, WithinBudget
  <2>2. Completes(c, row)
    BY <1>2 DEF MarkProcessing
  <2> HIDE DEF row
  <2>3. QED
    BY <1>2, <2>1, <2>2 DEF MarkProcessing
<1>3. CASE ApplyEffects(c)
  <2> DEFINE row == [completion[c] EXCEPT !.effects = "applied"]
  <2>1. row \in Completions /\ row.state = completion[c].state
    BY <1>0, RowApplied
  <2>2. Completes(c, row)
    BY <1>3 DEF ApplyEffects
  <2> HIDE DEF row
  <2>3. QED
    BY <1>3, <2>1, <2>2 DEF ApplyEffects, Processing
<1>4. CASE MarkEffectsCommitted(c)
  <2> DEFINE row == [completion[c] EXCEPT !.phase = "effects_committed"]
  <2>1. row \in Completions /\ row.state = completion[c].state
    BY <1>0, RowPhase DEF Committed
  <2>2. Completes(c, row)
    BY <1>4 DEF MarkEffectsCommitted
  <2> HIDE DEF row
  <2>3. QED
    BY <1>4, <2>1, <2>2 DEF MarkEffectsCommitted, Processing
<1>5. CASE ExpireCompletionLease(c)
  <2> DEFINE row == [completion[c] EXCEPT !.live = FALSE]
  <2>1. row \in Completions /\ row.state = completion[c].state
    BY <1>0, RowLive
  <2>2. Completes(c, row)
    BY <1>5 DEF ExpireCompletionLease
  <2> HIDE DEF row
  <2>3. QED
    BY <1>5, <2>1, <2>2 DEF ExpireCompletionLease
<1>6. CASE PreemptForTermination(c)
  <2>1. Rejected(c) \in Completions /\ Rejected(c).state = "rejected"
    BY <1>0, RowState DEF Rejected
  <2>2. QED
    BY <1>6, <2>1 DEF PreemptForTermination
<1>7. QED
    BY <1>1, <1>2, <1>3, <1>4, <1>5, <1>6

LEMMA OwnerCommitKeeps ==
    ASSUME LifecycleInv, NEW c \in Claims, NEW outcome \in {"pending", "done", "failed"},
           OwnerCommit(c, outcome)
    PROVE  LifecycleInv'
<1> USE DEF OwnerCommit, LifecycleInv
<1> DEFINE row == [completion[c] EXCEPT !.phase = "owner_committed",
                                        !.effects = "pending"]
<1>0. completion[c] \in Completions
    BY DEF LifecycleTypeOK
<1>1. completion' \in [Claims -> Completions]
  <2>1. row \in Completions
    BY <1>0, RowCommit
  <2>2. completion' = [completion EXCEPT ![c] = row]
    OBVIOUS
  <2> HIDE DEF row
  <2>3. QED
    BY <2>1, <2>2 DEF LifecycleTypeOK
<1>2. \A d \in Claims : d # c => completion'[d] = completion[d]
    BY DEF LifecycleTypeOK
<1>3. CASE outcome = "failed"
  <2>1. Terminate("failed") /\ "failed" \in Targets
    BY <1>3 DEF Targets
  <2>2. run' \in RunStates /\ request' \in Requests
    BY <2>1, TerminateTypes
  <2>3. LifecycleTypeOK' /\ AbsentIsUnused'
    BY <1>1, <1>2, <2>2, CloseOwnersTypes
  <2>4. \A d \in Claims : Owned(d)' => Owned(d)
    BY DEF Owned, LifecycleTypeOK, Completions
  <2>5. QED
    BY <2>1, <2>3, <2>4, TerminateKeeps
<1>4. CASE outcome # "failed"
  <2>1. LifecycleTypeOK' /\ AbsentIsUnused'
    BY <1>1, <1>2, <1>4, CloseOwnersTypes DEF LifecycleTypeOK
  <2>2. QED
    BY <1>4, <2>1, UnchallengedKeeps
<1>5. QED
    BY <1>3, <1>4

\* An accepted completion leaves its owner's hands with its runtime released.
LEMMA AcceptKeeps ==
    ASSUME LifecycleInv, NEW c \in Claims, AcceptAndRelease(c)
    PROVE  LifecycleInv'
<1> USE DEF LifecycleInv
<1> DEFINE row == [completion[c] EXCEPT !.state = "accepted", !.live = FALSE]
<1>1. Owned(c)
    BY DEF AcceptAndRelease, Processing, Owned
<1>2. row \in Completions /\ row.state = "accepted"
    BY RowState DEF LifecycleTypeOK
<1>3. /\ completion' = [completion EXCEPT ![c] = row]
      /\ session' = [session EXCEPT ![c] = "released"]
      /\ UNCHANGED <<run, request, work, claim, attempt, terminalEvents>>
    BY DEF AcceptAndRelease
<1> HIDE DEF row
<1>4. LifecycleTypeOK'
    BY <1>2, <1>3 DEF LifecycleTypeOK, SessionStates
<1>5. \A d \in Claims : /\ session'[d] = IF d = c THEN "released" ELSE session[d]
                        /\ completion'[d] = IF d = c THEN row ELSE completion[d]
    BY <1>3 DEF LifecycleTypeOK
<1>6. run \in {"running", "completed"} /\ request.state \notin {"draining", "drained"}
    BY <1>1 DEF OwnerKeepsRun, NoCompletionOwner
<1>7. OwnerKeepsRun' /\ DrainProofHolds'
    BY <1>3, <1>6 DEF OwnerKeepsRun, DrainProofHolds
<1>8. TerminalRunIsQuiet'
    BY <1>3, <1>6 DEF TerminalRunIsQuiet, OpenTermination, ActiveAttempt, Targets
<1>9. StatusFollowsRequest'
    BY <1>3 DEF StatusFollowsRequest, OpenTermination
<1>10. AbsentIsUnused'
    BY <1>1, <1>3, <1>5 DEF AbsentIsUnused, Owned
<1>11. QED
    BY <1>4, <1>7, <1>8, <1>9, <1>10

LEMMA GiveUpKeeps ==
    ASSUME LifecycleInv, NEW c \in Claims, GiveUpCompletion(c)
    PROVE  LifecycleInv'
<1>1. GivenUp(c) \in Completions /\ GivenUp(c).state = "quarantined"
    BY RowState DEF GivenUp, LifecycleInv, LifecycleTypeOK
<1>2. Completes(c, GivenUp(c)) /\ completion[c].state # "none"
    BY DEF GiveUpCompletion
<1>3. QED
    BY <1>1, <1>2, CompletesKeeps DEF Pending

LEMMA RecoverKeeps ==
    ASSUME LifecycleInv, NEW c \in Claims, RecoverExpiredProcessing(c)
    PROVE  LifecycleInv'
<1> USE CompletesKeeps DEF Owned, Pending
<1>1. completion[c] \in Completions /\ completion[c].state = "processing"
    BY DEF LifecycleInv, LifecycleTypeOK, RecoverExpiredProcessing
<1>2. /\ Rejected(c) \in Completions /\ Rejected(c).state = "rejected"
      /\ Reclaimed(c) \in Completions /\ Reclaimed(c).state = "processing"
      /\ Reclaimed(c).tries = completion[c].tries
      /\ GivenUp(c) \in Completions /\ GivenUp(c).state = "quarantined"
    BY <1>1, RowState, RowLive DEF Rejected, Reclaimed, GivenUp
<1>3. CASE Completes(c, Rejected(c))
    BY <1>1, <1>2, <1>3
<1>4. CASE WithinBudget(c) /\ Completes(c, [Reclaimed(c) EXCEPT !.tries = @ + 1])
  <2> DEFINE row == [Reclaimed(c) EXCEPT !.tries = @ + 1]
  <2>1. row \in Completions /\ row.state = "processing"
    BY <1>2, <1>4, RowTries DEF WithinBudget
  <2>2. Completes(c, row)
    BY <1>4
  <2> HIDE DEF row
  <2>3. QED
    BY <1>1, <2>1, <2>2
<1>5. CASE Completes(c, Reclaimed(c))
    BY <1>1, <1>2, <1>5
<1>6. CASE Completes(c, GivenUp(c))
    BY <1>1, <1>2, <1>6
<1>7. QED
    BY <1>3, <1>4, <1>5, <1>6 DEF RecoverExpiredProcessing

-----------------------------------------------------------------------------
(* Termination and the other ends of a run *)

LEMMA RequestRow ==
    ASSUME NEW r \in Requests, NEW live \in BOOLEAN,
           NEW state \in {"none", "requested", "draining", "drained",
                          "terminalized", "quarantined"}
    PROVE  LET row == [r EXCEPT !.state = state, !.live = live]
           IN  row \in Requests /\ row.state = state /\ row.target = r.target
BY DEF Requests

LEMMA RequestState ==
    ASSUME NEW r \in Requests
    PROVE  LET row == [r EXCEPT !.state = "drained"]
           IN  row \in Requests /\ row.state = "drained" /\ row.target = r.target
BY DEF Requests

LEMMA RequestLive ==
    ASSUME NEW r \in Requests
    PROVE  LET row == [r EXCEPT !.live = FALSE]
           IN  row \in Requests /\ row.state = r.state /\ row.target = r.target
BY DEF Requests

LEMMA TargetStatus ==
    ASSUME request \in Requests
    PROVE  request.target \in Targets /\ SourceStatus(request.target) \in {"failing", "cancelling"}
BY DEF Requests, SourceStatus

LEMMA RequestTerminationKeeps ==
    ASSUME LifecycleInv, NEW target \in Targets, RequestTermination(target)
    PROVE  LifecycleInv'
<1> USE DEF RequestTermination
<1>1. Unchallenged
    BY DEF Unchallenged
<1>2. run' \in RunStates /\ request' \in Requests
    BY TerminateTypes DEF LifecycleInv
<1>3. LifecycleTypeOK' /\ AbsentIsUnused'
    BY <1>2 DEF LifecycleInv, LifecycleTypeOK, AbsentIsUnused
<1>4. \A c \in Claims : Owned(c)' => Owned(c)
    BY DEF Owned
<1>5. QED
    BY <1>1, <1>3, <1>4, TerminateKeeps

LEMMA ClaimTerminationKeeps ==
    ASSUME LifecycleInv, ClaimTermination
    PROVE  LifecycleInv'
<1> USE DEF LifecycleInv
<1> DEFINE row == [request EXCEPT !.state = "draining", !.live = TRUE]
<1>1. row \in Requests /\ row.state = "draining" /\ row.target = request.target
    BY RequestRow DEF LifecycleTypeOK
<1>2. request' = row /\ run' = SourceStatus(request.target) /\ NoCompletionOwner
    BY DEF ClaimTermination
<1> HIDE DEF row
<1>3. run' \in {"failing", "cancelling"}
    BY <1>2, TargetStatus DEF LifecycleTypeOK
<1>4. \A c \in Claims : session'[c] \in SessionStates /\ (session[c] = "none" => session'[c] = "none")
    BY DEF ClaimTermination, LifecycleTypeOK, SessionStates, Startable
<1>5. LifecycleTypeOK'
  <2>1. session' \in [Claims -> SessionStates]
    BY <1>4 DEF ClaimTermination
  <2>2. QED
    BY <1>1, <1>2, <1>3, <2>1 DEF ClaimTermination, LifecycleTypeOK, RunStates
<1>6. OwnerKeepsRun'
    BY <1>2 DEF ClaimTermination, OwnerKeepsRun, NoCompletionOwner, Owned
<1>7. DrainProofHolds'
    BY <1>1, <1>2 DEF DrainProofHolds
<1>8. TerminalRunIsQuiet'
    BY <1>3 DEF TerminalRunIsQuiet, Targets
<1>9. StatusFollowsRequest'
    BY <1>1, <1>2 DEF StatusFollowsRequest, OpenTermination
<1>10. AbsentIsUnused'
    BY <1>4 DEF ClaimTermination, AbsentIsUnused
<1>11. QED
    BY <1>5, <1>6, <1>7, <1>8, <1>9, <1>10

\* A change of the open request alone; it counts as drained only with its proof.
LEMMA RequestMovesKeeps ==
    ASSUME LifecycleInv, NEW row \in Requests, RequestMoves(row), OpenTermination,
           row.target = request.target,
           row.state \notin {"none", "terminalized"},
           row.state \in {"draining", "drained"} => request.state = "draining",
           row.state = "drained" => AllDrained /\ ClaimsTracked
    PROVE  LifecycleInv'
<1> USE DEF LifecycleInv, RequestMoves
<1>1. LifecycleTypeOK'
    BY DEF LifecycleTypeOK
<1>2. OwnerKeepsRun'
    BY DEF OwnerKeepsRun, NoCompletionOwner, Owned
<1>3. StatusFollowsRequest'
    BY DEF StatusFollowsRequest, OpenTermination
<1>4. ASSUME row.state = "drained"
      PROVE  /\ run = SourceStatus(request.target)
             /\ NoCompletionOwner
    BY <1>4 DEF StatusFollowsRequest, OwnerKeepsRun
<1>5. DrainProofHolds'
    BY <1>4 DEF DrainProofHolds, AllDrained, NoCompletionOwner, Owned, ClaimsTracked
<1>6. TerminalRunIsQuiet'
    BY DEF TerminalRunIsQuiet
<1>7. AbsentIsUnused'
    BY DEF AbsentIsUnused
<1>8. QED
    BY <1>1, <1>2, <1>3, <1>5, <1>6, <1>7

LEMMA RequestStepKeeps ==
    ASSUME LifecycleInv,
           ExpireTerminationLease \/ MarkTerminationDrained \/ QuarantineTermination
    PROVE  LifecycleInv'
<1> USE DEF OpenTermination
<1>0. request \in Requests
    BY DEF LifecycleInv, LifecycleTypeOK
<1>1. CASE ExpireTerminationLease
  <2> DEFINE row == [request EXCEPT !.live = FALSE]
  <2>1. row \in Requests /\ row.state = "draining" /\ row.target = request.target
    BY <1>0, <1>1, RequestLive DEF ExpireTerminationLease
  <2>2. RequestMoves(row) /\ request.state = "draining"
    BY <1>1 DEF ExpireTerminationLease
  <2> HIDE DEF row
  <2>3. QED
    BY <2>1, <2>2, RequestMovesKeeps
<1>2. CASE MarkTerminationDrained
  <2> DEFINE row == [request EXCEPT !.state = "drained"]
  <2>1. row \in Requests /\ row.state = "drained" /\ row.target = request.target
    BY <1>0, RequestState
  <2>2. RequestMoves(row) /\ request.state = "draining" /\ AllDrained /\ ClaimsTracked
    BY <1>2 DEF MarkTerminationDrained
  <2> HIDE DEF row
  <2>3. QED
    BY <2>1, <2>2, RequestMovesKeeps
<1>3. CASE QuarantineTermination
  <2> DEFINE row == [request EXCEPT !.state = "quarantined", !.live = FALSE]
  <2>1. row \in Requests /\ row.state = "quarantined" /\ row.target = request.target
    BY <1>0, RequestRow
  <2>2. RequestMoves(row) /\ request.state \in {"requested", "draining", "drained"}
    BY <1>3 DEF QuarantineTermination
  <2> HIDE DEF row
  <2>3. QED
    BY <2>1, <2>2, RequestMovesKeeps
<1>4. QED
    BY <1>1, <1>2, <1>3

\* The end of a terminated run: the proof it was drained closes what is left.
LEMMA TerminalizeKeeps ==
    ASSUME LifecycleInv, Terminalize
    PROVE  LifecycleInv'
<1> USE DEF LifecycleInv
<1> DEFINE row == [request EXCEPT !.state = "terminalized", !.live = FALSE]
<1>1. row \in Requests /\ row.state = "terminalized"
    BY RequestRow DEF LifecycleTypeOK
<1>2. request' = row
    BY DEF Terminalize
<1> HIDE DEF row
<1>3. request \in Requests /\ request.target \in Targets /\ request.id \in 0..MaxRequests
    BY DEF LifecycleTypeOK, Requests
<1>4. run' \in Targets
    BY <1>3 DEF Terminalize
<1>5. NoCompletionOwner /\ AllDrained
    BY DEF Terminalize, MayTerminalize, DrainProofHolds
<1>6. \A c \in Claims :
         /\ completion'[c] \in Completions
         /\ completion'[c].state \notin Pending
         /\ completion[c].state = "none" => completion'[c].state = "none"
  <2> TAKE c \in Claims
  <2>1. completion[c] \in Completions /\ ~Owned(c)
    BY <1>5 DEF LifecycleTypeOK, NoCompletionOwner
  <2>2. Rejected(c) \in Completions /\ Rejected(c).state = "rejected"
    BY <2>1, RowState DEF Rejected
  <2>3. completion'[c] = IF completion[c].state \in {"requested", "draining"}
                         THEN Rejected(c) ELSE completion[c]
    BY DEF Terminalize
  <2>4. QED
    BY <2>1, <2>2, <2>3 DEF Pending, Owned
<1>7. \A c \in Claims : session'[c] \in {"none", "released"}
                        /\ (session[c] = "none" => session'[c] = "none")
    BY <1>5 DEF Terminalize, AllDrained
<1>8. \A c \in Claims : /\ claim'[c] # "open"
                        /\ claim'[c] = "absent" => claim[c] = "absent"
                        /\ claim'[c] \in {"absent", "open", "closed"}
    BY DEF Terminalize, LifecycleTypeOK
<1>9. \A c \in Claims : /\ attempt'[c] \in {"none", "closed"}
                        /\ attempt[c] = "none" => attempt'[c] = "none"
    BY ClosedAttemptIsOver DEF Terminalize, ClosedAttempt, ActiveAttempt
<1>10. LifecycleTypeOK'
  <2>1. run' \in RunStates
    BY <1>4 DEF RunStates
  <2>2. work' \in [Work -> {"pending", "running", "done"} \cup Targets]
    BY <1>3 DEF Terminalize, LifecycleTypeOK
  <2>3. claim' \in [Claims -> {"absent", "open", "closed"}]
    BY <1>8 DEF Terminalize
  <2>4. attempt' \in [Claims -> {"none", "claimed", "running", "closed"}]
    BY <1>9 DEF Terminalize
  <2>5. session' \in [Claims -> SessionStates]
    BY <1>7 DEF Terminalize, SessionStates
  <2>6. completion' \in [Claims -> Completions]
    BY <1>6 DEF Terminalize
  <2>7. terminalEvents' \subseteq
           [status : Targets \cup {"completed"}, request : 0..MaxRequests]
    BY <1>3 DEF Terminalize, WithEvent, LifecycleTypeOK
  <2>8. QED
    BY <1>1, <1>2, <2>1, <2>2, <2>3, <2>4, <2>5, <2>6, <2>7 DEF LifecycleTypeOK
<1>11. NoCompletionOwner'
    BY <1>6 DEF NoCompletionOwner, Owned, Pending
<1>12. OwnerKeepsRun' /\ DrainProofHolds'
    BY <1>1, <1>2, <1>11 DEF OwnerKeepsRun, DrainProofHolds
<1>13. TerminalRunIsQuiet'
    BY <1>1, <1>2, <1>6, <1>7, <1>8, <1>9
    DEF TerminalRunIsQuiet, OpenTermination, ActiveAttempt, Pending
<1>14. StatusFollowsRequest'
    BY <1>1, <1>2, <1>4 DEF StatusFollowsRequest, OpenTermination, Targets
<1>15. AbsentIsUnused'
    BY <1>6, <1>7, <1>8, <1>9 DEF AbsentIsUnused
<1>16. QED
    BY <1>10, <1>12, <1>13, <1>14, <1>15

LEMMA CompleteRunKeeps ==
    ASSUME LifecycleInv, CompleteRun
    PROVE  LifecycleInv'
<1> USE DEF LifecycleInv
<1>1. run' = "completed" /\ UNCHANGED <<request, work, claim, attempt, completion>>
      /\ request.state \in {"none", "terminalized"}
    BY DEF CompleteRun, Unchallenged, OpenTermination
<1>2. \A c \in Claims : session'[c] \in SessionStates
                        /\ (session[c] = "none" => session'[c] = "none")
    BY DEF CompleteRun, LifecycleTypeOK, SessionStates
<1>3. LifecycleTypeOK'
  <2>1. session' \in [Claims -> SessionStates]
    BY <1>2 DEF CompleteRun
  <2>2. 0 \in 0..MaxRequests
    BY LifecycleAssumption
  <2>3. terminalEvents' \subseteq
           [status : Targets \cup {"completed"}, request : 0..MaxRequests]
    BY <2>2 DEF CompleteRun, WithEvent, LifecycleTypeOK
  <2>4. QED
    BY <1>1, <2>1, <2>3 DEF LifecycleTypeOK, RunStates
<1>4. OwnerKeepsRun' /\ DrainProofHolds'
    BY <1>1 DEF OwnerKeepsRun, DrainProofHolds
<1>5. TerminalRunIsQuiet'
    BY <1>1 DEF CompleteRun, TerminalRunIsQuiet, OpenTermination, ActiveAttempt, Targets
<1>6. StatusFollowsRequest'
    BY <1>1 DEF StatusFollowsRequest
<1>7. AbsentIsUnused'
    BY <1>1, <1>2 DEF AbsentIsUnused
<1>8. QED
    BY <1>3, <1>4, <1>5, <1>6, <1>7

LEMMA FailUnclaimedRunKeeps ==
    ASSUME LifecycleInv, FailUnclaimedRun
    PROVE  LifecycleInv'
<1> USE DEF LifecycleInv
<1>1. /\ run' = "failed"
      /\ UNCHANGED <<request, claim, attempt, session, completion>>
      /\ request.state \in {"none", "terminalized"}
    BY DEF FailUnclaimedRun, Unchallenged, OpenTermination
<1>2. \A c \in Claims : attempt[c] = "none" /\ session[c] = "none"
                        /\ completion[c].state = "none" /\ claim[c] = "absent"
    BY DEF FailUnclaimedRun, AbsentIsUnused
<1>3. LifecycleTypeOK'
  <2>1. work' \in [Work -> {"pending", "running", "done"} \cup Targets]
    BY DEF FailUnclaimedRun, LifecycleTypeOK, Targets
  <2>2. 0 \in 0..MaxRequests
    BY LifecycleAssumption
  <2>3. terminalEvents' \subseteq
           [status : Targets \cup {"completed"}, request : 0..MaxRequests]
    BY <2>2 DEF FailUnclaimedRun, WithEvent, LifecycleTypeOK, Targets
  <2>4. QED
    BY <1>1, <2>1, <2>3 DEF LifecycleTypeOK, RunStates, Targets
<1>4. OwnerKeepsRun' /\ DrainProofHolds'
    BY <1>1, <1>2 DEF OwnerKeepsRun, DrainProofHolds, NoCompletionOwner, Owned
<1>5. TerminalRunIsQuiet'
    BY <1>1, <1>2 DEF TerminalRunIsQuiet, OpenTermination, ActiveAttempt
<1>6. StatusFollowsRequest'
    BY <1>1 DEF StatusFollowsRequest
<1>7. AbsentIsUnused'
    BY <1>1 DEF AbsentIsUnused
<1>8. QED
    BY <1>3, <1>4, <1>5, <1>6, <1>7

LEMMA ResumeKeeps ==
    ASSUME LifecycleInv, Resume
    PROVE  LifecycleInv'
<1> USE DEF LifecycleInv, Resume
<1>1. request.state \in {"none", "terminalized"}
    BY DEF OpenTermination
<1>2. LifecycleTypeOK'
  <2>1. work' \in [Work -> {"pending", "running", "done"} \cup Targets]
    BY DEF LifecycleTypeOK
  <2>2. QED
    BY <2>1 DEF LifecycleTypeOK, RunStates
<1>3. OwnerKeepsRun' /\ DrainProofHolds'
    BY <1>1 DEF OwnerKeepsRun, DrainProofHolds
<1>4. TerminalRunIsQuiet' /\ StatusFollowsRequest'
    BY <1>1 DEF TerminalRunIsQuiet, StatusFollowsRequest, Targets
<1>5. AbsentIsUnused'
    BY DEF AbsentIsUnused
<1>6. QED
    BY <1>2, <1>3, <1>4, <1>5

-----------------------------------------------------------------------------
(* The invariant *)

LEMMA InitInv == LifecycleInit => LifecycleInv
<1> SUFFICES ASSUME LifecycleInit PROVE LifecycleInv
    OBVIOUS
<1> USE LifecycleAssumption DEF LifecycleInit
<1>1. NoCompletion \in Completions
    BY DEF NoCompletion, Completions
<1>2. request \in Requests
    BY DEF Requests, Targets
<1>3. LifecycleTypeOK
    BY <1>1, <1>2 DEF LifecycleTypeOK, RunStates, SessionStates, Startable
<1>4. \A c \in Claims : completion[c].state = "none"
    BY DEF NoCompletion
<1>5. OwnerKeepsRun /\ DrainProofHolds /\ TerminalRunIsQuiet /\ StatusFollowsRequest
    BY DEF OwnerKeepsRun, DrainProofHolds, TerminalRunIsQuiet, StatusFollowsRequest, Targets
<1>6. AbsentIsUnused
    BY <1>4 DEF AbsentIsUnused
<1>7. QED
    BY <1>3, <1>5, <1>6 DEF LifecycleInv

LEMMA NextKeeps ==
    ASSUME LifecycleInv, LifecycleNext
    PROVE  LifecycleInv'
<1>1. CASE RunStep
    BY <1>1, RequestTerminationKeeps, ClaimTerminationKeeps, RequestStepKeeps,
       TerminalizeKeeps, CompleteRunKeeps, FailUnclaimedRunKeeps, ResumeKeeps
    DEF RunStep
<1>2. ASSUME NEW c \in Claims, ClaimStep(c)
      PROVE  LifecycleInv'
    BY <1>2, PublishClaimKeeps, BindAttemptKeeps, StartKeeps, SessionStepKeeps,
       CloseClaimKeeps
    DEF ClaimStep
<1>3. ASSUME NEW c \in Claims, CompletionStep(c)
      PROVE  LifecycleInv'
    BY <1>3, RequestCompletionKeeps, CompletionRowKeeps, OwnerCommitKeeps,
       AcceptKeeps, GiveUpKeeps, RecoverKeeps
    DEF CompletionStep
<1>4. QED
    BY <1>1, <1>2, <1>3 DEF LifecycleNext

LEMMA StutterKeeps ==
    ASSUME LifecycleInv, UNCHANGED lifecycleVars
    PROVE  LifecycleInv'
<1> USE DEF LifecycleInv, lifecycleVars
<1>1. LifecycleTypeOK'
    BY DEF LifecycleTypeOK
<1>2. OwnerKeepsRun' /\ DrainProofHolds'
    BY DEF OwnerKeepsRun, DrainProofHolds, NoCompletionOwner, Owned, ClaimsTracked
<1>3. TerminalRunIsQuiet' /\ StatusFollowsRequest'
    BY DEF TerminalRunIsQuiet, StatusFollowsRequest, OpenTermination, ActiveAttempt
<1>4. AbsentIsUnused'
    BY DEF AbsentIsUnused
<1>5. QED
    BY <1>1, <1>2, <1>3, <1>4

\* The inductive invariant holds in every reachable state of every instance.
THEOREM LifecycleInvariant == LifecycleSpec => []LifecycleInv
<1>1. LifecycleInv /\ [LifecycleNext]_lifecycleVars => LifecycleInv'
    BY NextKeeps, StutterKeeps
<1>2. QED
    BY InitInv, <1>1, PTL DEF LifecycleSpec

\* Every variable keeps its type: in particular no completion is owned more
\* than owner_attempt_count may say.
THEOREM LifecycleTypeCorrect == LifecycleSpec => []LifecycleTypeOK
<1>1. LifecycleInv => LifecycleTypeOK
    BY DEF LifecycleInv
<1>2. QED
    BY LifecycleInvariant, <1>1, PTL

\* A drained request is the proof that nothing of the run works any more, from
\* markDrained until the terminal transition, however many claims there are.
THEOREM DrainProof == LifecycleSpec => []DrainProofHolds
<1>1. LifecycleInv => DrainProofHolds
    BY DEF LifecycleInv
<1>2. QED
    BY LifecycleInvariant, <1>1, PTL

\* No termination takes the run away from a completion somebody owns.
THEOREM OwnerNeverOvertaken == LifecycleSpec => []OwnerKeepsRun
<1>1. LifecycleInv => OwnerKeepsRun
    BY DEF LifecycleInv
<1>2. QED
    BY LifecycleInvariant, <1>1, PTL

\* A run that ended leaves no claim, attempt or termination open, and a failed
\* or cancelled one no runtime and no proposal.
THEOREM TerminalQuiet == LifecycleSpec => []TerminalRunIsQuiet
<1>1. LifecycleInv => TerminalRunIsQuiet
    BY DEF LifecycleInv
<1>2. QED
    BY LifecycleInvariant, <1>1, PTL

-----------------------------------------------------------------------------
(* Receipts and runtimes *)

\* What one step may do to a completion: it is proposed, gets its first owner,
\* is preempted before its commit or given up; it starts, commits, applies its
\* effects, records them, is accepted; or it stays what it was.
RowMoves(c) ==
    LET old == completion[c]
        new == completion'[c]
    IN  \/ new.phase = old.phase /\ new.effects = old.effects
           /\ \/ new.state = old.state \/ new.state = "quarantined"
              \/ old.state = "none" /\ new.state = "requested"
              \/ old.state = "requested" /\ new.state = "draining" /\ ~OpenTermination
              \/ /\ new.state = "rejected"
                 /\ \/ old.state \in {"requested", "draining"}
                    \/ old.state = "processing" /\ old.phase = "executing"
        \/ old.state = "draining" /\ new.state = "processing"
           /\ new.phase = "executing" /\ new.effects = old.effects
        \/ old.state = "processing" /\ new.state = "processing"
           /\ \/ old.phase = "executing" /\ new.phase = "owner_committed"
              \/ old.phase = "owner_committed" /\ new.phase = "owner_committed"
              \/ old.phase = "owner_committed" /\ new.phase = "effects_committed"
                 /\ old.effects = "applied" /\ new.effects = "applied"
        \/ old.state = "processing" /\ new.state = "accepted"
           /\ old.phase = "effects_committed" /\ new.phase = "effects_committed"
           /\ new.effects = old.effects
           /\ claim'[c] = "closed" /\ ~ActiveAttempt(c)' /\ session'[c] = "released"

\* What it may do to a claim, its attempt and its runtime.
OwnersMove(c) ==
    /\ claim[c] = "closed" => claim'[c] = "closed"
    /\ claim[c] = "closed" /\ ~ActiveAttempt(c) => ~ActiveAttempt(c)'
    /\ session[c] = "released" => session'[c] = "released"
    /\ session[c] = "none" =>
          session'[c] = "none" \/ \E managed \in BOOLEAN : PublishClaim(c, managed)
    /\ ~Unchallenged =>
          /\ claim'[c] = "open" => claim[c] = "open"
          /\ session'[c] \in Startable => session'[c] = session[c]

LEMMA KeptRowMoves ==
    ASSUME NEW c \in Claims, completion'[c] = completion[c]
    PROVE  RowMoves(c)
BY DEF RowMoves

LEMMA KeptOwnersMove ==
    ASSUME NEW c \in Claims, claim'[c] = claim[c], attempt'[c] = attempt[c],
           session'[c] = session[c]
    PROVE  OwnersMove(c)
BY DEF OwnersMove, ActiveAttempt

LEMMA ClaimStepMoves ==
    ASSUME LifecycleInv, NEW c \in Claims, NEW d \in Claims, ClaimStep(d)
    PROVE  RowMoves(c) /\ OwnersMove(c)
<1>0. /\ LifecycleTypeOK
      /\ claim \in [Claims -> {"absent", "open", "closed"}]
      /\ attempt \in [Claims -> {"none", "claimed", "running", "closed"}]
      /\ session \in [Claims -> SessionStates]
      /\ claim[c] = "absent" => session[c] = "none"
    BY DEF LifecycleInv, LifecycleTypeOK, AbsentIsUnused
<1>1. completion' = completion
    BY DEF ClaimStep, PublishClaim, BindAttempt, MarkStarting, MarkRunning, RequestDrain,
           MarkSessionDrained, QuarantineSession, RecoverQuarantinedForTermination,
           ReleaseSession, SessionMoves, CloseClaim
<1>2. ASSUME NEW managed \in BOOLEAN, PublishClaim(d, managed)
      PROVE  OwnersMove(c)
  <2>1. /\ Unchallenged /\ claim[d] = "absent" /\ attempt'[c] = attempt[c]
        /\ c # d => claim'[c] = claim[c] /\ session'[c] = session[c]
        /\ session'[d] \in {"reserved", session[d]}
        /\ \A e \in Claims : WorkOf[e] = WorkOf[d] => session[e] \in {"none", "released"}
    BY <1>0, <1>2 DEF PublishClaim
  <2>2. CASE c # d
    BY <2>1, <2>2, KeptOwnersMove
  <2>3. CASE c = d
    <3>1. session[c] = "released" => session'[c] = "released"
      BY <1>0, <2>1, <2>3
    <3>2. QED
      BY <1>2, <2>1, <2>3, <3>1 DEF OwnersMove
  <2>4. QED
    BY <2>2, <2>3
<1>3. ASSUME BindAttempt(d) PROVE OwnersMove(c)
  <2>1. /\ claim'[c] = claim[c] /\ session'[c] = session[c]
        /\ c # d => attempt'[c] = attempt[c]
        /\ claim[d] = "open"
    BY <1>0, <1>3 DEF BindAttempt
  <2>2. QED
    BY <2>1 DEF OwnersMove, ActiveAttempt
<1>4. ASSUME MarkStarting(d) \/ MarkRunning(d) PROVE OwnersMove(c)
  <2>1. /\ claim'[c] = claim[c] /\ (ActiveAttempt(c)' <=> ActiveAttempt(c)) /\ Unchallenged
        /\ c # d => session'[c] = session[c]
        /\ session[d] \in {"reserved", "starting"} /\ session'[d] \in {"starting", "running"}
    BY <1>0, <1>4 DEF MarkStarting, MarkRunning, ActiveAttempt
  <2>2. QED
    BY <2>1 DEF OwnersMove, ActiveAttempt
<1>5. ASSUME \/ RequestDrain(d) \/ MarkSessionDrained(d) \/ QuarantineSession(d)
             \/ RecoverQuarantinedForTermination(d) \/ ReleaseSession(d)
      PROVE  OwnersMove(c)
  <2>1. /\ claim'[c] = claim[c] /\ attempt'[c] = attempt[c]
        /\ c # d => session'[c] = session[c]
        /\ session[d] \notin {"none", "released"} /\ session'[d] \notin Startable
    BY <1>0, <1>5 DEF RequestDrain, MarkSessionDrained, QuarantineSession, ReleaseSession,
                RecoverQuarantinedForTermination, SessionMoves, Startable
  <2>2. QED
    BY <2>1 DEF OwnersMove, ActiveAttempt
<1>6. ASSUME NEW outcome \in {"pending", "done", "failed"}, CloseClaim(d, outcome)
      PROVE  OwnersMove(c)
    BY <1>0, <1>6, ClosedAttemptIsOver DEF CloseClaim, CloseOwners, OwnersMove, ActiveAttempt
<1>7. QED
    BY <1>1, <1>2, <1>3, <1>4, <1>5, <1>6, KeptRowMoves DEF ClaimStep

\* A change of one row leaves the owners alone and the other rows.
LEMMA RowChanges ==
    ASSUME LifecycleTypeOK, NEW c \in Claims, NEW d \in Claims, NEW row, Completes(d, row),
           c = d => LET old == completion[c]
                    IN  \/ row.phase = old.phase /\ row.effects = old.effects
                           /\ \/ row.state = old.state \/ row.state = "quarantined"
                              \/ old.state = "requested" /\ row.state = "draining"
                                 /\ ~OpenTermination
                              \/ /\ row.state = "rejected"
                                 /\ \/ old.state \in {"requested", "draining"}
                                    \/ old.state = "processing" /\ old.phase = "executing"
                        \/ old.state = "draining" /\ row.state = "processing"
                           /\ row.phase = "executing" /\ row.effects = old.effects
                        \/ old.state = "processing" /\ row.state = "processing"
                           /\ old.phase = "owner_committed"
                           /\ \/ row.phase = "owner_committed"
                              \/ row.phase = "effects_committed"
                                 /\ old.effects = "applied" /\ row.effects = "applied"
    PROVE  RowMoves(c) /\ OwnersMove(c)
<1>1. OwnersMove(c)
    BY KeptOwnersMove DEF Completes
<1>2. completion'[c] = IF c = d THEN row ELSE completion[c]
    BY DEF Completes, LifecycleTypeOK
<1>3. QED
    BY <1>1, <1>2 DEF RowMoves

LEMMA CompletionStepMoves ==
    ASSUME LifecycleTypeOK, NEW c \in Claims, NEW d \in Claims, CompletionStep(d)
    PROVE  RowMoves(c) /\ OwnersMove(c)
<1>0. completion[d] \in Completions /\ completion[c] \in Completions
    BY DEF LifecycleTypeOK
<1>1. CASE RequestCompletion(d)
  <2>1. OwnersMove(c)
    BY <1>1 DEF RequestCompletion, OwnersMove, ActiveAttempt, LifecycleTypeOK, Startable
  <2>2. RowMoves(c)
    BY <1>0, <1>1 DEF RequestCompletion, RowMoves, LifecycleTypeOK, Completions
  <2>3. QED
    BY <2>1, <2>2
<1>2. CASE ClaimCompletion(d)
  <2> DEFINE row == [completion[d] EXCEPT !.state = "draining", !.live = TRUE]
  <2>1. /\ row.state = "draining" /\ row.phase = completion[d].phase
        /\ row.effects = completion[d].effects
    BY <1>0 DEF Completions
  <2>2. Completes(d, row)
        /\ (completion[d].state = "draining"
            \/ (completion[d].state = "requested" /\ ~OpenTermination))
    BY <1>2 DEF ClaimCompletion
  <2> HIDE DEF row
  <2>3. QED
    BY <2>1, <2>2, RowChanges
<1>3. CASE MarkProcessing(d)
  <2> DEFINE row == [completion[d] EXCEPT !.state = "processing", !.phase = "executing",
                                          !.tries = @ + 1]
  <2>1. /\ row.state = "processing" /\ row.phase = "executing"
        /\ row.effects = completion[d].effects
    BY <1>0 DEF Completions
  <2>2. Completes(d, row) /\ completion[d].state = "draining"
    BY <1>3 DEF MarkProcessing
  <2> HIDE DEF row
  <2>3. QED
    BY <2>1, <2>2, RowChanges
<1>4. ASSUME NEW outcome \in {"pending", "done", "failed"}, OwnerCommit(d, outcome)
      PROVE  RowMoves(c) /\ OwnersMove(c)
  <2>1. OwnersMove(c)
    BY <1>4, ClosedAttemptIsOver
    DEF OwnerCommit, CloseOwners, OwnersMove, ActiveAttempt, LifecycleTypeOK
  <2>2. /\ c # d => completion'[c] = completion[c]
        /\ completion'[d].state = completion[d].state
        /\ completion'[d].phase = "owner_committed"
    BY <1>0, <1>4 DEF OwnerCommit, LifecycleTypeOK, Completions
  <2>3. RowMoves(c)
    BY <1>4, <2>2, KeptRowMoves DEF OwnerCommit, Processing, RowMoves
  <2>4. QED
    BY <2>1, <2>3
<1>5. CASE ApplyEffects(d)
  <2> DEFINE row == [completion[d] EXCEPT !.effects = "applied"]
  <2>1. row.state = completion[d].state /\ row.phase = completion[d].phase
    BY <1>0 DEF Completions
  <2>2. /\ Completes(d, row) /\ completion[d].state = "processing"
        /\ completion[d].phase = "owner_committed"
    BY <1>5 DEF ApplyEffects, Processing
  <2> HIDE DEF row
  <2>3. QED
    BY <2>1, <2>2, RowChanges
<1>6. CASE MarkEffectsCommitted(d)
  <2> DEFINE row == [completion[d] EXCEPT !.phase = "effects_committed"]
  <2>1. /\ row.state = completion[d].state /\ row.phase = "effects_committed"
        /\ row.effects = completion[d].effects
    BY <1>0 DEF Completions
  <2>2. /\ Completes(d, row) /\ completion[d].state = "processing"
        /\ completion[d].phase = "owner_committed" /\ completion[d].effects = "applied"
    BY <1>6 DEF MarkEffectsCommitted, Processing
  <2> HIDE DEF row
  <2>3. QED
    BY <2>1, <2>2, RowChanges
<1>7. CASE AcceptAndRelease(d)
  <2>1. OwnersMove(c)
    BY <1>7 DEF AcceptAndRelease, OwnersMove, ActiveAttempt, LifecycleTypeOK, Startable
  <2>2. /\ c # d => completion'[c] = completion[c]
        /\ completion'[d].state = "accepted" /\ completion'[d].phase = completion[d].phase
        /\ completion'[d].effects = completion[d].effects
        /\ session'[d] = "released" /\ claim'[d] = "closed" /\ ~ActiveAttempt(d)'
    BY <1>0, <1>7 DEF AcceptAndRelease, LifecycleTypeOK, Completions, ActiveAttempt
  <2>3. RowMoves(c)
    BY <1>7, <2>2, KeptRowMoves DEF AcceptAndRelease, Processing, RowMoves
  <2>4. QED
    BY <2>1, <2>3
<1>8. CASE ExpireCompletionLease(d)
  <2> DEFINE row == [completion[d] EXCEPT !.live = FALSE]
  <2>1. /\ row.state = completion[d].state /\ row.phase = completion[d].phase
        /\ row.effects = completion[d].effects
    BY <1>0 DEF Completions
  <2>2. Completes(d, row)
    BY <1>8 DEF ExpireCompletionLease
  <2> HIDE DEF row
  <2>3. QED
    BY <2>1, <2>2, RowChanges
<1>9. /\ Rejected(d).state = "rejected" /\ GivenUp(d).state = "quarantined"
      /\ \A row \in {Rejected(d), Reclaimed(d), GivenUp(d)} :
            row.phase = completion[d].phase /\ row.effects = completion[d].effects
      /\ Reclaimed(d).state = completion[d].state
    BY <1>0 DEF Rejected, Reclaimed, GivenUp, Completions
<1>10. CASE RecoverExpiredProcessing(d)
  <2> DEFINE again == [Reclaimed(d) EXCEPT !.tries = @ + 1]
  <2>1. /\ again.state = completion[d].state /\ again.phase = completion[d].phase
        /\ again.effects = completion[d].effects
    BY <1>0 DEF Reclaimed, Completions
  <2>2. /\ completion[d].state = "processing"
        /\ \/ Completes(d, Rejected(d)) /\ completion[d].phase = "executing"
           \/ \E row \in {again, Reclaimed(d), GivenUp(d)} : Completes(d, row)
    BY <1>10 DEF RecoverExpiredProcessing, ExpiredPreemptible
  <2> HIDE DEF again
  <2>3. QED
    BY <1>9, <2>1, <2>2, RowChanges
<1>11. CASE PreemptForTermination(d)
    BY <1>9, <1>11, RowChanges DEF PreemptForTermination
<1>12. CASE GiveUpCompletion(d)
    BY <1>9, <1>12, RowChanges DEF GiveUpCompletion
<1>13. QED
    BY <1>1, <1>2, <1>3, <1>4, <1>5, <1>6, <1>7, <1>8, <1>10, <1>11, <1>12
    DEF CompletionStep

LEMMA RunStepMoves ==
    ASSUME LifecycleTypeOK, NEW c \in Claims, RunStep \/ UNCHANGED lifecycleVars
    PROVE  RowMoves(c) /\ OwnersMove(c)
<1>0. completion[c] \in Completions /\ session[c] \in SessionStates
    BY DEF LifecycleTypeOK
<1>1. CASE ~(ClaimTermination \/ Terminalize \/ CompleteRun)
    BY <1>1, KeptRowMoves, KeptOwnersMove
    DEF RunStep, RequestTermination, ExpireTerminationLease, MarkTerminationDrained,
        QuarantineTermination, RequestMoves, FailUnclaimedRun, Resume, lifecycleVars
<1>2. CASE ClaimTermination \/ CompleteRun
    BY <1>2, KeptRowMoves DEF ClaimTermination, CompleteRun, OwnersMove, ActiveAttempt, Startable
<1>3. CASE Terminalize
  <2>1. /\ session'[c] = IF session[c] = "drained" THEN "released" ELSE session[c]
        /\ claim'[c] = IF claim[c] = "open" THEN "closed" ELSE claim[c]
        /\ attempt'[c] \in {"none", "closed"}
        /\ completion'[c] = IF completion[c].state \in {"requested", "draining"}
                            THEN Rejected(c) ELSE completion[c]
    BY <1>3, ClosedAttemptIsOver DEF Terminalize
  <2>2. OwnersMove(c)
    BY <2>1 DEF OwnersMove, ActiveAttempt, Startable
  <2>3. /\ Rejected(c).state = "rejected" /\ Rejected(c).phase = completion[c].phase
        /\ Rejected(c).effects = completion[c].effects
    BY <1>0 DEF Rejected, Completions
  <2>4. RowMoves(c)
    BY <2>1, <2>3, KeptRowMoves DEF RowMoves
  <2>5. QED
    BY <2>2, <2>4
<1>4. QED
    BY <1>1, <1>2, <1>3

LEMMA StepMoves ==
    ASSUME LifecycleInv, [LifecycleNext]_lifecycleVars, NEW c \in Claims
    PROVE  RowMoves(c) /\ OwnersMove(c)
BY ClaimStepMoves, CompletionStepMoves, RunStepMoves DEF LifecycleInv, LifecycleNext

\* What a completion's row says of its past: before it is started nothing is
\* committed, a rejected one never was, and effects are recorded when applied.
ReceiptsInOrder ==
    \A c \in Claims :
        /\ completion[c].state \in {"none", "requested", "draining"} =>
              completion[c].phase = "proposed"
        /\ completion[c].state = "rejected" => completion[c].phase \notin Committed
        /\ completion[c].phase = "effects_committed" => completion[c].effects = "applied"
        /\ completion[c].state = "accepted" => completion[c].phase = "effects_committed"

ReceiptInv ==
    /\ LifecycleInv
    /\ ReceiptsInOrder
    /\ AcceptedIsWholeTruth
    /\ OneRuntimePerWork

LEMMA ReceiptInvInit == LifecycleInit => ReceiptInv
<1> SUFFICES ASSUME LifecycleInit PROVE ReceiptInv
    OBVIOUS
<1>1. LifecycleInv
    BY InitInv
<1>2. ReceiptsInOrder /\ AcceptedIsWholeTruth /\ OneRuntimePerWork
    BY DEF LifecycleInit, NoCompletion, Committed, ReceiptsInOrder, AcceptedIsWholeTruth,
           OneRuntimePerWork
<1>3. QED
    BY <1>1, <1>2 DEF ReceiptInv

LEMMA ReceiptInvStep ==
    ASSUME ReceiptInv, LifecycleInv', [LifecycleNext]_lifecycleVars
    PROVE  ReceiptInv'
<1> USE DEF ReceiptInv
<1>1. \A c \in Claims : RowMoves(c) /\ OwnersMove(c)
    BY StepMoves
<1>2. ReceiptsInOrder'
    BY <1>1 DEF RowMoves, ReceiptsInOrder, Committed
<1>3. AcceptedIsWholeTruth'
    BY <1>1 DEF RowMoves, OwnersMove, AcceptedIsWholeTruth, ReceiptsInOrder
<1>4. OneRuntimePerWork'
  <2> SUFFICES ASSUME NEW c \in Claims, NEW d \in Claims, c # d, WorkOf[c] = WorkOf[d],
                      session'[c] \notin {"none", "released"},
                      session'[d] \notin {"none", "released"}
               PROVE  FALSE
    BY DEF OneRuntimePerWork
  <2>1. ASSUME NEW e \in Claims, NEW f \in Claims, e # f, WorkOf[e] = WorkOf[f],
               session'[e] \notin {"none", "released"}, session'[f] \notin {"none", "released"},
               session[e] = "none"
        PROVE  FALSE
    <3>1. PICK managed \in BOOLEAN : PublishClaim(e, managed)
      BY <1>1, <2>1 DEF OwnersMove
    <3>2. session[f] \in {"none", "released"}
      BY <2>1, <3>1 DEF PublishClaim
    <3>3. session'[f] = session[f]
      BY <2>1, <3>1 DEF PublishClaim, LifecycleInv, LifecycleTypeOK
    <3>4. QED
      BY <2>1, <3>2, <3>3
  <2>2. session[c] \in {"none", "released"} \/ session[d] \in {"none", "released"}
    BY DEF OneRuntimePerWork
  <2>3. session[c] # "released" /\ session[d] # "released"
    BY <1>1 DEF OwnersMove
  <2>4. QED
    BY <2>1, <2>2, <2>3
<1>5. QED
    BY <1>2, <1>3, <1>4

\* What the completion rows say is true, and one runtime works on a step or story.
THEOREM ReceiptInvariant == LifecycleSpec => []ReceiptInv
<1>1. ReceiptInv /\ LifecycleInv' /\ [LifecycleNext]_lifecycleVars => ReceiptInv'
    BY ReceiptInvStep
<1>2. QED
    BY <1>1, ReceiptInvInit, LifecycleInvariant, PTL DEF LifecycleSpec

\* An accepted completion has its effects applied, its claim and attempt over
\* and its runtime released, whatever happened in between.
THEOREM AcceptedIsTrue == LifecycleSpec => []AcceptedIsWholeTruth
<1>1. ReceiptInv => AcceptedIsWholeTruth
    BY DEF ReceiptInv
<1>2. QED
    BY ReceiptInvariant, <1>1, PTL

\* No two claims of a step or story have a runtime at the same time.
THEOREM OneRuntime == LifecycleSpec => []OneRuntimePerWork
<1>1. ReceiptInv => OneRuntimePerWork
    BY DEF ReceiptInv
<1>2. QED
    BY ReceiptInvariant, <1>1, PTL

\* What an owner has committed is never rejected afterwards.
THEOREM ReceiptsStay == LifecycleSpec => ReceiptNotRevoked
<1>1. ReceiptInv /\ [LifecycleNext]_lifecycleVars =>
         \A c \in Claims : completion[c].phase \in Committed =>
            /\ completion'[c].phase \in Committed
            /\ completion'[c].state # "rejected"
    BY StepMoves DEF ReceiptInv, ReceiptsInOrder, RowMoves, Committed
<1>2. QED
    BY <1>1, ReceiptInvariant, PTL DEF LifecycleSpec, ReceiptNotRevoked

\* While a termination is open no claim appears, no runtime starts and no
\* completion gets an owner that had none.
THEOREM NothingStarts == LifecycleSpec => NothingStartsUnderTermination
<1>1. ReceiptInv /\ [LifecycleNext]_lifecycleVars =>
        (OpenTermination => \A c \in Claims :
            /\ claim'[c] = "open" => claim[c] = "open"
            /\ session'[c] \in Startable => session'[c] = session[c]
            /\ completion[c].state \in {"none", "requested"} =>
                  completion'[c].state # "draining")
  <2> SUFFICES ASSUME ReceiptInv, [LifecycleNext]_lifecycleVars, OpenTermination,
                      NEW c \in Claims
               PROVE  /\ claim'[c] = "open" => claim[c] = "open"
                      /\ session'[c] \in Startable => session'[c] = session[c]
                      /\ completion[c].state \in {"none", "requested"} =>
                            completion'[c].state # "draining"
    OBVIOUS
  <2>1. RowMoves(c) /\ OwnersMove(c)
    BY StepMoves DEF ReceiptInv
  <2>2. QED
    BY <2>1 DEF RowMoves, OwnersMove, Unchallenged
<1>2. QED
    BY <1>1, ReceiptInvariant, PTL DEF LifecycleSpec, NothingStartsUnderTermination
=============================================================================
