-------------------------- MODULE RecoveryDelivery --------------------------
(***************************************************************************)
(* The recovery of one story of a v3 run: its recovery case, the delivery  *)
(* of each revision, the claims, runtime sessions, attempts, completions   *)
(* and child processes published for it, the spawner instances that own    *)
(* them, the coordinator, the lifecycle reconciler and the run's end.      *)
(*                                                                         *)
(* Every call is one transaction under the story's advisory lock, hence    *)
(* one action; an instance keeps in memory only what the handoff of a call *)
(* gave it for the next one, and may die between any two.  A restarted     *)
(* spawner is another instance.  A lease token is the number of the        *)
(* acquisition that drew it.  A lease is kept as `live': passing the       *)
(* expiry is an action, a heartbeat is that action not happening.          *)
(*                                                                         *)
(* A publication is a claim with its session, attempt and completion; a    *)
(* revision has at most one dispatch.  The packet, slice, source and       *)
(* evidence identities, which nobody here changes, are left out.  The      *)
(* reconciler's advance of a delivery that lags behind its runtime is left *)
(* out too: runtime, attempt and delivery start to run in one transaction. *)
(***************************************************************************)
EXTENDS Naturals, FiniteSets

CONSTANTS
    Instances,        \* spawner instances; a crashed one does not come back
    MaxRevisions,     \* bound on the revisions of the case
    MaxLeases,        \* bound on the leases taken on one delivery
    MaxPublications,  \* bound on the claims published for the story
    Nobody            \* no owner

Classes == {"product_implementation", "supervisor_repair", "evidence_only"}

ASSUME RecoveryAssumption ==
    /\ MaxRevisions \in Nat \ {0}
    /\ MaxLeases \in Nat \ {0}
    /\ MaxPublications \in Nat \ {0}
    /\ Nobody \notin Instances

Revisions == 1..MaxRevisions
Pubs == 1..MaxPublications

VARIABLES
    run,           \* active, terminating (a request is pending) or its end
    story,         \* failed, running (and the step's current story), or done
    recoveryCase,  \* status and current revision of the recovery case
    delivery,      \* recovery_dispatch_deliveries by revision
    pub,           \* claim, session, attempt, completion and child process
    worker,        \* what each instance remembers of the work it holds
    coordinator    \* the decision a coordinate call has yet to carry out

recoveryVars == <<run, story, recoveryCase, delivery, pub, worker, coordinator>>

Ends == {"completed", "failed", "cancelled"}
Unbound == {"authorized", "leased"}
Bound == {"attempt_reserved", "running"}
TerminalStates == {"succeeded", "failed", "blocked", "superseded"}
TerminalCases == {"resolved", "blocked", "superseded"}
Verdicts == {"verified", "failed", "refused"}

Deliveries == [class : Classes,
               state : {"none"} \cup Unbound \cup Bound \cup TerminalStates,
               owner : Instances \cup {Nobody}, lease : 0..MaxLeases,
               live : BOOLEAN, pub : 0..MaxPublications]

NoDelivery == [class |-> "evidence_only", state |-> "none", owner |-> Nobody,
               lease |-> 0, live |-> FALSE, pub |-> 0]

Publications == [rev : 0..MaxRevisions, owner : Instances \cup {Nobody},
                 claim : {"absent", "open", "closed"},
                 session : {"none", "reserved", "starting", "running",
                            "drain_requested", "drained", "quarantined", "released"},
                 bound : BOOLEAN,
                 attempt : {"none", "claimed", "running", "inconclusive"} \cup Verdicts,
                 live : BOOLEAN,
                 completion : {"none", "open", "committed", "done"},
                 child : {"none", "alive", "gone"}]

NoPublication == [rev |-> 0, owner |-> Nobody, claim |-> "absent", session |-> "none",
                  bound |-> FALSE, attempt |-> "none", live |-> FALSE,
                  completion |-> "none", child |-> "none"]

Workers == [pc : {"idle", "discovered", "leased", "published", "reserved", "bound",
                  "starting", "spawned", "running", "losing",
                  "evidence_leased", "evidence_reserved", "evidence_running",
                  "evidence_judged", "dead"},
            rev : 0..MaxRevisions, lease : 0..MaxLeases, pub : 0..MaxPublications]

Idle == [pc |-> "idle", rev |-> 0, lease |-> 0, pub |-> 0]

\* The case was opened with its first revision; the failed attempt that caused
\* it has ended and its runtime is released.
RecoveryInit ==
    /\ run = "active"
    /\ story = "failed"
    /\ recoveryCase = [status |-> "open", rev |-> 1]
    /\ delivery = [r \in Revisions |-> NoDelivery]
    /\ pub = [c \in Pubs |-> NoPublication]
    /\ worker = [i \in Instances |-> Idle]
    /\ coordinator = "initial"

-----------------------------------------------------------------------------
(* What the transactions test *)

Rev == recoveryCase.rev

Current == delivery[Rev]

CaseActive == recoveryCase.status \notin TerminalCases

IsActive(r) == delivery[r].state \in Unbound \cup Bound

ActiveAttempt(c) == pub[c].attempt \in {"claimed", "running"}

Unreleased(c) == pub[c].session \notin {"none", "released"}

\* The story has no claim, runtime or attempt of anybody.
StoryFree ==
    \A c \in Pubs : pub[c].claim # "open" /\ ~Unreleased(c) /\ ~ActiveAttempt(c)

\* The instance still holds the lease it remembers, whatever it does with it.
HoldsLease(i, r) ==
    /\ delivery[r].owner = i
    /\ delivery[r].lease = worker[i].lease
    /\ delivery[r].live

\* ... and the attempt that was reserved under it, with a lease of its own.
HoldsAttempt(i) ==
    LET c == worker[i].pub
        r == worker[i].rev
    IN  /\ delivery[r].state \in Bound
        /\ delivery[r].pub = c
        /\ HoldsLease(i, r)
        /\ ActiveAttempt(c)
        /\ pub[c].live

\* Both leases of a bound owner, read by the agent's own calls.
BothLive(c) == delivery[pub[c].rev].live /\ pub[c].live

Remember(i, row) == worker' = [worker EXCEPT ![i] = row]

Forget(i) == Remember(i, Idle)

PubMoves(c, row) == pub' = [pub EXCEPT ![c] = row]

DeliveryMoves(r, row) == delivery' = [delivery EXCEPT ![r] = row]

-----------------------------------------------------------------------------
(* A spawner instance takes a model dispatch and publishes its work *)

\* The router looks for a story to recover, in a read of its own.
Discover(i) ==
    /\ worker[i].pc = "idle"
    /\ run = "active"
    /\ CaseActive
    /\ story = "failed"
    /\ Current.class # "evidence_only"
    /\ Current.state = "authorized" \/ (Current.state = "leased" /\ ~Current.live)
    /\ Remember(i, [Idle EXCEPT !.pc = "discovered"])
    /\ UNCHANGED <<run, story, recoveryCase, delivery, pub, coordinator>>

\* The lease may be taken: nobody has it, or its owner let it expire.
Acquirable == Current.state = "authorized" \/ (Current.state = "leased" /\ ~Current.live)

\* Mutant: a lease is taken from an owner that still holds it.
AcquireHeld(i) ==
    /\ worker[i].pc = "discovered"
    /\ run = "active"
    /\ CaseActive
    /\ Current.class # "evidence_only"
    /\ Current.state \in Unbound \cup Bound
    /\ Current.lease < MaxLeases
    /\ DeliveryMoves(Rev, [Current EXCEPT !.state = "leased", !.owner = i,
                              !.lease = @ + 1, !.live = TRUE])
    /\ Remember(i, [pc |-> "leased", rev |-> Rev, lease |-> Current.lease + 1, pub |-> 0])
    /\ UNCHANGED <<run, story, recoveryCase, pub, coordinator>>

\* The claim authority gives the lease with a new token.  It looks at the run,
\* the case and the delivery, not at the story.
Acquire(i) ==
    /\ worker[i].pc = "discovered"
    /\ run = "active"
    /\ CaseActive
    /\ Current.class # "evidence_only"
    /\ Acquirable
    /\ Current.lease < MaxLeases
    /\ DeliveryMoves(Rev, [Current EXCEPT !.state = "leased", !.owner = i,
                              !.lease = @ + 1, !.live = TRUE])
    /\ Remember(i, [pc |-> "leased", rev |-> Rev, lease |-> Current.lease + 1, pub |-> 0])
    /\ UNCHANGED <<run, story, recoveryCase, pub, coordinator>>

\* The lease is refused, or the routed work is no longer what was discovered:
\* the call throws and leaves what it took to the reconciler.
LoseRoute(i) ==
    /\ \/ worker[i].pc = "discovered"
          /\ ~(run = "active" /\ CaseActive /\ Current.class # "evidence_only" /\ Acquirable)
       \/ worker[i].pc = "leased"
          /\ ~(run = "active" /\ story = "failed" /\ HoldsLease(i, worker[i].rev))
    /\ Forget(i)
    /\ UNCHANGED <<run, story, recoveryCase, delivery, pub, coordinator>>

FreshPub == CHOOSE c \in Pubs : /\ pub[c].claim = "absent"
                                /\ \A d \in Pubs : d < c => pub[d].claim # "absent"

HasFreshPub == \E c \in Pubs : pub[c].claim = "absent"

\* Claim, reserved session and running story in one transaction.
Publish(i) ==
    /\ worker[i].pc = "leased"
    /\ run = "active"
    /\ CaseActive
    /\ story = "failed"
    /\ delivery[worker[i].rev].state = "leased"
    /\ HoldsLease(i, worker[i].rev)
    /\ StoryFree
    /\ HasFreshPub
    /\ story' = "running"
    /\ PubMoves(FreshPub, [NoPublication EXCEPT !.rev = worker[i].rev, !.owner = i,
                              !.claim = "open", !.session = "reserved"])
    /\ Remember(i, [worker[i] EXCEPT !.pc = "published", !.pub = FreshPub])
    /\ UNCHANGED <<run, recoveryCase, delivery, coordinator>>

\* Mutant: an expired lease still reserves the attempt.
MayReserveExpired(i) == delivery[worker[i].rev].state = "leased"

MayReserve(i) ==
    /\ delivery[worker[i].rev].state = "leased"
    /\ HoldsLease(i, worker[i].rev)
    /\ \A c \in Pubs : ~ActiveAttempt(c)

\* The attempt is reserved under the lease and bound to the delivery.
ReserveAttempt(i) ==
    LET c == worker[i].pub
        r == worker[i].rev
    IN  /\ worker[i].pc = "published"
        /\ MayReserve(i)
        /\ PubMoves(c, [pub[c] EXCEPT !.attempt = "claimed", !.live = TRUE])
        /\ DeliveryMoves(r, [delivery[r] EXCEPT !.state = "attempt_reserved", !.pub = c])
        /\ Remember(i, [worker[i] EXCEPT !.pc = "reserved"])
        /\ UNCHANGED <<run, story, recoveryCase, coordinator>>

MayBind(c) ==
    pub[c].session = "reserved" /\ ~pub[c].bound /\ ActiveAttempt(c)

\* The reserved session learns of the attempt in a transaction after that.
BindAttempt(i) ==
    LET c == worker[i].pub IN
    /\ worker[i].pc = "reserved"
    /\ MayBind(c)
    /\ PubMoves(c, [pub[c] EXCEPT !.bound = TRUE])
    /\ Remember(i, [worker[i] EXCEPT !.pc = "bound"])
    /\ UNCHANGED <<run, story, recoveryCase, delivery, coordinator>>

\* Claiming throws between its transactions: the fence is gone, or the exact
\* context of the recovery cannot be assembled.  The caller gets no claim to
\* release and nothing is undone.
FailClaiming(i) ==
    /\ \/ worker[i].pc = "published" /\ ~MayReserve(i)
       \/ worker[i].pc = "reserved"
    /\ Forget(i)
    /\ UNCHANGED <<run, story, recoveryCase, delivery, pub, coordinator>>

MayStart(i) ==
    /\ run = "active"
    /\ pub[worker[i].pub].session = "reserved"
    /\ HoldsAttempt(i)

MarkStarting(i) ==
    LET c == worker[i].pub IN
    /\ worker[i].pc = "bound"
    /\ MayStart(i)
    /\ PubMoves(c, [pub[c] EXCEPT !.session = "starting"])
    /\ Remember(i, [worker[i] EXCEPT !.pc = "starting"])
    /\ UNCHANGED <<run, story, recoveryCase, delivery, coordinator>>

\* A start that is refused gives up the session if it is still reserved.
FailStarting(i) ==
    LET c == worker[i].pub IN
    /\ worker[i].pc = "bound"
    /\ ~MayStart(i)
    /\ PubMoves(c, [pub[c] EXCEPT
                      !.session = IF @ = "reserved" THEN "quarantined" ELSE @])
    /\ Remember(i, [worker[i] EXCEPT !.pc = "losing"])
    /\ UNCHANGED <<run, story, recoveryCase, delivery, coordinator>>

\* The child process of the agent comes up.
Spawn(i) ==
    LET c == worker[i].pub IN
    /\ worker[i].pc = "starting"
    /\ PubMoves(c, [pub[c] EXCEPT !.child = "alive"])
    /\ Remember(i, [worker[i] EXCEPT !.pc = "spawned"])
    /\ UNCHANGED <<run, story, recoveryCase, delivery, coordinator>>

MayRun(i) ==
    /\ run = "active"
    /\ pub[worker[i].pub].session = "starting"
    /\ HoldsAttempt(i)

\* Runtime, attempt and delivery expose `running' together.
MarkRunning(i) ==
    LET c == worker[i].pub
        r == worker[i].rev
    IN  /\ worker[i].pc = "spawned"
        /\ MayRun(i)
        /\ PubMoves(c, [pub[c] EXCEPT !.session = "running", !.attempt = "running"])
        /\ DeliveryMoves(r, [delivery[r] EXCEPT !.state = "running"])
        /\ Remember(i, [worker[i] EXCEPT !.pc = "running"])
        /\ UNCHANGED <<run, story, recoveryCase, coordinator>>

\* Otherwise the child is killed: a drain won the race, or the start is given
\* up with its session.
FailRunning(i) ==
    LET c == worker[i].pub IN
    /\ worker[i].pc = "spawned"
    /\ ~MayRun(i)
    /\ PubMoves(c, [pub[c] EXCEPT
                      !.child = "gone",
                      !.session = IF @ = "starting" THEN "quarantined" ELSE @])
    /\ Remember(i, [worker[i] EXCEPT !.pc = "losing"])
    /\ UNCHANGED <<run, story, recoveryCase, delivery, coordinator>>

\* The owner gives its leases up, if they are still its own and no completion
\* or termination has the work; else there is nothing to give up.
Relinquish(i) ==
    LET c == worker[i].pub
        r == worker[i].rev
    IN  /\ worker[i].pc \in {"bound", "losing"}
        /\ IF /\ run = "active" /\ HoldsAttempt(i) /\ pub[c].bound
              /\ Unreleased(c) /\ pub[c].completion # "open"
           THEN /\ DeliveryMoves(r, [delivery[r] EXCEPT !.live = FALSE])
                /\ PubMoves(c, [pub[c] EXCEPT !.live = FALSE])
           ELSE UNCHANGED <<delivery, pub>>
        /\ Forget(i)
        /\ UNCHANGED <<run, story, recoveryCase, coordinator>>

\* The instance leaves a running agent to the heartbeats and exit handlers
\* below, which find it by its rows.
LetRun(i) ==
    /\ worker[i].pc = "running"
    /\ pub[worker[i].pub].session # "running"
    /\ Forget(i)
    /\ UNCHANGED <<run, story, recoveryCase, delivery, pub, coordinator>>

Crash(i) ==
    /\ worker[i].pc # "dead"
    /\ \E other \in Instances \ {i} : worker[other].pc # "dead"
    /\ Remember(i, [Idle EXCEPT !.pc = "dead"])
    /\ UNCHANGED <<run, story, recoveryCase, delivery, pub, coordinator>>

-----------------------------------------------------------------------------
(* The agent, its completion and the drain of its runtime *)

\* The child exits, by itself or signalled by a drain.
ChildExit(c) ==
    /\ pub[c].child = "alive"
    /\ PubMoves(c, [pub[c] EXCEPT !.child = "gone"])
    /\ UNCHANGED <<run, story, recoveryCase, delivery, worker, coordinator>>

\* The clock passes the expiry of a lease: no heartbeat came in time.  Of a run
\* that ends no lease is read any more.
ExpireDelivery(r) ==
    /\ run = "active"
    /\ IsActive(r) /\ delivery[r].live
    /\ DeliveryMoves(r, [delivery[r] EXCEPT !.live = FALSE])
    /\ UNCHANGED <<run, story, recoveryCase, pub, worker, coordinator>>

ExpireAttempt(c) ==
    /\ run = "active"
    /\ ActiveAttempt(c) /\ pub[c].live
    /\ PubMoves(c, [pub[c] EXCEPT !.live = FALSE])
    /\ UNCHANGED <<run, story, recoveryCase, delivery, worker, coordinator>>

\* The agent reports its result; from now on its runtime is to be drained.
RequestCompletion(c) ==
    /\ run = "active"
    /\ pub[c].child = "alive"
    /\ pub[c].session = "running"
    /\ pub[c].claim = "open"
    /\ pub[c].completion = "none"
    /\ BothLive(c)
    /\ PubMoves(c, [pub[c] EXCEPT !.completion = "open", !.session = "drain_requested"])
    /\ UNCHANGED <<run, story, recoveryCase, delivery, worker, coordinator>>

\* The exit handler, a lost heartbeat or a termination wants a runtime gone.
RequestDrain(c) ==
    /\ \/ pub[c].session = "running"
       \/ run = "terminating" /\ pub[c].session \in {"reserved", "starting"}
    /\ PubMoves(c, [pub[c] EXCEPT !.session = "drain_requested"])
    /\ UNCHANGED <<run, story, recoveryCase, delivery, worker, coordinator>>

\* The absence of the process is proven by observation ...
MarkDrained(c) ==
    /\ pub[c].session = "drain_requested"
    /\ pub[c].child # "alive"
    /\ PubMoves(c, [pub[c] EXCEPT !.session = "drained"])
    /\ UNCHANGED <<run, story, recoveryCase, delivery, worker, coordinator>>

\* ... or not within twelve seconds.
QuarantineSession(c) ==
    /\ pub[c].session = "drain_requested"
    /\ pub[c].child = "alive"
    /\ PubMoves(c, [pub[c] EXCEPT !.session = "quarantined"])
    /\ UNCHANGED <<run, story, recoveryCase, delivery, worker, coordinator>>

\* A termination proves the absence of a quarantined runtime again.
RecoverQuarantined(c) ==
    /\ run = "terminating"
    /\ pub[c].session = "quarantined"
    /\ pub[c].child # "alive"
    /\ PubMoves(c, [pub[c] EXCEPT !.session = "drained"])
    /\ UNCHANGED <<run, story, recoveryCase, delivery, worker, coordinator>>

MayFinish(c) ==
    /\ run = "active"
    /\ pub[c].completion = "open"
    /\ pub[c].session = "drained"
    /\ pub[c].claim = "open"
    /\ story = "running"
    /\ delivery[pub[c].rev].state \in Bound
    /\ delivery[pub[c].rev].pub = c
    /\ ActiveAttempt(c)
    /\ BothLive(c)

\* Mutant: the story is left running when the attempt failed.
FinishAttemptOnly(c, verdict) ==
    /\ MayFinish(c)
    /\ PubMoves(c, [pub[c] EXCEPT !.claim = "closed", !.attempt = verdict,
                                  !.completion = "committed"])
    /\ story' = IF verdict = "verified" THEN "done" ELSE story
    /\ UNCHANGED <<run, recoveryCase, delivery, worker, coordinator>>

\* The completion closes claim, attempt and story; the delivery stays bound
\* until the coordinator judges it.
FinishAttempt(c, verdict) ==
    /\ MayFinish(c)
    /\ PubMoves(c, [pub[c] EXCEPT !.claim = "closed", !.attempt = verdict,
                                  !.completion = "committed"])
    /\ story' = IF verdict = "verified" THEN "done" ELSE "failed"
    /\ UNCHANGED <<run, recoveryCase, delivery, worker, coordinator>>

\* An exit handler finds the claim closed and lets go of the drained runtime.
ReleaseSession(c) ==
    /\ pub[c].session = "drained"
    /\ pub[c].claim = "closed"
    /\ PubMoves(c, [pub[c] EXCEPT !.session = "released"])
    /\ UNCHANGED <<run, story, recoveryCase, delivery, worker, coordinator>>

-----------------------------------------------------------------------------
(* A spawner instance executes an evidence-only dispatch itself *)

\* Nothing was executed yet and no claim is in the way; or the attempt has ended
\* and only its verdict is to be carried on, by its owner or a new one.  Runtimes
\* are not looked at before the reservation.
MayTakeEvidence(i) ==
    /\ run = "active"
    /\ story = "failed"
    /\ recoveryCase.status = "evidencing"
    /\ Current.class = "evidence_only"
    /\ \/ /\ Acquirable
          /\ \A c \in Pubs : /\ pub[c].claim # "open"
                            /\ pub[c].rev = Rev => pub[c].attempt = "none"
       \/ /\ Current.state \in Bound
          /\ Current.owner = i \/ ~Current.live
          /\ pub[Current.pub].attempt \in Verdicts

\* Mutant: a dispatch whose attempt has ended is leased as if it were new.
ReacquireEvidence(i) ==
    /\ worker[i].pc = "idle"
    /\ MayTakeEvidence(i)
    /\ Current.lease < MaxLeases
    /\ DeliveryMoves(Rev, [Current EXCEPT !.state = "leased",
                              !.owner = i, !.lease = @ + 1, !.live = TRUE])
    /\ Remember(i, [pc |-> "evidence_leased", rev |-> Rev,
                    lease |-> Current.lease + 1, pub |-> 0])
    /\ UNCHANGED <<run, story, recoveryCase, pub, coordinator>>

AcquireEvidence(i) ==
    /\ worker[i].pc = "idle"
    /\ MayTakeEvidence(i)
    /\ Current.lease < MaxLeases
    /\ DeliveryMoves(Rev, [Current EXCEPT !.state = IF @ \in Bound THEN @ ELSE "leased",
                              !.owner = i, !.lease = @ + 1, !.live = TRUE])
    /\ Remember(i, [pc |-> IF Current.state \in Bound THEN "evidence_judged"
                           ELSE "evidence_leased",
                    rev |-> Rev, lease |-> Current.lease + 1, pub |-> Current.pub])
    /\ UNCHANGED <<run, story, recoveryCase, pub, coordinator>>

\* Claim and attempt in one transaction; there is no runtime, and the story
\* stays failed.
ReserveEvidence(i) ==
    LET r == worker[i].rev IN
    /\ worker[i].pc = "evidence_leased"
    /\ run = "active"
    /\ delivery[r].state = "leased"
    /\ HoldsLease(i, r)
    /\ StoryFree
    /\ HasFreshPub
    /\ PubMoves(FreshPub, [NoPublication EXCEPT !.rev = r, !.owner = i, !.claim = "open",
                              !.attempt = "claimed", !.live = TRUE])
    /\ DeliveryMoves(r, [delivery[r] EXCEPT !.state = "attempt_reserved", !.pub = FreshPub])
    /\ Remember(i, [worker[i] EXCEPT !.pc = "evidence_reserved", !.pub = FreshPub])
    /\ UNCHANGED <<run, story, recoveryCase, coordinator>>

RunEvidence(i) ==
    LET c == worker[i].pub
        r == worker[i].rev
    IN  /\ worker[i].pc = "evidence_reserved"
        /\ run = "active"
        /\ HoldsAttempt(i)
        /\ PubMoves(c, [pub[c] EXCEPT !.attempt = "running"])
        /\ DeliveryMoves(r, [delivery[r] EXCEPT !.state = "running"])
        /\ Remember(i, [worker[i] EXCEPT !.pc = "evidence_running"])
        /\ UNCHANGED <<run, story, recoveryCase, coordinator>>

JudgeEvidence(i, verdict) ==
    LET c == worker[i].pub IN
    /\ worker[i].pc = "evidence_running"
    /\ run = "active"
    /\ HoldsAttempt(i)
    /\ PubMoves(c, [pub[c] EXCEPT !.attempt = verdict])
    /\ Remember(i, [worker[i] EXCEPT !.pc = "evidence_judged"])
    /\ UNCHANGED <<run, story, recoveryCase, delivery, coordinator>>

CloseEvidenceClaim(i) ==
    LET c == worker[i].pub IN
    /\ worker[i].pc = "evidence_judged"
    /\ run = "active"
    /\ CaseActive
    /\ delivery[worker[i].rev].state \in Bound
    /\ HoldsLease(i, worker[i].rev)
    /\ PubMoves(c, [pub[c] EXCEPT !.claim = "closed"])
    /\ Forget(i)
    /\ UNCHANGED <<run, story, recoveryCase, delivery, coordinator>>

\* The worker fails before the attempt has ended: its preparation or reservation
\* under the mere lease, or the execution under both.  Whoever still holds what
\* it remembers ends delivery and case with the attempt, if there is one.
QuarantineEvidence(i) ==
    LET c == worker[i].pub
        r == worker[i].rev
    IN  /\ run = "active"
        /\ recoveryCase.status = "evidencing" /\ Rev = r
        /\ \/ /\ worker[i].pc = "evidence_leased"
              /\ delivery[r].state = "leased"
              /\ HoldsLease(i, r)
              /\ UNCHANGED pub
           \/ /\ worker[i].pc \in {"evidence_reserved", "evidence_running"}
              /\ HoldsAttempt(i)
              /\ PubMoves(c, [pub[c] EXCEPT !.claim = "closed", !.attempt = "inconclusive",
                                            !.live = FALSE])
        /\ DeliveryMoves(r, [delivery[r] EXCEPT !.state = "blocked", !.live = FALSE])
        /\ recoveryCase' = [recoveryCase EXCEPT !.status = "blocked"]
        /\ Forget(i)
        /\ UNCHANGED <<run, story, coordinator>>

\* Once there is a verdict a failure quarantines nothing: the delivery is left
\* to be replayed, by this owner or the next.
LeaveReplayable(i) ==
    /\ worker[i].pc = "evidence_judged"
    /\ Forget(i)
    /\ UNCHANGED <<run, story, recoveryCase, delivery, pub, coordinator>>

\* A worker that lost its run, its lease or its attempt can do neither: any call
\* of it throws, and so does the quarantine.
LoseEvidence(i) ==
    /\ worker[i].pc \in {"evidence_leased", "evidence_reserved", "evidence_running",
                         "evidence_judged"}
    /\ \/ run # "active"
       \/ ~HoldsLease(i, worker[i].rev)
       \/ worker[i].pc \in {"evidence_reserved", "evidence_running"} /\ ~HoldsAttempt(i)
    /\ Forget(i)
    /\ UNCHANGED <<run, story, recoveryCase, delivery, pub, coordinator>>

-----------------------------------------------------------------------------
(* The lifecycle reconciler, of any instance, over the active delivery *)

\* The only publication in the way of an expired lease, if its owner has not
\* got as far as to reserve the attempt.
RollsBack(c) ==
    /\ pub[c].rev = Rev
    /\ pub[c].owner = Current.owner
    /\ pub[c].claim = "open"
    /\ pub[c].session = "reserved"
    /\ ~pub[c].bound
    /\ \A d \in Pubs : ~ActiveAttempt(d) /\ (d # c => ~Unreleased(d))

ResetExpiredLease ==
    /\ run = "active"
    /\ CaseActive
    /\ Current.state = "leased" /\ ~Current.live
    /\ story = "failed"
    /\ StoryFree
    /\ DeliveryMoves(Rev, [Current EXCEPT !.state = "authorized", !.owner = Nobody])
    /\ UNCHANGED <<run, story, recoveryCase, pub, worker, coordinator>>

RollbackPublication(c) ==
    /\ run = "active"
    /\ CaseActive
    /\ Current.state = "leased" /\ ~Current.live
    /\ Current.class # "evidence_only"
    /\ RollsBack(c)
    /\ PubMoves(c, [pub[c] EXCEPT !.claim = "closed", !.session = "released"])
    /\ DeliveryMoves(Rev, [Current EXCEPT !.state = "authorized", !.owner = Nobody])
    /\ story' = "failed"
    /\ UNCHANGED <<run, recoveryCase, worker, coordinator>>

\* The delivery, its attempt and its runtime name each other, and the earlier
\* of the two leases has expired.  A completion leaves them to its owner.
ExpiredModelOwner(c) ==
    /\ run = "active"
    /\ CaseActive
    /\ Current.state \in Bound
    /\ Current.class # "evidence_only"
    /\ Current.pub = c
    /\ pub[c].bound
    /\ Unreleased(c)
    /\ pub[c].completion = "none"
    /\ pub[c].claim = "open"
    /\ ActiveAttempt(c)
    /\ story = "running"
    /\ ~BothLive(c)

\* Mutant: a runtime that was still starting is not asked to drain.
RequestRunningDrain(c) ==
    /\ ExpiredModelOwner(c)
    /\ pub[c].session = "running"
    /\ PubMoves(c, [pub[c] EXCEPT !.session = "drain_requested"])
    /\ UNCHANGED <<run, story, recoveryCase, delivery, worker, coordinator>>

RequestExpiredDrain(c) ==
    /\ ExpiredModelOwner(c)
    /\ pub[c].session \in {"starting", "running"}
    /\ PubMoves(c, [pub[c] EXCEPT !.session = "drain_requested"])
    /\ UNCHANGED <<run, story, recoveryCase, delivery, worker, coordinator>>

\* Mutant: a runtime that is only asked to drain counts as drained.
BlockUndrainedModel(c) ==
    /\ ExpiredModelOwner(c)
    /\ pub[c].session \in {"reserved", "drain_requested", "drained", "quarantined"}
    /\ PubMoves(c, [pub[c] EXCEPT !.claim = "closed", !.attempt = "inconclusive",
                      !.live = FALSE,
                      !.session = IF @ = "quarantined" THEN @ ELSE "released"])
    /\ DeliveryMoves(Rev, [Current EXCEPT !.state = "blocked", !.live = FALSE])
    /\ recoveryCase' = [recoveryCase EXCEPT !.status = "blocked"]
    /\ story' = "failed"
    /\ UNCHANGED <<run, worker, coordinator>>

\* After the proof that nothing started or everything is gone, the whole chain
\* ends blocked; a quarantined runtime stays quarantined.
BlockExpiredModel(c) ==
    /\ ExpiredModelOwner(c)
    /\ pub[c].session \in {"reserved", "drained", "quarantined"}
    /\ PubMoves(c, [pub[c] EXCEPT !.claim = "closed", !.attempt = "inconclusive",
                      !.live = FALSE,
                      !.session = IF @ = "quarantined" THEN @ ELSE "released"])
    /\ DeliveryMoves(Rev, [Current EXCEPT !.state = "blocked", !.live = FALSE])
    /\ recoveryCase' = [recoveryCase EXCEPT !.status = "blocked"]
    /\ story' = "failed"
    /\ UNCHANGED <<run, worker, coordinator>>

BlockExpiredEvidence(c) ==
    /\ run = "active"
    /\ CaseActive
    /\ Current.state \in Bound
    /\ Current.class = "evidence_only"
    /\ Current.pub = c
    /\ ActiveAttempt(c)
    /\ ~BothLive(c)
    /\ PubMoves(c, [pub[c] EXCEPT !.claim = "closed", !.attempt = "inconclusive",
                                  !.live = FALSE])
    /\ DeliveryMoves(Rev, [Current EXCEPT !.state = "blocked", !.live = FALSE])
    /\ recoveryCase' = [recoveryCase EXCEPT !.status = "blocked"]
    /\ UNCHANGED <<run, story, worker, coordinator>>

-----------------------------------------------------------------------------
(* The coordinator judges an ended attempt: one call under the advisory lock *)
(* of the story, several transactions                                        *)

\* Mutant: the verdict of the attempt is written where its result belongs.
CompleteWithVerdict ==
    /\ run = "active"
    /\ coordinator = "none"
    /\ Current.state \in Bound
    /\ pub[Current.pub].attempt \in {"verified", "failed"}
    /\ pub[Current.pub].claim = "closed"
    /\ DeliveryMoves(Rev, [Current EXCEPT !.state = pub[Current.pub].attempt])
    /\ UNCHANGED <<run, story, recoveryCase, pub, worker, coordinator>>

\* The result of an attempt that has ended, in the delivery.
CompleteDelivery ==
    LET c == Current.pub IN
    /\ run = "active"
    /\ coordinator = "none"
    /\ Current.state \in Bound
    /\ pub[c].attempt \in {"verified", "failed"}
    /\ pub[c].claim = "closed"
    /\ DeliveryMoves(Rev, [Current EXCEPT
            !.state = IF pub[c].attempt = "verified" THEN "succeeded" ELSE "failed"])
    /\ UNCHANGED <<run, story, recoveryCase, pub, worker, coordinator>>

\* A refused attempt hands its findings to another case: the delivery ...
CompleteRefused(target) ==
    LET c == Current.pub IN
    /\ run = "active"
    /\ coordinator = "none"
    /\ Current.state \in Bound
    /\ pub[c].attempt = "refused"
    /\ DeliveryMoves(Rev, [Current EXCEPT !.state = target])
    /\ UNCHANGED <<run, story, recoveryCase, pub, worker, coordinator>>

\* ... and after it the case end as the refusal says.
SettleRefusedCase ==
    /\ run = "active"
    /\ CaseActive
    /\ Current.state \in {"blocked", "superseded"}
    /\ recoveryCase' = [recoveryCase EXCEPT !.status = Current.state]
    /\ UNCHANGED <<run, story, delivery, pub, worker, coordinator>>

\* Mutant: the case is resolved before the delivery has its result.
ResolveVerified ==
    /\ run = "active"
    /\ coordinator = "none"
    /\ CaseActive
    /\ Current.pub # 0
    /\ pub[Current.pub].attempt = "verified"
    /\ recoveryCase' = [recoveryCase EXCEPT !.status = "resolved"]
    /\ UNCHANGED <<run, story, delivery, pub, worker, coordinator>>

ResolveCase ==
    /\ run = "active"
    /\ coordinator = "none"
    /\ CaseActive
    /\ Current.state = "succeeded"
    /\ recoveryCase' = [recoveryCase EXCEPT !.status = "resolved"]
    /\ UNCHANGED <<run, story, delivery, pub, worker, coordinator>>

Used == {delivery[r].class : r \in {q \in Revisions : delivery[q].state # "none"}}

\* What may follow a failed attempt: a refresh of the evidence, the next source
\* repair, or nothing more.
NextDecisions ==
    {"blocked"} \cup
    (IF Current.class # "evidence_only" THEN {"evidence_only"} \ Used ELSE {}) \cup
    CASE Current.class = "product_implementation" -> {"supervisor_repair"}
      [] Current.class = "supervisor_repair" -> {}
      [] OTHER -> IF "product_implementation" \notin Used
                  THEN {"product_implementation"} ELSE {"supervisor_repair"} \ Used

\* Mutant: the revision advances over a delivery that is still active.
AdvanceOverActive(decision) ==
    /\ run = "active"
    /\ coordinator = "none"
    /\ CaseActive
    /\ Current.state \in Bound \cup {"failed"}
    /\ Rev < MaxRevisions
    /\ decision \in NextDecisions
    /\ recoveryCase' = [status |-> "open", rev |-> Rev + 1]
    /\ coordinator' = decision
    /\ UNCHANGED <<run, story, delivery, pub, worker>>

\* A failed attempt opens the next revision; what it is for is decided, but
\* carried out in a transaction of its own.
AdvanceRevision(decision) ==
    /\ run = "active"
    /\ coordinator = "none"
    /\ CaseActive
    /\ Current.state = "failed"
    /\ Rev < MaxRevisions
    /\ decision \in NextDecisions
    /\ recoveryCase' = [status |-> "open", rev |-> Rev + 1]
    /\ coordinator' = decision
    /\ UNCHANGED <<run, story, delivery, pub, worker>>

\* The first revision is for whoever owns the findings; a later one was decided.
Decided == IF coordinator = "initial" THEN Classes ELSE {coordinator} \cap Classes

MayAuthorize(class) == story = "failed" /\ class \in Classes \ Used

\* The dispatch of the current revision, within the budget of its class.
AuthorizeRevision(class) ==
    /\ run = "active"
    /\ CaseActive
    /\ class \in Decided
    /\ MayAuthorize(class)
    /\ DeliveryMoves(Rev, [NoDelivery EXCEPT !.class = class, !.state = "authorized"])
    /\ recoveryCase' = [recoveryCase EXCEPT
            !.status = IF class = "evidence_only" THEN "evidencing" ELSE "repairing"]
    /\ coordinator' = "none"
    /\ UNCHANGED <<run, story, pub, worker>>

\* The decision is to stop; or the dispatch is a duplicate, in conflict with
\* another one or over its budget.
EndCase(status) ==
    /\ run = "active"
    /\ CaseActive
    /\ coordinator # "none"
    /\ coordinator = "blocked" => status = "blocked"
    /\ recoveryCase' = [recoveryCase EXCEPT !.status = status]
    /\ coordinator' = "none"
    /\ UNCHANGED <<run, story, delivery, pub, worker>>

\* The call dies or throws with its decision.  The initial call is repeated;
\* a later one finds another revision than the one it judged and reports
\* recovery_checkpoint_requires_replay.
LoseDecision ==
    /\ coordinator \notin {"none", "initial"}
    /\ coordinator' = "none"
    /\ UNCHANGED <<run, story, recoveryCase, delivery, pub, worker>>

\* The completion is accepted when its coordinate effect has returned.
AcceptCompletion(c) ==
    /\ pub[c].completion = "committed"
    /\ ~IsActive(pub[c].rev)
    /\ coordinator = "none"
    /\ ~CaseActive \/ Rev # pub[c].rev
    /\ PubMoves(c, [pub[c] EXCEPT !.completion = "done",
                                  !.session = IF @ = "drained" THEN "released" ELSE @])
    /\ UNCHANGED <<run, story, recoveryCase, delivery, worker, coordinator>>

-----------------------------------------------------------------------------
(* The end of the run *)

\* Asked for by anybody; it waits for a completion that has been committed.
RequestTermination ==
    /\ run = "active"
    /\ \A c \in Pubs : pub[c].completion # "committed"
    /\ run' = "terminating"
    /\ UNCHANGED <<story, recoveryCase, delivery, pub, worker, coordinator>>

\* The loop guard sees a failed story that nobody recovers any more.
NobodyRecovers ==
    /\ run = "active"
    /\ story = "failed"
    /\ coordinator # "initial"
    /\ \A c \in Pubs : pub[c].completion \notin {"open", "committed"}
    /\ \A r \in Revisions : ~IsActive(r)

FailUnrecovered ==
    /\ NobodyRecovers
    /\ run' = "terminating"
    /\ UNCHANGED <<story, recoveryCase, delivery, pub, worker, coordinator>>

EndedDelivery(row, target) ==
    IF row.state \in Unbound \cup Bound
    THEN [row EXCEPT !.state = IF target = "failed" THEN "blocked" ELSE "superseded",
                     !.owner = Nobody, !.live = FALSE]
    ELSE row

EndedPub(row) ==
    [row EXCEPT
        !.claim = IF @ = "open" THEN "closed" ELSE @,
        !.attempt = IF @ \in {"claimed", "running"} THEN "inconclusive" ELSE @,
        !.completion = IF @ = "open" THEN "done" ELSE @,
        !.session = IF @ = "drained" THEN "released" ELSE @]

\* Mutant: the run ends over what is left of its recovery.
TerminalizeRunOnly(target) ==
    /\ run = "terminating"
    /\ \A c \in Pubs : pub[c].session \in {"none", "drained", "released"}
    /\ run' = target
    /\ story' = IF story = "running" THEN "failed" ELSE story
    /\ pub' = [c \in Pubs |-> EndedPub(pub[c])]
    /\ UNCHANGED <<recoveryCase, delivery, worker, coordinator>>

\* The run ends when every runtime is gone; it is the recovery's owner of last
\* resort and ends delivery, case, claim and attempt with it.
Terminalize(target) ==
    /\ run = "terminating"
    /\ \A c \in Pubs : pub[c].session \in {"none", "drained", "released"}
    /\ run' = target
    /\ story' = IF story = "running" THEN "failed" ELSE story
    /\ recoveryCase' = [recoveryCase EXCEPT
            !.status = IF ~CaseActive THEN @
                       ELSE IF target = "failed" THEN "blocked" ELSE "superseded"]
    /\ delivery' = [r \in Revisions |-> EndedDelivery(delivery[r], target)]
    /\ pub' = [c \in Pubs |-> EndedPub(pub[c])]
    /\ UNCHANGED <<worker, coordinator>>

MayComplete ==
    /\ run = "active"
    /\ story = "done"
    /\ \A c \in Pubs : pub[c].claim # "open" /\ ~ActiveAttempt(c)
    /\ ~CaseActive
    /\ \A r \in Revisions : ~IsActive(r)

\* Success never erases a recovery owner.
CompleteRun ==
    /\ MayComplete
    /\ run' = "completed"
    /\ pub' = [c \in Pubs |-> [pub[c] EXCEPT
                  !.session = IF @ = "drained" THEN "released" ELSE @]]
    /\ UNCHANGED <<story, recoveryCase, delivery, worker, coordinator>>

-----------------------------------------------------------------------------

InstanceStep(i) ==
    \/ Discover(i) \/ Acquire(i) \/ LoseRoute(i) \/ Publish(i)
    \/ ReserveAttempt(i) \/ BindAttempt(i) \/ FailClaiming(i)
    \/ MarkStarting(i) \/ FailStarting(i) \/ Spawn(i)
    \/ MarkRunning(i) \/ FailRunning(i)
    \/ Relinquish(i) \/ LetRun(i) \/ Crash(i)

EvidenceStep(i) ==
    \/ AcquireEvidence(i) \/ ReserveEvidence(i) \/ RunEvidence(i)
    \/ \E verdict \in {"verified", "failed"} : JudgeEvidence(i, verdict)
    \/ CloseEvidenceClaim(i) \/ QuarantineEvidence(i) \/ LeaveReplayable(i)
    \/ LoseEvidence(i)

RuntimeStep(c) ==
    \/ ChildExit(c) \/ ExpireAttempt(c) \/ RequestCompletion(c) \/ RequestDrain(c)
    \/ MarkDrained(c) \/ QuarantineSession(c) \/ RecoverQuarantined(c)
    \/ \E verdict \in Verdicts : FinishAttempt(c, verdict)
    \/ ReleaseSession(c) \/ AcceptCompletion(c)

ReconcilerStep ==
    \/ ResetExpiredLease
    \/ \E c \in Pubs : \/ RollbackPublication(c) \/ RequestExpiredDrain(c)
                       \/ BlockExpiredModel(c) \/ BlockExpiredEvidence(c)

CoordinatorStep ==
    \/ CompleteDelivery \/ ResolveCase \/ LoseDecision
    \/ \E class \in Classes : AuthorizeRevision(class)
    \/ \E target \in {"blocked", "superseded"} : CompleteRefused(target) \/ EndCase(target)
    \/ SettleRefusedCase
    \/ \E decision \in Classes \cup {"blocked"} : AdvanceRevision(decision)

RunStep ==
    \/ RequestTermination \/ FailUnrecovered \/ CompleteRun
    \/ \E target \in {"failed", "cancelled"} : Terminalize(target)

RecoveryNext ==
    \/ \E i \in Instances : InstanceStep(i) \/ EvidenceStep(i)
    \/ \E c \in Pubs : RuntimeStep(c)
    \/ \E r \in Revisions : ExpireDelivery(r)
    \/ ReconcilerStep \/ CoordinatorStep \/ RunStep

RecoverySpec == RecoveryInit /\ [][RecoveryNext]_recoveryVars

\* An instance that lives goes on with what it has begun, the poll of whoever
\* lives runs the reconciler, finishes its drains and sees children exit.
RecoveryFairSpec ==
    /\ RecoverySpec
    /\ \A i \in Instances : WF_recoveryVars(InstanceStep(i) /\ worker'[i].pc # "dead")
    /\ \A i \in Instances : WF_recoveryVars(LoseEvidence(i))
    /\ WF_recoveryVars(ReconcilerStep)
    /\ \A c \in Pubs : WF_recoveryVars(MarkDrained(c) \/ QuarantineSession(c))

-----------------------------------------------------------------------------
(* Properties *)

\* The type invariant.
RecoveryTypeOK ==
    /\ run \in {"active", "terminating"} \cup Ends
    /\ story \in {"failed", "running", "done"}
    /\ recoveryCase \in [status : {"open", "repairing", "evidencing"} \cup TerminalCases,
                         rev : Revisions]
    /\ delivery \in [Revisions -> Deliveries]
    /\ pub \in [Pubs -> Publications]
    /\ worker \in [Instances -> Workers]
    /\ coordinator \in Classes \cup {"none", "initial", "blocked"}

\* The story has one owner: at most one delivery is active, and it is the one
\* of the current revision; at most one claim is open and one attempt active.
\* (activeDeliveryRows and its V3_RECOVERY_AUTHORITY_MULTIPLE_ACTIVE.)
OneStoryOwner ==
    /\ \A r \in Revisions : IsActive(r) => r = Rev
    /\ \A c, d \in Pubs : pub[c].claim = "open" /\ pub[d].claim = "open" => c = d
    /\ \A c, d \in Pubs : ActiveAttempt(c) /\ ActiveAttempt(d) => c = d

\* Delivery and attempt agree on their owner: a bound delivery names an attempt
\* of its own revision, and an active attempt is named by its delivery, until
\* the run or the reconciler ends both.  (exactAttemptOwner, which can only
\* repair what agrees.)
FenceAgreement ==
    /\ \A r \in Revisions : delivery[r].state \in Bound =>
          /\ delivery[r].pub # 0
          /\ pub[delivery[r].pub].rev = r
          /\ pub[delivery[r].pub].attempt \in {"claimed", "running"} \cup Verdicts
    /\ \A c \in Pubs : ActiveAttempt(c) =>
          /\ delivery[pub[c].rev].state \in Bound
          /\ delivery[pub[c].rev].pub = c
          /\ pub[c].claim = "open"

\* A story that is being repaired is somebody's: there is an open claim for it,
\* and the active delivery it was published for.  (The step pointer and
\* stories.claimed_by, which are set and cleared with the claim.)
RunningStoryIsOwned ==
    story = "running" =>
        \E c \in Pubs : pub[c].claim = "open" /\ IsActive(pub[c].rev) /\ pub[c].rev = Rev

\* The end of a case is the end of its owners, and the end of the run the end of
\* the case: nothing is dispatched, claimed or attempted any more, and a
\* successful run has ended its recovery before.  (v3-terminal-recovery-chain.ts:
\* "The canonical terminal run is the bounded recovery owner of last resort".)
EndedCaseIsQuiet ==
    /\ run \in Ends => ~CaseActive
    /\ ~CaseActive =>
          /\ \A r \in Revisions : ~IsActive(r)
          /\ \A c \in Pubs : pub[c].claim # "open" /\ ~ActiveAttempt(c)
          /\ story # "running"

\* Nobody is declared gone who still works: when the reconciler or the run's
\* end takes an attempt that was running, its child process has gone or its
\* runtime is known to be in doubt.  (blockExpiredModelAttempt: "terminalized
\* blocked after canonical no-spawn or drain proof".)
RunningAttemptEndsProven ==
    [][\A c \in Pubs :
          pub[c].attempt = "running" /\ pub'[c].attempt = "inconclusive" =>
              pub'[c].child # "alive" \/ pub'[c].session = "quarantined"]_recoveryVars

\* A worker that lost its lease is powerless: when the token has moved on from
\* the one its publication was made under, that publication starts no child
\* and gets no attempt.
StaleLeaseStartsNothing ==
    [][\A i \in Instances :
          worker[i].rev # 0 /\ worker[i].pub # 0
          /\ delivery[worker[i].rev].lease # worker[i].lease =>
              /\ pub'[worker[i].pub].attempt = pub[worker[i].pub].attempt
                 \/ pub'[worker[i].pub].attempt = "inconclusive"
              /\ ~(pub[worker[i].pub].child = "none" /\ pub'[worker[i].pub].child = "alive")
      ]_recoveryVars

\* The dispatches of the story, class by class.
ClassDispatch(k) ==
    LET revs == {r \in Revisions : delivery[r].class = k /\ delivery[r].state # "none"}
    IN  IF revs = {} THEN "none"
        ELSE IF \E r \in revs : delivery[r].state \in Unbound THEN "waiting"
        ELSE IF \E r \in revs : delivery[r].state \in Bound THEN "executing"
        ELSE "settled"

Dispatches == INSTANCE RecoveryDispatch WITH
                  dispatch <- [k \in Classes |-> ClassDispatch(k)],
                  closed <- ~CaseActive

\* The whole machinery implements the promise: one dispatch per class, one at a
\* time, executed at most once, never handed out again.
ImplementsDispatch == Dispatches!DispatchSpec

\* The owner of the current delivery is gone, and its rows are such that the
\* reconciler knows what to do.
Reconcilable ==
    /\ run = "active"
    /\ \/ Current.state = "leased" /\ ~Current.live
          /\ story = "failed" /\ StoryFree
       \/ \E c \in Pubs : RollsBack(c) /\ Current.state = "leased" /\ ~Current.live
                          /\ Current.class # "evidence_only"
       \/ \E c \in Pubs : ExpiredModelOwner(c)

\* An owner that went away in a state the reconciler recognises is replaced or
\* ended.  (lifecycle reconciler, run by every instance's poll.)
ReconcilableOwnerIsReplaced ==
    Reconcilable ~> (run # "active" \/ Current.live \/ ~IsActive(Rev)
                     \/ Current.state = "authorized"
                     \/ \E c \in Pubs : pub[c].rev = Rev /\ pub[c].completion # "none")

\* What the documents promise: an abandoned owner does not stay.
\* (internal-production-closure-design.md: "restart, retry ... scenarios settle
\* without duplicate ownership, lost work, leaked processes".)
AbandonedOwnerSettles ==
    (IsActive(Rev) /\ ~Current.live /\ run = "active")
        ~> (run # "active" \/ Current.live \/ ~IsActive(Rev)
            \/ Current.state = "authorized")
=============================================================================
