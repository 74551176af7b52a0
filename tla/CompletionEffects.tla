-------------------------- MODULE CompletionEffects --------------------------
(***************************************************************************)
(* The effect ledger of one completion whose owner has committed, and the  *)
(* runners that work it off: the coordinator that committed, and after it  *)
(* lost its lease one recovery owner after another, each under a fresh     *)
(* identity.  An earlier runner need not be dead when the next one starts. *)
(*                                                                         *)
(* A lease is kept as `live'; that it expires is an action.  A lease token *)
(* is new with every claim, as is the attempt count, which stands for it.  *)
(* Every planned effect is mandatory.  The handler of an effect is reduced *)
(* to whether its change to canonical state has been made, and whether its *)
(* reconcile step can see that; the run stays active and the runtime stays *)
(* drained, the rest of a completion's life is in RunLifecycle.            *)
(***************************************************************************)
EXTENDS Naturals, FiniteSets

CONSTANTS
    Effects,      \* ordinals of the manifest
    Observable,   \* effects whose reconcile step sees that they were performed
    MaxOwners,    \* bound on owners; the last one neither dies nor stalls
    MaxAttempts   \* the runner's budget of attempts per effect

ASSUME EffectsAssumption ==
    /\ Effects \subseteq Nat
    /\ Observable \subseteq Effects
    /\ MaxOwners \in Nat \ {0}
    /\ MaxAttempts \in Nat \ {0}

VARIABLES
    request,  \* the completion's apply_phase, owner and lease
    effect,   \* its runtime_completion_effects rows
    done,     \* how often the change of each effect was made
    runner,   \* where the runner of each owner is, and what it claimed
    stalled   \* history: a lease has expired under a runner that lives on

effectsVars == <<request, effect, done, runner, stalled>>

Owners == 1..MaxOwners

Phases == {"owner_committed", "effects_committed", "accepted"}

Done == {"applied", "reconciled"}

EffectRows == [state : {"pending", "leased", "quarantined"} \cup Done,
               owner : 0..MaxOwners, live : BOOLEAN, attempts : Nat]

\* Where a runner stands, and the claim it remembers while it works on an effect.
Idle == {"none", "loop", "ledger", "commit", "accept", "gone"}

Working == {"leased", "unapplied", "applying", "performed", "observed", "failed"}

Runners == [pc : Idle, effect : {0}, token : {0}] \cup
           [pc : Working, effect : Effects, token : Nat]

Runner(pc) == [pc |-> pc, effect |-> 0, token |-> 0]

EffectsInit ==
    /\ request = [phase |-> "owner_committed", owner |-> 1, live |-> TRUE]
    /\ effect = [e \in Effects |->
                   [state |-> "pending", owner |-> 0, live |-> FALSE, attempts |-> 0]]
    /\ done = [e \in Effects |-> 0]
    /\ runner = [g \in Owners |-> Runner(IF g = 1 THEN "loop" ELSE "none")]
    /\ stalled = FALSE

-----------------------------------------------------------------------------
(* What the transactions test *)

IsSettled(e) == effect[e].state \in Done

AllSettled == \A e \in Effects : IsSettled(e)

OwnsRequest(g, phase) ==
    request.phase = phase /\ request.owner = g /\ request.live

\* hasLiveEffectLease, for the effect the runner claimed.
HoldsLease(g) ==
    LET row == effect[runner[g].effect] IN
    /\ OwnsRequest(g, "owner_committed")
    /\ row.state = "leased"
    /\ row.live
    /\ row.owner = g
    /\ row.attempts = runner[g].token

\* Mutant: a lease is never taken over.
Untaken(g, e) ==
    /\ effect[e].state = "pending"
    /\ \A d \in Effects : d < e => IsSettled(d)

\* Mutant: the earlier effects may still be open.
ClaimableOutOfTurn(g, e) ==
    \/ effect[e].state = "pending"
    \/ effect[e].state = "leased" /\ (effect[e].owner # g \/ ~effect[e].live)

\* The lease of another owner is taken over at once, one's own when it is over.
Claimable(g, e) ==
    /\ \/ effect[e].state = "pending"
       \/ effect[e].state = "leased" /\ (effect[e].owner # g \/ ~effect[e].live)
    /\ \A d \in Effects : d < e => IsSettled(d)

Leased(g, e) == [state |-> "leased", owner |-> g, live |-> TRUE,
                 attempts |-> effect[e].attempts + 1]

Unleased(e, state) == [state |-> state, owner |-> 0, live |-> FALSE,
                       attempts |-> effect[e].attempts]

-----------------------------------------------------------------------------
(* The runner: one pass over the ledger, then commit and acceptance *)

At(g, pc) == runner[g].pc = pc

Standing(g, pc) == [pc |-> pc, effect |-> runner[g].effect, token |-> runner[g].token]

Goes(g, pc) == runner' = [runner EXCEPT ![g] = Standing(g, pc)]

Leaves(g) == runner' = [runner EXCEPT ![g] = Runner("gone")]

ClaimEffect(g, e) ==
    /\ At(g, "loop")
    /\ OwnsRequest(g, "owner_committed")
    /\ Claimable(g, e)
    /\ effect' = [effect EXCEPT ![e] = Leased(g, e)]
    /\ runner' = [runner EXCEPT ![g] = [pc |-> "leased", effect |-> e,
                                        token |-> effect[e].attempts + 1]]
    /\ UNCHANGED <<request, done>>

\* Mutant: an effect is run again without a look at what is there.
ReconcileNothing(g) ==
    /\ At(g, "leased")
    /\ Goes(g, "unapplied")
    /\ UNCHANGED <<request, effect, done>>

\* The handler looks whether an earlier runner made the change already.
Reconcile(g) ==
    /\ At(g, "leased")
    /\ Goes(g, IF runner[g].effect \in Observable /\ done[runner[g].effect] > 0
               THEN "observed" ELSE "unapplied")
    /\ UNCHANGED <<request, effect, done>>

AssertLease(g) ==
    /\ At(g, "unapplied")
    /\ Goes(g, IF HoldsLease(g) THEN "applying" ELSE "failed")
    /\ UNCHANGED <<request, effect, done>>

\* The change itself, which no fence protects.
Apply(g) ==
    /\ At(g, "applying")
    /\ done' = [done EXCEPT ![runner[g].effect] = @ + 1]
    /\ Goes(g, "performed")
    /\ UNCHANGED <<request, effect>>

\* The handler throws, or the heartbeat finds the lease lost or fails.
OperationFails(g) ==
    /\ runner[g].pc \in Working \ {"failed"}
    /\ Goes(g, "failed")
    /\ UNCHANGED <<request, effect, done>>

Settle(g) ==
    LET e == runner[g].effect IN
    /\ runner[g].pc \in {"performed", "observed"}
    /\ IF HoldsLease(g)
       THEN /\ effect' = [effect EXCEPT ![e] = Unleased(e,
                             IF At(g, "performed") THEN "applied" ELSE "reconciled")]
            /\ runner' = [runner EXCEPT ![g] = Runner("loop")]
       ELSE Goes(g, "failed") /\ UNCHANGED effect
    /\ UNCHANGED <<request, done>>

\* Mutant: the first failure is the last.
GiveUpAtOnce(g) ==
    LET e == runner[g].effect IN
    /\ At(g, "failed")
    /\ HoldsLease(g)
    /\ effect' = [effect EXCEPT ![e] = Unleased(e, "quarantined")]
    /\ Leaves(g)
    /\ UNCHANGED <<request, done>>

\* A failed attempt is retried, or was the last; without the lease the pass
\* ends with an error.
HandleFailure(g) ==
    LET e == runner[g].effect IN
    /\ At(g, "failed")
    /\ \/ /\ HoldsLease(g)
          /\ runner[g].token >= MaxAttempts
          /\ effect' = [effect EXCEPT ![e] = Unleased(e, "quarantined")]
          /\ Leaves(g)
       \/ /\ HoldsLease(g)
          /\ runner[g].token < MaxAttempts
          /\ effect' = [effect EXCEPT ![e] = Unleased(e, "pending")]
          /\ runner' = [runner EXCEPT ![g] = Runner("loop")]
       \/ /\ ~HoldsLease(g)
          /\ Leaves(g)
          /\ UNCHANGED effect
    /\ UNCHANGED <<request, done>>

\* claimNext has nothing for this owner: the ledger is read once more.
EndOfLedger(g) ==
    /\ At(g, "loop")
    /\ OwnsRequest(g, "owner_committed") => \A e \in Effects : ~Claimable(g, e)
    /\ Goes(g, "ledger")
    /\ UNCHANGED <<request, effect, done>>

ReadLedger(g) ==
    /\ At(g, "ledger")
    /\ Goes(g, IF AllSettled THEN "commit" ELSE "gone")
    /\ UNCHANGED <<request, effect, done>>

MarkEffectsCommitted(g) ==
    /\ At(g, "commit")
    /\ IF OwnsRequest(g, "owner_committed") /\ AllSettled
       THEN request' = [request EXCEPT !.phase = "effects_committed"] /\ Goes(g, "accept")
       ELSE UNCHANGED request /\ Goes(g, "gone")
    /\ UNCHANGED <<effect, done>>

AcceptAndRelease(g) ==
    /\ At(g, "accept")
    /\ IF OwnsRequest(g, "effects_committed")
       THEN request' = [request EXCEPT !.phase = "accepted", !.live = FALSE]
       ELSE UNCHANGED request
    /\ Leaves(g)
    /\ UNCHANGED <<effect, done>>

-----------------------------------------------------------------------------
(* Faults, the clock, and the recovery of an expired owner *)

Crash(g) ==
    /\ g < MaxOwners
    /\ runner[g].pc \notin {"none", "gone"}
    /\ Leaves(g)
    /\ UNCHANGED <<request, effect, done>>

\* A lease runs out under an owner that is gone, or too slow to renew it.
LosesTime(g) ==
    /\ g < MaxOwners
    /\ stalled' = (stalled \/ ~At(g, "gone"))

ExpireRequestLease ==
    /\ request.live
    /\ LosesTime(request.owner)
    /\ request' = [request EXCEPT !.live = FALSE]
    /\ UNCHANGED <<effect, done, runner>>

ExpireEffectLease(e) ==
    /\ effect[e].state = "leased"
    /\ effect[e].live
    /\ LosesTime(effect[e].owner)
    /\ effect' = [effect EXCEPT ![e] = [@ EXCEPT !.live = FALSE]]
    /\ UNCHANGED <<request, done, runner>>

\* recoverExpiredProcessing after the owner's commit, and the pass it starts.
AdoptReceipt ==
    /\ request.phase # "accepted"
    /\ ~request.live
    /\ request.owner < MaxOwners
    /\ request' = [request EXCEPT !.owner = @ + 1, !.live = TRUE]
    /\ runner' = [runner EXCEPT ![request.owner + 1] =
                     Runner(IF request.phase = "owner_committed" THEN "loop" ELSE "accept")]
    /\ UNCHANGED <<effect, done>>

-----------------------------------------------------------------------------

RunnerStep(g) ==
    \/ \E e \in Effects : ClaimEffect(g, e)
    \/ Reconcile(g)
    \/ AssertLease(g)
    \/ Apply(g)
    \/ Settle(g)
    \/ HandleFailure(g)
    \/ EndOfLedger(g)
    \/ ReadLedger(g)
    \/ MarkEffectsCommitted(g)
    \/ AcceptAndRelease(g)

Clock == ExpireRequestLease \/ \E e \in Effects : ExpireEffectLease(e)

EffectsNext ==
    \/ Clock
    \/ /\ AdoptReceipt \/ \E g \in Owners : RunnerStep(g) \/ OperationFails(g) \/ Crash(g)
       /\ UNCHANGED stalled

\* A runner that lives goes on, a lease nobody renews runs out, and the
\* spawner's recovery pump comes by again; nothing else is promised.
EffectsFairness ==
    /\ \A g \in Owners : WF_effectsVars(RunnerStep(g) /\ UNCHANGED stalled)
    /\ WF_effectsVars(At(request.owner, "gone") /\ ExpireRequestLease)
    /\ WF_effectsVars(AdoptReceipt /\ UNCHANGED stalled)

EffectsSpec == EffectsInit /\ [][EffectsNext]_effectsVars /\ EffectsFairness

-----------------------------------------------------------------------------
(* Properties *)

\* The type invariant, with the lease constraints of the table: a row has an
\* owner exactly while it is leased, and one that has been appointed.
EffectsTypeOK ==
    /\ request \in [phase : Phases, owner : Owners, live : BOOLEAN]
    /\ effect \in [Effects -> EffectRows]
    /\ done \in [Effects -> Nat]
    /\ runner \in [Owners -> Runners]
    /\ stalled \in BOOLEAN
    /\ \A e \in Effects :
          /\ effect[e].owner <= request.owner
          /\ effect[e].state = "leased" <=> effect[e].owner # 0
          /\ effect[e].live => effect[e].state = "leased"

\* However runners overlap, the ledger keeps what the receipt promises: effects
\* in order, no receipt for a change that was not made, nothing touched after
\* it was settled, acceptance last.
Receipt == INSTANCE CompletionReceipt WITH
    performed <- {e \in Effects : done[e] > 0},
    settled <- {e \in Effects : IsSettled(e)},
    givenUp <- {e \in Effects : effect[e].state = "quarantined"},
    accepted <- request.phase = "accepted"

ImplementsReceipt == Receipt!ReceiptSpec

\* If leases run out only under dead runners, a change that reconcile can see
\* is made once. (runtime-completion-effect-runner.test.ts: "reconciles an
\* externally applied effect after a crash without applying twice".)
CrashesDoNotRepeat == ~stalled => \A e \in Observable : done[e] <= 1

\* An effect is given up only by a runner that counted its last attempt.
GivenUpAfterLastAttempt ==
    \A e \in Effects : effect[e].state = "quarantined" => effect[e].attempts >= MaxAttempts

\* The receipt is carried through: the completion is accepted, unless one of
\* its effects used up its attempts.
EveryReceiptSettles ==
    <>(request.phase = "accepted" \/ \E e \in Effects : effect[e].state = "quarantined")
=============================================================================
