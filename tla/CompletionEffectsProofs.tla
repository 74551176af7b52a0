----------------------- MODULE CompletionEffectsProofs -----------------------
(***************************************************************************)
(* The effect ledger implements the receipt for every manifest, every      *)
(* number of owners and every budget, whether leases run out under living  *)
(* runners or not.                                                         *)
(*                                                                         *)
(* The argument: a runner claims an effect only in its turn, and a turn    *)
(* once come stays, because no step unsettles an effect.  So whatever a    *)
(* runner does with the effect it remembers, however late, is in turn; and *)
(* before it settles one it has performed it or seen it performed.         *)
(*                                                                         *)
(* OnceInv is about leases that run out under dead runners only: the       *)
(* owners then come one after another (OneRunner), so what a runner has    *)
(* seen undone nobody else does before it (AppliesOnce).                   *)
(***************************************************************************)
EXTENDS CompletionEffects, TLAPS

Turn(e) == \A d \in Effects : d < e => IsSettled(d)

RunnersInTurn == \A g \in Owners : runner[g].pc \in Working => Turn(runner[g].effect)

SettlesWhatWasDone ==
    \A g \in Owners : runner[g].pc \in {"performed", "observed"} =>
        done[runner[g].effect] > 0

CommitIsEarned == request.phase # "owner_committed" => AllSettled

LedgerInv ==
    /\ EffectsTypeOK
    /\ RunnersInTurn
    /\ SettlesWhatWasDone
    /\ CommitIsEarned

-----------------------------------------------------------------------------
(* Types *)

LEMMA InitTypes == EffectsInit => EffectsTypeOK
<1> SUFFICES ASSUME EffectsInit PROVE EffectsTypeOK
    OBVIOUS
<1>1. stalled \in BOOLEAN
    BY DEF EffectsInit
<1>2. QED
    BY <1>1, EffectsAssumption
       DEF EffectsInit, EffectsTypeOK, Owners, Phases, EffectRows, Runners, Runner, Idle, Done

\* A runner that goes on is one that stands elsewhere.
LEMMA RunnerTypes ==
    ASSUME runner \in [Owners -> Runners], NEW g \in Owners, NEW row \in Runners,
           runner' = [runner EXCEPT ![g] = row]
    PROVE  runner' \in [Owners -> Runners]
OBVIOUS

\* It keeps its claim while it works on it, and has none at other times.
LEMMA GoesTypes ==
    ASSUME runner \in [Owners -> Runners], NEW g \in Owners, NEW pc,
           \/ runner[g].pc \in Working /\ pc \in Working
           \/ runner[g].pc \in Idle /\ pc \in Idle,
           Goes(g, pc)
    PROVE  runner' \in [Owners -> Runners]
<1>1. Standing(g, pc) \in Runners
    BY DEF Standing, Runners, Idle, Working
<1>2. QED
    BY <1>1, RunnerTypes DEF Goes

LEMMA FreshTypes ==
    ASSUME runner \in [Owners -> Runners], NEW g \in Owners, NEW pc \in Idle,
           runner' = [runner EXCEPT ![g] = Runner(pc)]
    PROVE  runner' \in [Owners -> Runners]
<1>1. Runner(pc) \in Runners
    BY DEF Runner, Runners
<1>2. QED
    BY <1>1, RunnerTypes

\* One row of the ledger changes.
LEMMA RowTypes ==
    ASSUME EffectsTypeOK, stalled' \in BOOLEAN, NEW e \in Effects, NEW row \in EffectRows,
           row.owner <= request.owner,
           row.state = "leased" <=> row.owner # 0,
           row.live => row.state = "leased",
           effect' = [effect EXCEPT ![e] = row],
           UNCHANGED <<request, done>>,
           runner' \in [Owners -> Runners]
    PROVE  EffectsTypeOK'
BY DEF EffectsTypeOK

\* A row that leaves its lease, whatever it becomes.
LEMMA UnleasedTypes ==
    ASSUME EffectsTypeOK, stalled' \in BOOLEAN, NEW e \in Effects,
           NEW state \in {"pending", "quarantined"} \cup Done,
           effect' = [effect EXCEPT ![e] = Unleased(e, state)],
           UNCHANGED <<request, done>>,
           runner' \in [Owners -> Runners]
    PROVE  EffectsTypeOK'
<1>1. Unleased(e, state) \in EffectRows
    BY EffectsAssumption DEF EffectsTypeOK, Unleased, EffectRows, Done
<1>2. Unleased(e, state).owner = 0 /\ Unleased(e, state).live = FALSE
      /\ Unleased(e, state).state # "leased"
    BY DEF Unleased, Done
<1>3. 0 <= request.owner
    BY DEF EffectsTypeOK, Owners
<1>4. QED
    BY <1>1, <1>2, <1>3, RowTypes

LEMMA ClaimTypes ==
    ASSUME EffectsTypeOK, stalled' \in BOOLEAN, NEW g \in Owners, NEW e \in Effects, ClaimEffect(g, e)
    PROVE  EffectsTypeOK'
<1>1. Leased(g, e) \in EffectRows
    BY EffectsAssumption DEF EffectsTypeOK, Leased, EffectRows, Owners
<1>2. /\ Leased(g, e).owner = request.owner
      /\ Leased(g, e).state = "leased"
      /\ Leased(g, e).owner # 0
    BY DEF ClaimEffect, OwnsRequest, Leased, Owners
<1>3. [pc |-> "leased", effect |-> e, token |-> effect[e].attempts + 1] \in Runners
    BY DEF EffectsTypeOK, Runners, EffectRows, Working
<1>4. runner' \in [Owners -> Runners]
    BY <1>3, RunnerTypes DEF ClaimEffect, EffectsTypeOK
<1>5. request.owner \in Nat
    BY DEF EffectsTypeOK, Owners
<1>6. Leased(g, e).owner <= request.owner
    BY <1>2, <1>5
<1>7. effect' = [effect EXCEPT ![e] = Leased(g, e)] /\ UNCHANGED <<request, done>>
    BY DEF ClaimEffect
<1>8. QED
    BY <1>1, <1>2, <1>4, <1>6, <1>7, RowTypes

LEMMA SettleTypes ==
    ASSUME EffectsTypeOK, stalled' \in BOOLEAN, NEW g \in Owners, Settle(g)
    PROVE  EffectsTypeOK'
<1>1. runner[g].pc \in Working /\ runner[g].effect \in Effects
    BY DEF Settle, EffectsTypeOK, Runners, Idle, Working
<1>2. CASE HoldsLease(g)
  <2> DEFINE result == IF At(g, "performed") THEN "applied" ELSE "reconciled"
  <2>1. result \in Done
    BY DEF Done
  <2>2. runner' \in [Owners -> Runners]
    BY <1>2, FreshTypes DEF Settle, EffectsTypeOK, Idle
  <2>3. effect' = [effect EXCEPT ![runner[g].effect] = Unleased(runner[g].effect, result)]
    BY <1>2 DEF Settle
  <2>4. QED
    BY <1>1, <2>1, <2>2, <2>3, UnleasedTypes DEF Settle
<1>3. CASE ~HoldsLease(g)
  <2>1. runner' \in [Owners -> Runners]
    BY <1>1, <1>3, GoesTypes DEF EffectsTypeOK, Settle, Working
  <2>2. QED
    BY <1>3, <2>1 DEF EffectsTypeOK, Settle
<1>4. QED
    BY <1>2, <1>3

LEMMA FailureTypes ==
    ASSUME EffectsTypeOK, stalled' \in BOOLEAN, NEW g \in Owners, HandleFailure(g)
    PROVE  EffectsTypeOK'
<1>1. runner[g].effect \in Effects
    BY DEF HandleFailure, At, EffectsTypeOK, Runners, Idle, Working
<1>2. runner' \in [Owners -> Runners]
    BY FreshTypes DEF HandleFailure, Leaves, EffectsTypeOK, Idle
<1>3. CASE UNCHANGED effect
    BY <1>2, <1>3 DEF HandleFailure, EffectsTypeOK
<1>4. ASSUME NEW state \in {"pending", "quarantined"},
             effect' = [effect EXCEPT ![runner[g].effect] = Unleased(runner[g].effect, state)]
      PROVE  EffectsTypeOK'
    BY <1>1, <1>2, <1>4, UnleasedTypes DEF HandleFailure
<1>5. QED
    BY <1>3, <1>4 DEF HandleFailure

\* Whatever only moves the lease, phase or owner of the request.
LEMMA RequestTypes ==
    ASSUME EffectsTypeOK, stalled' \in BOOLEAN, UNCHANGED <<effect, done>>,
           request' \in [phase : Phases, owner : Owners, live : BOOLEAN],
           request'.owner >= request.owner,
           runner' \in [Owners -> Runners]
    PROVE  EffectsTypeOK'
<1>1. request.owner \in Nat /\ request'.owner \in Nat
    BY DEF EffectsTypeOK, Owners
<1>2. \A e \in Effects : effect[e].owner \in Nat
    BY EffectsAssumption DEF EffectsTypeOK, EffectRows
<1>3. QED
    BY <1>1, <1>2 DEF EffectsTypeOK

LEMMA CommitTypes ==
    ASSUME EffectsTypeOK, stalled' \in BOOLEAN, NEW g \in Owners, MarkEffectsCommitted(g) \/ AcceptAndRelease(g)
    PROVE  EffectsTypeOK'
<1>1. runner' \in [Owners -> Runners]
  <2>1. CASE MarkEffectsCommitted(g)
    BY <2>1, GoesTypes DEF MarkEffectsCommitted, At, Idle, EffectsTypeOK
  <2>2. CASE AcceptAndRelease(g)
    BY <2>2, FreshTypes DEF AcceptAndRelease, Leaves, Idle, EffectsTypeOK
  <2>3. QED
    BY <2>1, <2>2
<1>2. request' \in [phase : Phases, owner : Owners, live : BOOLEAN]
      /\ request'.owner = request.owner
    BY DEF EffectsTypeOK, MarkEffectsCommitted, AcceptAndRelease, Phases
<1>3. request.owner \in Nat
    BY DEF EffectsTypeOK, Owners
<1>4. QED
    BY <1>1, <1>2, <1>3, RequestTypes DEF MarkEffectsCommitted, AcceptAndRelease

LEMMA AdoptTypes ==
    ASSUME EffectsTypeOK, stalled' \in BOOLEAN, AdoptReceipt
    PROVE  EffectsTypeOK'
<1>1. request.owner \in Nat /\ request.owner + 1 \in Owners
    BY EffectsAssumption DEF EffectsTypeOK, Owners, AdoptReceipt
<1>2. runner' \in [Owners -> Runners]
  <2>1. (IF request.phase = "owner_committed" THEN "loop" ELSE "accept") \in Idle
    BY DEF Idle
  <2>2. QED
    BY <1>1, <2>1, FreshTypes DEF AdoptReceipt, EffectsTypeOK
<1>3. request' \in [phase : Phases, owner : Owners, live : BOOLEAN]
      /\ request'.owner = request.owner + 1
    BY <1>1 DEF EffectsTypeOK, AdoptReceipt
<1>4. QED
    BY <1>1, <1>2, <1>3, RequestTypes DEF AdoptReceipt

LEMMA ExpiryTypes ==
    ASSUME EffectsTypeOK, stalled' \in BOOLEAN, Clock
    PROVE  EffectsTypeOK'
<1>1. CASE ExpireRequestLease
  <2>1. request' \in [phase : Phases, owner : Owners, live : BOOLEAN]
        /\ request'.owner = request.owner
    BY <1>1 DEF EffectsTypeOK, ExpireRequestLease
  <2>2. request.owner \in Nat
    BY DEF EffectsTypeOK, Owners
  <2>3. QED
    BY <1>1, <2>1, <2>2, RequestTypes DEF ExpireRequestLease, EffectsTypeOK
<1>2. ASSUME NEW e \in Effects, ExpireEffectLease(e) PROVE EffectsTypeOK'
  <2> DEFINE row == [effect[e] EXCEPT !.live = FALSE]
  <2>1. row \in EffectRows
    BY DEF EffectsTypeOK, EffectRows
  <2>2. row.owner = effect[e].owner /\ row.state = effect[e].state /\ row.live = FALSE
    BY DEF EffectsTypeOK, EffectRows
  <2>3. effect' = [effect EXCEPT ![e] = row]
    BY <1>2 DEF ExpireEffectLease
  <2>4. runner' \in [Owners -> Runners] /\ UNCHANGED <<request, done>>
    BY <1>2 DEF ExpireEffectLease, EffectsTypeOK
  <2>5. row.owner <= request.owner /\ (row.state = "leased" <=> row.owner # 0)
        /\ (row.live => row.state = "leased")
    BY <2>2 DEF EffectsTypeOK
  <2> HIDE DEF row
  <2>6. QED
    BY <2>1, <2>3, <2>4, <2>5, RowTypes
<1>3. QED
    BY <1>1, <1>2 DEF Clock

LEMMA StepTypes == EffectsTypeOK /\ [EffectsNext]_effectsVars => EffectsTypeOK'
<1> SUFFICES ASSUME EffectsTypeOK, [EffectsNext]_effectsVars PROVE EffectsTypeOK'
    OBVIOUS
<1>0. stalled' \in BOOLEAN
    BY Zenon DEF EffectsTypeOK, EffectsNext, Clock, ExpireRequestLease, ExpireEffectLease,
       LosesTime, effectsVars
<1>1. CASE UNCHANGED effectsVars
    BY <1>1 DEF effectsVars, EffectsTypeOK
<1>2. ASSUME NEW g \in Owners, Reconcile(g) \/ AssertLease(g) \/ OperationFails(g)
      PROVE  EffectsTypeOK'
  <2>1. runner' \in [Owners -> Runners]
    BY <1>2, GoesTypes DEF EffectsTypeOK, Reconcile, AssertLease, OperationFails, At, Working
  <2>2. QED
    BY <1>0, <1>2, <2>1 DEF EffectsTypeOK, Reconcile, AssertLease, OperationFails
<1>3. ASSUME NEW g \in Owners, EndOfLedger(g) \/ ReadLedger(g) PROVE EffectsTypeOK'
  <2>1. runner' \in [Owners -> Runners]
    BY <1>3, GoesTypes DEF EffectsTypeOK, EndOfLedger, ReadLedger, At, Idle
  <2>2. QED
    BY <1>0, <1>3, <2>1 DEF EffectsTypeOK, EndOfLedger, ReadLedger
<1>4. ASSUME NEW g \in Owners, Crash(g) PROVE EffectsTypeOK'
  <2>1. runner' \in [Owners -> Runners]
    BY <1>4, FreshTypes DEF EffectsTypeOK, Crash, Leaves, Idle
  <2>2. QED
    BY <1>0, <1>4, <2>1 DEF EffectsTypeOK, Crash
<1>5. ASSUME NEW g \in Owners, Apply(g) PROVE EffectsTypeOK'
  <2>1. runner' \in [Owners -> Runners]
    BY <1>5, GoesTypes DEF EffectsTypeOK, Apply, At, Working
  <2>2. runner[g].effect \in Effects
    BY <1>5 DEF EffectsTypeOK, Apply, At, Runners, Idle
  <2>3. done' \in [Effects -> Nat]
    BY <1>5, <2>2 DEF EffectsTypeOK, Apply
  <2>4. QED
    BY <1>0, <1>5, <2>1, <2>3 DEF EffectsTypeOK, Apply
<1>6. QED
    BY <1>0, <1>1, <1>2, <1>3, <1>4, <1>5, ClaimTypes, SettleTypes, FailureTypes, CommitTypes,
       AdoptTypes, ExpiryTypes
       DEF EffectsNext, RunnerStep

\* The ledger keeps its shape, for every manifest, owner and budget.
THEOREM EffectsTypesHold == EffectsSpec => []EffectsTypeOK
BY InitTypes, StepTypes, PTL DEF EffectsSpec

-----------------------------------------------------------------------------
(* Every settlement stays, so every turn does *)

\* Only an open row changes.
LEMMA SettledStays ==
    ASSUME EffectsTypeOK, [EffectsNext]_effectsVars, NEW e \in Effects, IsSettled(e)
    PROVE  effect'[e] = effect[e] /\ IsSettled(e)'
<1> SUFFICES effect'[e] = effect[e]
    BY DEF IsSettled
<1>1. effect \in [Effects -> EffectRows] /\ effect[e].state \notin {"pending", "leased"}
    BY DEF EffectsTypeOK, IsSettled, Done
<1>2. CASE UNCHANGED effect
    BY <1>2
<1>3. ASSUME NEW g \in Owners, NEW d \in Effects, ClaimEffect(g, d) PROVE effect'[e] = effect[e]
    BY <1>1, <1>3 DEF ClaimEffect, Claimable
<1>4. ASSUME NEW g \in Owners, Settle(g) \/ HandleFailure(g) PROVE effect'[e] = effect[e]
    BY <1>1, <1>2, <1>4 DEF Settle, HandleFailure, HoldsLease
<1>5. ASSUME NEW d \in Effects, ExpireEffectLease(d) PROVE effect'[e] = effect[e]
    BY <1>1, <1>5 DEF ExpireEffectLease
<1>6. CASE Clock
    BY <1>2, <1>5, <1>6 DEF Clock, ExpireRequestLease
<1>7. CASE AdoptReceipt
    BY <1>2, <1>7 DEF AdoptReceipt
<1>8. ASSUME NEW g \in Owners, RunnerStep(g) \/ OperationFails(g) \/ Crash(g)
      PROVE  effect'[e] = effect[e]
    BY <1>2, <1>3, <1>4, <1>8
       DEF RunnerStep, OperationFails, Crash, Reconcile, AssertLease, Apply, EndOfLedger,
           ReadLedger, MarkEffectsCommitted, AcceptAndRelease
<1>9. QED
    BY <1>2, <1>6, <1>7, <1>8 DEF EffectsNext, effectsVars

LEMMA TurnStays ==
    ASSUME EffectsTypeOK, [EffectsNext]_effectsVars, NEW e \in Effects, Turn(e)
    PROVE  Turn(e)'
BY SettledStays DEF Turn

LEMMA AllSettledStays ==
    ASSUME EffectsTypeOK, [EffectsNext]_effectsVars, AllSettled
    PROVE  AllSettled'
BY SettledStays DEF AllSettled

-----------------------------------------------------------------------------
(* How a runner came to stand where it stands *)

\* The steps of g that leave it at work, and what they presuppose.
LEMMA RunnerMoves ==
    ASSUME EffectsTypeOK, [EffectsNext]_effectsVars, NEW g \in Owners,
           runner'[g].pc \in Working
    PROVE  \/ /\ runner[g].pc \in Working
              /\ runner'[g].effect = runner[g].effect
              /\ \/ runner'[g].pc = runner[g].pc
                 \/ runner'[g].pc \in {"unapplied", "applying", "failed"}
                 \/ Apply(g)
                 \/ Reconcile(g)
           \/ \E e \in Effects : ClaimEffect(g, e)
<1>1. runner \in [Owners -> Runners]
    BY DEF EffectsTypeOK
<1>2. CASE UNCHANGED runner
    BY <1>2
<1>3. ASSUME NEW h \in Owners, RunnerStep(h) \/ OperationFails(h) \/ Crash(h), h # g
      PROVE  runner'[g] = runner[g]
    BY <1>1, <1>3
       DEF RunnerStep, OperationFails, Crash, ClaimEffect, Reconcile, AssertLease, Apply, Settle,
           HandleFailure, EndOfLedger, ReadLedger, MarkEffectsCommitted, AcceptAndRelease,
           Goes, Leaves
<1>4. CASE AdoptReceipt
    BY <1>1, <1>4 DEF AdoptReceipt, Runner, Working
<1>5. CASE OperationFails(g) \/ AssertLease(g) \/ Apply(g) \/ Reconcile(g)
  <2>1. runner[g].pc \in Working
    BY <1>5 DEF OperationFails, AssertLease, Apply, Reconcile, At, Working
  <2>2. PICK pc : runner' = [runner EXCEPT ![g] = Standing(g, pc)]
    BY <1>5 DEF OperationFails, AssertLease, Apply, Reconcile, Goes
  <2>3. runner'[g].effect = runner[g].effect
    BY <1>1, <2>2 DEF Standing
  <2>4. OperationFails(g) \/ AssertLease(g) => runner'[g].pc \in {"applying", "failed"}
    BY <1>1 DEF OperationFails, AssertLease, Goes, Standing
  <2>5. QED
    BY <1>5, <2>1, <2>3, <2>4
<1>6. CASE Settle(g)
  <2>1. CASE HoldsLease(g)
    BY <1>1, <1>6, <2>1 DEF Settle, Runner, Working
  <2>2. CASE ~HoldsLease(g)
    <3>1. runner'[g].effect = runner[g].effect /\ runner'[g].pc = "failed"
        BY <1>1, <1>6, <2>2 DEF Settle, Goes, Standing
    <3>2. QED
        BY <1>6, <3>1 DEF Settle, Working
  <2>3. QED
    BY <2>1, <2>2
<1>7. CASE HandleFailure(g) \/ Crash(g) \/ AcceptAndRelease(g)
    BY <1>1, <1>7 DEF HandleFailure, Crash, AcceptAndRelease, Leaves, Runner, Working
<1>8. CASE EndOfLedger(g) \/ ReadLedger(g) \/ MarkEffectsCommitted(g)
    BY <1>1, <1>8 DEF EndOfLedger, ReadLedger, MarkEffectsCommitted, Goes, Standing, Working
<1>9. CASE RunnerStep(g) \/ OperationFails(g) \/ Crash(g)
    BY <1>5, <1>6, <1>7, <1>8, <1>9 DEF RunnerStep
<1>10. CASE Clock
    BY <1>2, <1>10 DEF Clock, ExpireRequestLease, ExpireEffectLease
<1>11. QED
    BY <1>2, <1>3, <1>4, <1>9, <1>10 DEF EffectsNext, effectsVars

LEMMA StepInTurn ==
    ASSUME EffectsTypeOK, RunnersInTurn, [EffectsNext]_effectsVars
    PROVE  RunnersInTurn'
<1> SUFFICES ASSUME NEW g \in Owners, runner'[g].pc \in Working
             PROVE  Turn(runner[g].effect)'
    BY DEF RunnersInTurn
<1>1. CASE runner[g].pc \in Working /\ runner'[g].effect = runner[g].effect
  <2>1. runner[g].effect \in Effects /\ Turn(runner[g].effect)
    BY <1>1 DEF RunnersInTurn, EffectsTypeOK, Runners, Idle, Working
  <2>2. Turn(runner[g].effect)'
    BY <1>1, <2>1, SettledStays DEF Turn
  <2>3. QED
    BY <2>2
<1>2. ASSUME NEW e \in Effects, ClaimEffect(g, e) PROVE Turn(runner[g].effect)'
  <2>1. runner'[g].effect = e
    BY <1>2 DEF ClaimEffect, EffectsTypeOK
  <2>2. Turn(e)
    BY <1>2 DEF ClaimEffect, Claimable, Turn
  <2>3. QED
    BY <2>1, <2>2, SettledStays DEF Turn
<1>3. QED
    BY <1>1, <1>2, RunnerMoves

\* What was done stays done.
LEMMA DoneStays ==
    ASSUME EffectsTypeOK, [EffectsNext]_effectsVars, NEW e \in Effects, done[e] > 0
    PROVE  done'[e] > 0
<1>1. CASE UNCHANGED done
    BY <1>1
<1>2. ASSUME NEW g \in Owners, Apply(g) PROVE done'[e] > 0
  <2>1. done \in [Effects -> Nat] /\ runner[g].effect \in Effects
    BY <1>2 DEF EffectsTypeOK, Apply, At, Runners, Idle
  <2>2. done' = [done EXCEPT ![runner[g].effect] = done[runner[g].effect] + 1]
    BY <1>2 DEF Apply
  <2>3. QED
    BY <2>1, <2>2
<1>3. QED
    BY <1>1, <1>2
       DEF EffectsNext, effectsVars, Clock, ExpireRequestLease, ExpireEffectLease, AdoptReceipt,
           RunnerStep, OperationFails, Crash, ClaimEffect, Reconcile, AssertLease, Settle,
           HandleFailure, EndOfLedger, ReadLedger, MarkEffectsCommitted, AcceptAndRelease

LEMMA StepSettlesWhatWasDone ==
    ASSUME EffectsTypeOK, SettlesWhatWasDone, [EffectsNext]_effectsVars
    PROVE  SettlesWhatWasDone'
<1> SUFFICES ASSUME NEW g \in Owners, runner'[g].pc \in {"performed", "observed"}
             PROVE  done'[runner'[g].effect] > 0
    BY DEF SettlesWhatWasDone
<1>1. \A e \in Effects : ~ClaimEffect(g, e)
    BY DEF ClaimEffect, EffectsTypeOK
<1>2. /\ runner[g].pc \in Working
      /\ runner'[g].effect = runner[g].effect
      /\ runner'[g].pc = runner[g].pc \/ Apply(g) \/ Reconcile(g)
    BY <1>1, RunnerMoves DEF Working
<1>3. runner[g].effect \in Effects
    BY <1>2 DEF EffectsTypeOK, Runners, Idle, Working
<1>4. CASE runner'[g].pc = runner[g].pc
    BY <1>2, <1>3, <1>4, DoneStays DEF SettlesWhatWasDone
<1>5. CASE Apply(g)
  <2>1. done' = [done EXCEPT ![runner[g].effect] = done[runner[g].effect] + 1]
    BY <1>5 DEF Apply
  <2>2. QED
    BY <1>2, <1>3, <2>1 DEF EffectsTypeOK
<1>6. CASE Reconcile(g)
  <2>1. done[runner[g].effect] > 0
    BY <1>6 DEF Reconcile, Goes, Standing, EffectsTypeOK
  <2>2. QED
    BY <1>2, <1>3, <2>1, DoneStays
<1>7. QED
    BY <1>2, <1>4, <1>5, <1>6

LEMMA StepCommitIsEarned ==
    ASSUME EffectsTypeOK, CommitIsEarned, [EffectsNext]_effectsVars
    PROVE  CommitIsEarned'
<1>1. request' \in [phase : Phases, owner : Owners, live : BOOLEAN]
    BY StepTypes DEF EffectsTypeOK
<1>2. ASSUME request'.phase # "owner_committed" PROVE AllSettled
  <2>1. CASE request.phase # "owner_committed"
    BY <2>1 DEF CommitIsEarned
  <2>2. CASE request.phase = "owner_committed" /\ request' # request
    BY <1>2, <2>2
       DEF EffectsNext, effectsVars, EffectsTypeOK, Clock, ExpireRequestLease, ExpireEffectLease,
           AdoptReceipt, RunnerStep, OperationFails, Crash, ClaimEffect, Reconcile, AssertLease,
           Apply, Settle, HandleFailure, EndOfLedger, ReadLedger, MarkEffectsCommitted,
           AcceptAndRelease, OwnsRequest
  <2>3. QED
    BY <1>2, <2>1, <2>2
<1>3. QED
    BY <1>2, AllSettledStays DEF CommitIsEarned

LEMMA InitLedger == EffectsInit => LedgerInv
BY InitTypes DEF EffectsInit, LedgerInv, RunnersInTurn, SettlesWhatWasDone, CommitIsEarned,
                 Runner, Working

LEMMA StepLedger == LedgerInv /\ [EffectsNext]_effectsVars => LedgerInv'
BY StepTypes, StepInTurn, StepSettlesWhatWasDone, StepCommitIsEarned DEF LedgerInv

-----------------------------------------------------------------------------
(* The receipt *)

\* What the mapped variables become, for the steps that touch one of them.
Performed == {e \in Effects : done[e] > 0}
Settled == {e \in Effects : IsSettled(e)}
GivenUp == {e \in Effects : effect[e].state = "quarantined"}
Accepted == request.phase = "accepted"

Unmoved ==
    /\ Performed' = Performed
    /\ Settled' = Settled
    /\ GivenUp' = GivenUp
    /\ Accepted' = Accepted

\* The receipt stutters.
LEMMA Stutters ==
    ASSUME Unmoved
    PROVE  UNCHANGED Receipt!receiptVars
BY DEF Unmoved, Performed, Settled, GivenUp, Accepted, Receipt!receiptVars

LEMMA InitReceipt == EffectsInit => Receipt!ReceiptInit
BY DEF EffectsInit, IsSettled, Done, Receipt!ReceiptInit

\* Neither the clock, nor a claim, nor a runner that only goes on is seen.
LEMMA UnseenSteps ==
    ASSUME LedgerInv,
           \/ UNCHANGED effectsVars \/ Clock \/ AdoptReceipt
           \/ \E g \in Owners :
                 \/ \E e \in Effects : ClaimEffect(g, e)
                 \/ Reconcile(g) \/ AssertLease(g) \/ EndOfLedger(g) \/ ReadLedger(g)
                 \/ MarkEffectsCommitted(g) \/ OperationFails(g) \/ Crash(g)
    PROVE  Unmoved
<1>1. effect \in [Effects -> EffectRows] /\ request \in [phase : Phases, owner : Owners, live : BOOLEAN]
    BY DEF LedgerInv, EffectsTypeOK
<1>2. UNCHANGED done
    BY DEF effectsVars, Clock, ExpireRequestLease, ExpireEffectLease, AdoptReceipt, ClaimEffect,
           Reconcile, AssertLease, EndOfLedger, ReadLedger, MarkEffectsCommitted, OperationFails,
           Crash
<1>3. Accepted' = Accepted
  <2>1. CASE UNCHANGED request
    BY <2>1 DEF Accepted
  <2>2. CASE \E g \in Owners : MarkEffectsCommitted(g)
    BY <1>1, <2>1, <2>2 DEF Accepted, MarkEffectsCommitted, OwnsRequest
  <2>3. CASE ExpireRequestLease \/ AdoptReceipt
    BY <1>1, <2>3 DEF Accepted, ExpireRequestLease, AdoptReceipt
  <2>4. QED
    BY <2>1, <2>2, <2>3
       DEF effectsVars, Clock, ExpireEffectLease, ClaimEffect, Reconcile, AssertLease,
           EndOfLedger, ReadLedger, OperationFails, Crash
<1>4. \A e \in Effects : /\ IsSettled(e)' <=> IsSettled(e)
                         /\ effect'[e].state = "quarantined" <=> effect[e].state = "quarantined"
  <2>1. CASE UNCHANGED effect
    BY <2>1 DEF IsSettled
  <2>2. ASSUME NEW g \in Owners, NEW d \in Effects, ClaimEffect(g, d)
        PROVE  /\ effect[d].state \in {"pending", "leased"}
               /\ effect' = [effect EXCEPT ![d] = Leased(g, d)]
    BY <2>2 DEF ClaimEffect, Claimable
  <2>3. ASSUME NEW g \in Owners, NEW d \in Effects, ClaimEffect(g, d), NEW e \in Effects
        PROVE  /\ IsSettled(e)' <=> IsSettled(e)
               /\ effect'[e].state = "quarantined" <=> effect[e].state = "quarantined"
    BY <1>1, <2>2, <2>3 DEF IsSettled, Done, Leased
  <2>4. ASSUME NEW d \in Effects, ExpireEffectLease(d), NEW e \in Effects
        PROVE  effect'[e].state = effect[e].state
    <3>1. [effect[d] EXCEPT !.live = FALSE].state = effect[d].state
        BY <1>1 DEF EffectRows
    <3>2. QED
        BY <1>1, <2>4, <3>1 DEF ExpireEffectLease
  <2>5. QED
    BY <2>1, <2>3, <2>4
       DEF effectsVars, Clock, ExpireRequestLease, AdoptReceipt, Reconcile, AssertLease,
           EndOfLedger, ReadLedger, MarkEffectsCommitted, OperationFails, Crash, IsSettled
<1>5. QED
    BY <1>2, <1>3, <1>4 DEF Unmoved, Performed, Settled, GivenUp

LEMMA ApplyPerforms ==
    ASSUME LedgerInv, NEW g \in Owners, Apply(g)
    PROVE  Receipt!ReceiptNext
<1>1. PICK e \in Effects : e = runner[g].effect
    BY DEF LedgerInv, EffectsTypeOK, Apply, At, Runners, Idle
<1>2. \A d \in Effects : d < e => IsSettled(d)
    BY <1>1 DEF LedgerInv, RunnersInTurn, Apply, At, Working, Turn
<1>3. {d \in Effects : done'[d] > 0} = {d \in Effects : done[d] > 0} \cup {e}
  <2>1. done \in [Effects -> Nat] /\ done' = [done EXCEPT ![e] = done[e] + 1]
    BY <1>1 DEF LedgerInv, EffectsTypeOK, Apply
  <2>2. done'[e] > 0 /\ \A d \in Effects : d # e => done'[d] = done[d]
    BY <2>1
  <2>3. QED
    BY <2>2
<1>4. Receipt!Perform(e)
    BY <1>2, <1>3 DEF Apply, Receipt!Perform, IsSettled
<1>5. QED
    BY <1>4 DEF Receipt!ReceiptNext

\* An open row whose turn has come is the current one.
LEMMA HeldIsCurrent ==
    ASSUME LedgerInv, NEW g \in Owners, runner[g].pc \in Working, HoldsLease(g)
    PROVE  runner[g].effect \in Effects /\ Receipt!Current(runner[g].effect)
<1>1. runner[g].effect \in Effects /\ Turn(runner[g].effect)
    BY DEF LedgerInv, EffectsTypeOK, Runners, Idle, Working, RunnersInTurn
<1>2. effect[runner[g].effect].state = "leased"
    BY DEF HoldsLease
<1>3. QED
    BY <1>1, <1>2 DEF Receipt!Current, Turn, IsSettled, Done

LEMMA SettleSettles ==
    ASSUME LedgerInv, NEW g \in Owners, Settle(g)
    PROVE  Receipt!ReceiptNext \/ Unmoved
<1> DEFINE e == runner[g].effect
<1>1. CASE HoldsLease(g)
  <2>1. e \in Effects /\ Receipt!Current(e)
    BY <1>1, HeldIsCurrent DEF Settle, Working
  <2>2. done[e] > 0
    BY DEF LedgerInv, SettlesWhatWasDone, Settle
  <2>3. PICK result \in Done : effect' = [effect EXCEPT ![e] = Unleased(e, result)]
    BY <1>1 DEF Settle, Done
  <2>4. /\ effect'[e].state = result /\ effect[e].state = "leased"
        /\ \A d \in Effects : d # e => effect'[d] = effect[d]
    BY <1>1, <2>1, <2>3 DEF Unleased, HoldsLease, LedgerInv, EffectsTypeOK
  <2> HIDE DEF e
  <2>5. {d \in Effects : IsSettled(d)}' = {d \in Effects : IsSettled(d)} \cup {e}
    BY <2>1, <2>4 DEF IsSettled
  <2>6. {d \in Effects : effect'[d].state = "quarantined"}
            = {d \in Effects : effect[d].state = "quarantined"}
    BY <2>1, <2>4 DEF Done
  <2>7. UNCHANGED <<request, done>>
    BY DEF Settle
  <2>8. Receipt!Settle(e)
    BY <2>1, <2>2, <2>5, <2>6, <2>7 DEF Receipt!Settle
  <2>9. QED
    BY <2>1, <2>8 DEF Receipt!ReceiptNext
<1>2. CASE ~HoldsLease(g)
    BY <1>2 DEF Settle, Unmoved, Performed, Settled, GivenUp, Accepted, IsSettled
<1>3. QED
    BY <1>1, <1>2

LEMMA FailureGivesUp ==
    ASSUME LedgerInv, NEW g \in Owners, HandleFailure(g)
    PROVE  Receipt!ReceiptNext \/ Unmoved
<1> PICK e \in Effects : e = runner[g].effect
    BY DEF HandleFailure, At, LedgerInv, EffectsTypeOK, Runners, Idle
<1>1. UNCHANGED <<request, done>>
    BY DEF HandleFailure
<1>2. ASSUME NEW state \in {"pending", "quarantined"}, HoldsLease(g),
             effect' = [effect EXCEPT ![e] = Unleased(e, state)]
      PROVE  Receipt!ReceiptNext \/ Unmoved
  <2>1. Receipt!Current(e)
    BY <1>2, HeldIsCurrent DEF HandleFailure, At, Working
  <2>2. /\ effect'[e].state = state /\ effect[e].state = "leased"
        /\ \A d \in Effects : d # e => effect'[d] = effect[d]
    BY <1>2, <2>1 DEF Unleased, HoldsLease, LedgerInv, EffectsTypeOK
  <2>3. {d \in Effects : IsSettled(d)}' = {d \in Effects : IsSettled(d)}
    BY <1>2, <2>1, <2>2 DEF IsSettled, Done
  <2>4. CASE state = "quarantined"
    <3>1. {d \in Effects : effect'[d].state = "quarantined"}
              = {d \in Effects : effect[d].state = "quarantined"} \cup {e}
        BY <2>1, <2>2, <2>4
    <3>2. Receipt!GiveUp(e)
        BY <1>1, <2>1, <2>3, <3>1 DEF Receipt!GiveUp
    <3>3. QED
        BY <2>1, <3>2 DEF Receipt!ReceiptNext
  <2>5. CASE state = "pending"
    <3>1. {d \in Effects : effect'[d].state = "quarantined"}
              = {d \in Effects : effect[d].state = "quarantined"}
        BY <2>1, <2>2, <2>5
    <3>2. QED
        BY <1>1, <2>3, <3>1 DEF Unmoved, Performed, Settled, GivenUp, Accepted
  <2>6. QED
    BY <2>4, <2>5
<1>3. CASE UNCHANGED effect
    BY <1>1, <1>3 DEF Unmoved, Performed, Settled, GivenUp, Accepted, IsSettled
<1>4. QED
    BY <1>2, <1>3 DEF HandleFailure

LEMMA AcceptAccepts ==
    ASSUME LedgerInv, NEW g \in Owners, AcceptAndRelease(g)
    PROVE  Receipt!ReceiptNext \/ Unmoved
<1>1. UNCHANGED <<effect, done>>
    BY DEF AcceptAndRelease
<1>2. CASE OwnsRequest(g, "effects_committed")
  <2>1. {e \in Effects : IsSettled(e)} = Effects
    BY <1>2 DEF LedgerInv, CommitIsEarned, AllSettled, OwnsRequest
  <2>2. request'.phase = "accepted"
    BY <1>2 DEF AcceptAndRelease, LedgerInv, EffectsTypeOK
  <2>3. Receipt!Accept
    BY <1>1, <2>1, <2>2 DEF Receipt!Accept, IsSettled
  <2>4. QED
    BY <2>3 DEF Receipt!ReceiptNext
<1>3. CASE ~OwnsRequest(g, "effects_committed")
    BY <1>1, <1>3 DEF AcceptAndRelease, Unmoved, Performed, Settled, GivenUp, Accepted, IsSettled
<1>4. QED
    BY <1>2, <1>3

LEMMA StepReceipt ==
    LedgerInv /\ [EffectsNext]_effectsVars => [Receipt!ReceiptNext]_(Receipt!receiptVars)
<1> SUFFICES ASSUME LedgerInv, [EffectsNext]_effectsVars
             PROVE  Receipt!ReceiptNext \/ UNCHANGED Receipt!receiptVars
    OBVIOUS
<1>1. Unmoved \/ Receipt!ReceiptNext
    BY UnseenSteps, ApplyPerforms, SettleSettles, FailureGivesUp, AcceptAccepts
       DEF EffectsNext, RunnerStep
<1>2. QED
    BY <1>1, Stutters

\* However many runners overlap, die or stall, the ledger keeps the receipt's
\* promise: in order, only for what was done, for good, and acceptance last.
THEOREM ReceiptImplemented == EffectsSpec => ImplementsReceipt
BY InitLedger, StepLedger, InitReceipt, StepReceipt, PTL
   DEF EffectsSpec, ImplementsReceipt, Receipt!ReceiptSpec

-----------------------------------------------------------------------------
(* The budget of attempts *)

LEMMA StepGivesUpInTime ==
    ASSUME LedgerInv, GivenUpAfterLastAttempt, [EffectsNext]_effectsVars
    PROVE  GivenUpAfterLastAttempt'
<1> SUFFICES ASSUME NEW e \in Effects, effect'[e].state = "quarantined"
             PROVE  effect'[e].attempts >= MaxAttempts
    BY DEF GivenUpAfterLastAttempt
<1>1. effect \in [Effects -> EffectRows]
    BY DEF LedgerInv, EffectsTypeOK
<1>2. CASE effect'[e] = effect[e]
    BY <1>2 DEF GivenUpAfterLastAttempt
<1>3. ASSUME NEW g \in Owners, NEW d \in Effects, ClaimEffect(g, d)
      PROVE  effect'[e] = effect[e]
    BY <1>1, <1>3 DEF ClaimEffect, Leased
<1>4. ASSUME NEW g \in Owners, Settle(g) PROVE effect'[e] = effect[e]
    BY <1>1, <1>4 DEF Settle, Unleased
<1>5. ASSUME NEW g \in Owners, HandleFailure(g), effect'[e] # effect[e]
      PROVE  effect'[e].attempts >= MaxAttempts
  <2>1. runner[g].effect = e /\ HoldsLease(g) /\ runner[g].token >= MaxAttempts
    BY <1>1, <1>5 DEF HandleFailure, Unleased
  <2>2. effect'[e].attempts = runner[g].token
    BY <1>1, <1>5, <2>1 DEF HandleFailure, Unleased, HoldsLease
  <2>3. QED
    BY <2>1, <2>2
<1>6. ASSUME NEW d \in Effects, ExpireEffectLease(d) PROVE effect'[e] = effect[e]
  <2>1. [effect[d] EXCEPT !.live = FALSE].state = "leased"
    BY <1>1, <1>6 DEF ExpireEffectLease, EffectRows
  <2>2. QED
    BY <1>1, <1>6, <2>1 DEF ExpireEffectLease
<1>7. QED
    BY <1>2, <1>3, <1>4, <1>5, <1>6
       DEF EffectsNext, effectsVars, Clock, ExpireRequestLease, AdoptReceipt, RunnerStep,
           OperationFails, Crash, Reconcile, AssertLease, Apply, EndOfLedger, ReadLedger,
           MarkEffectsCommitted, AcceptAndRelease

\* However often a lease changes hands, an effect is given up only by a runner
\* that holds it under its last counted attempt.
THEOREM NothingGivenUpEarly == EffectsSpec => []GivenUpAfterLastAttempt
<1>1. EffectsInit => GivenUpAfterLastAttempt
    BY DEF EffectsInit, GivenUpAfterLastAttempt
<1>2. QED
    BY <1>1, InitLedger, StepLedger, StepGivesUpInTime, PTL DEF EffectsSpec


-----------------------------------------------------------------------------
(* One runner at a time, while no lease runs out under a living one *)

\* Every owner before the present one is gone, every later one is yet to come,
\* and a lease that is over is that of an owner who is gone.
OneRunner ==
    /\ \A g \in Owners :
          /\ g < request.owner => At(g, "gone")
          /\ request.owner < g => At(g, "none")
    /\ ~request.live => At(request.owner, "gone")

\* What a runner is about to change and could have seen changed is not changed.
AppliesOnce ==
    \A g \in Owners :
        runner[g].pc \in {"unapplied", "applying"} /\ runner[g].effect \in Observable =>
            done[runner[g].effect] = 0

OnceInv ==
    ~stalled =>
        /\ OneRunner
        /\ AppliesOnce
        /\ \A e \in Observable : done[e] <= 1

\* Whoever is neither gone nor yet to come is the present owner.
LEMMA OwnerRuns ==
    ASSUME EffectsTypeOK, OneRunner, NEW g \in Owners, runner[g].pc \notin {"none", "gone"}
    PROVE  g = request.owner /\ request.live
<1>1. g \in Nat /\ request.owner \in Nat /\ request.owner \in Owners
    BY DEF EffectsTypeOK, Owners
<1>2. ~(g < request.owner) /\ ~(request.owner < g)
    BY DEF OneRunner, At
<1>3. g = request.owner
    BY <1>1, <1>2
<1>4. QED
    BY <1>3 DEF OneRunner, At, EffectsTypeOK

\* A step of a runner is one of the present owner, whom no other succeeds by it.
LEMMA RunnerStepsAlone ==
    ASSUME EffectsTypeOK, NEW g \in Owners, RunnerStep(g) \/ OperationFails(g) \/ Crash(g)
    PROVE  /\ runner[g].pc \notin {"none", "gone"}
           /\ \A h \in Owners \ {g} : runner'[h] = runner[h]
           /\ request'.owner = request.owner
           /\ request'.live = request.live \/ At(g, "gone")'
<1> USE DEF EffectsTypeOK
<1>1. runner[g].pc \notin {"none", "gone"}
    BY DEF RunnerStep, OperationFails, Crash, ClaimEffect, Reconcile, AssertLease, Apply, Settle,
           HandleFailure, EndOfLedger, ReadLedger, MarkEffectsCommitted, AcceptAndRelease, At, Working
<1>2. \A h \in Owners \ {g} : runner'[h] = runner[h]
    BY DEF RunnerStep, OperationFails, Crash, ClaimEffect, Reconcile, AssertLease, Apply, Settle,
           HandleFailure, EndOfLedger, ReadLedger, MarkEffectsCommitted, AcceptAndRelease, Goes, Leaves
<1>3. CASE AcceptAndRelease(g)
    BY <1>1, <1>2, <1>3 DEF AcceptAndRelease, Leaves, Runner, At
<1>4. CASE MarkEffectsCommitted(g)
    BY <1>1, <1>2, <1>4 DEF MarkEffectsCommitted
<1>5. CASE ~AcceptAndRelease(g) /\ ~MarkEffectsCommitted(g)
    <2>1. request' = request
        BY <1>5 DEF RunnerStep, OperationFails, Crash, ClaimEffect, Reconcile, AssertLease, Apply, Settle,
               HandleFailure, EndOfLedger, ReadLedger
    <2>2. QED
        BY <1>1, <1>2, <2>1
<1>6. QED
    BY <1>3, <1>4, <1>5

\* There is one runner still.
LEMMA OneRunnerStays ==
    ASSUME EffectsTypeOK, EffectsTypeOK', OneRunner, [EffectsNext]_effectsVars, ~stalled'
    PROVE  OneRunner'
<1>1. request.owner \in Owners /\ request'.owner \in Owners /\ Owners \subseteq Nat
    BY DEF EffectsTypeOK, Owners
<1>2. CASE UNCHANGED <<request, runner>>
    BY <1>2 DEF OneRunner, At
<1>3. CASE ExpireRequestLease
    <2>1. At(request.owner, "gone") /\ request'.owner = request.owner /\ runner' = runner
        BY <1>3 DEF ExpireRequestLease, LosesTime, EffectsTypeOK
    <2>2. QED
        BY <2>1 DEF OneRunner, At
<1>4. CASE AdoptReceipt
    <2>1. /\ At(request.owner, "gone")
          /\ request'.owner = request.owner + 1 /\ request'.live
          /\ \A g \in Owners : g # request.owner + 1 => runner'[g] = runner[g]
        BY <1>4 DEF AdoptReceipt, OneRunner, EffectsTypeOK
    <2>2. ASSUME NEW g \in Owners
          PROVE  /\ g < request'.owner => At(g, "gone")'
                 /\ request'.owner < g => At(g, "none")'
        <3>0. g \in Nat /\ request.owner \in Nat /\ request'.owner = request.owner + 1
            BY <1>1, <2>1
        <3>1. CASE g < request'.owner
            <4>1. (g < request.owner \/ g = request.owner) /\ g # request.owner + 1 /\ ~(request'.owner < g)
                BY <3>0, <3>1
            <4>2. QED
                BY <2>1, <4>1 DEF OneRunner, At
        <3>2. CASE request'.owner < g
            <4>1. request.owner < g /\ g # request.owner + 1 /\ ~(g < request'.owner)
                BY <3>0, <3>2
            <4>2. QED
                BY <2>1, <4>1 DEF OneRunner, At
        <3>3. QED
            BY <3>1, <3>2
    <2>3. QED
        BY <2>1, <2>2 DEF OneRunner
<1>5. ASSUME NEW g \in Owners, RunnerStep(g) \/ OperationFails(g) \/ Crash(g)
      PROVE  OneRunner'
    <2>1. /\ g = request.owner /\ request.live
          /\ \A h \in Owners \ {g} : runner'[h] = runner[h]
          /\ request'.owner = request.owner
          /\ request'.live = request.live \/ At(g, "gone")'
        BY <1>5, RunnerStepsAlone, OwnerRuns
    <2>2. ~(g < request'.owner) /\ ~(request'.owner < g)
        BY <1>1, <2>1
    <2>3. QED
        BY <2>1, <2>2 DEF OneRunner, At
<1>6. CASE \E e \in Effects : ExpireEffectLease(e)
    BY <1>2, <1>6 DEF ExpireEffectLease
<1>7. QED
    BY <1>2, <1>3, <1>4, <1>5, <1>6 DEF EffectsNext, Clock, effectsVars

\* The changes are made by the one runner, who has looked before.
LEMMA AppliesOnceStays ==
    ASSUME EffectsTypeOK, EffectsTypeOK', OneRunner, AppliesOnce, \A e \in Observable : done[e] <= 1,
           [EffectsNext]_effectsVars
    PROVE  AppliesOnce' /\ \A e \in Observable : done'[e] <= 1
<1>1. /\ runner \in [Owners -> Runners] /\ done \in [Effects -> Nat]
      /\ Observable \subseteq Effects
    BY EffectsAssumption DEF EffectsTypeOK
<1>2. CASE UNCHANGED <<runner, done>>
    BY <1>2 DEF AppliesOnce
<1>3. CASE AdoptReceipt
    BY <1>1, <1>3 DEF AdoptReceipt, AppliesOnce, Runner
<1>4. ASSUME NEW g \in Owners, Apply(g)
      PROVE  AppliesOnce' /\ \A e \in Observable : done'[e] <= 1
    <2>1. /\ runner[g].effect \in Effects /\ runner[g].pc = "applying"
          /\ done' = [done EXCEPT ![runner[g].effect] = done[runner[g].effect] + 1]
          /\ runner'[g].pc = "performed"
          /\ \A h \in Owners \ {g} : runner'[h] = runner[h]
        BY <1>1, <1>4 DEF Apply, At, Goes, Standing, Runners, Idle
    <2>2. \A h \in Owners \ {g} : runner[h].pc \in {"none", "gone"}
        BY <2>1, OwnerRuns
    <2>3. AppliesOnce'
        BY <2>1, <2>2 DEF AppliesOnce
    <2>4. \A e \in Observable : done'[e] <= 1
        BY <1>1, <2>1 DEF AppliesOnce
    <2>5. QED
        BY <2>3, <2>4
<1>5. ASSUME NEW g \in Owners, RunnerStep(g) \/ OperationFails(g) \/ Crash(g), ~Apply(g)
      PROVE  AppliesOnce' /\ \A e \in Observable : done'[e] <= 1
    <2>1. done' = done
        BY <1>5 DEF RunnerStep, OperationFails, Crash, ClaimEffect, Reconcile, AssertLease, Settle,
               HandleFailure, EndOfLedger, ReadLedger, MarkEffectsCommitted, AcceptAndRelease
    <2>2. \A h \in Owners \ {g} : runner'[h] = runner[h]
        BY <1>5, RunnerStepsAlone
    <2>3. ASSUME runner'[g].pc \in {"unapplied", "applying"}, runner'[g].effect \in Observable
          PROVE  done[runner'[g].effect] = 0
        <3>1. CASE Reconcile(g)
            <4>1. /\ runner'[g].effect = runner[g].effect
                  /\ ~(runner[g].effect \in Observable /\ done[runner[g].effect] > 0)
                BY <1>1, <2>3, <3>1 DEF Reconcile, Goes, Standing
            <4>2. done[runner[g].effect] \in Nat
                BY <1>1, <2>3, <4>1
            <4>3. QED
                BY <2>3, <4>1, <4>2
        <3>2. CASE AssertLease(g)
            BY <1>1, <2>3, <3>2 DEF AssertLease, At, Goes, Standing, AppliesOnce
        <3>3. CASE ~Reconcile(g) /\ ~AssertLease(g)
            BY <1>1, <1>5, <2>3, <3>3
               DEF RunnerStep, OperationFails, Crash, ClaimEffect, Settle, HandleFailure, EndOfLedger,
                   ReadLedger, MarkEffectsCommitted, AcceptAndRelease, Goes, Standing, Leaves, Runner
        <3>4. QED
            BY <3>1, <3>2, <3>3
    <2>4. QED
        BY <2>1, <2>2, <2>3 DEF AppliesOnce
<1>6. CASE Clock
    BY <1>2, <1>6 DEF Clock, ExpireRequestLease, ExpireEffectLease
<1>7. QED
    BY <1>2, <1>3, <1>4, <1>5, <1>6 DEF EffectsNext, effectsVars

\* A stall is remembered.
LEMMA StalledStays ==
    ASSUME EffectsTypeOK, [EffectsNext]_effectsVars, ~stalled'
    PROVE  ~stalled
BY Zenon DEF EffectsNext, Clock, ExpireRequestLease, ExpireEffectLease, LosesTime, effectsVars

\* The third invariant: without a stall one runner works at a time, and changes
\* only what it has not seen changed.
THEOREM OneRunnerAtATime == EffectsSpec => []OnceInv
<1>1. EffectsInit => OnceInv
    <2> SUFFICES ASSUME EffectsInit PROVE OnceInv
        OBVIOUS
    <2>1. Owners \subseteq Nat \ {0} /\ 1 \in Owners
        BY EffectsAssumption DEF Owners
    <2>2. OneRunner
        BY <2>1 DEF EffectsInit, OneRunner, At, Runner
    <2>3. AppliesOnce
        BY <2>1 DEF EffectsInit, AppliesOnce, Runner
    <2>4. \A e \in Observable : done[e] <= 1
        BY EffectsAssumption DEF EffectsInit
    <2>5. QED
        BY <2>2, <2>3, <2>4 DEF OnceInv
<1>2. EffectsTypeOK /\ EffectsTypeOK' /\ OnceInv /\ [EffectsNext]_effectsVars => OnceInv'
    BY StalledStays, OneRunnerStays, AppliesOnceStays DEF OnceInv
<1>3. QED
    BY <1>1, <1>2, EffectsTypesHold, PTL DEF EffectsSpec

\* Crashes alone never make an observable change twice, for any manifest,
\* number of owners and budget.
THEOREM CrashedEffectsRunOnce == EffectsSpec => []CrashesDoNotRepeat
<1>1. OnceInv => CrashesDoNotRepeat
    BY DEF OnceInv, CrashesDoNotRepeat
<1>2. QED
    BY <1>1, OneRunnerAtATime, PTL
=============================================================================
