------------------------ MODULE RecoveryDeliveryProofs ------------------------
(***************************************************************************)
(* One owner of a story, for every number of instances, revisions, leases  *)
(* and publications, and the refinement of the dispatch promise.           *)
(*                                                                         *)
(* No transaction reads everything it relies on: a worker acts on what it  *)
(* remembers of a delivery and a publication that others may have moved    *)
(* on. The invariant says what such a memory is worth. A publication       *)
(* belongs to the worker that made it (OwnerRemembers); it is an open      *)
(* claim of an active delivery as long as the delivery is still under the  *)
(* lease of that worker (UnreservedClaim); after the reservation the lease *)
(* of a model dispatch does not change hands any more                      *)
(* (ReservedKeepsLease).                                                   *)
(***************************************************************************)
EXTENDS RecoveryDelivery, WellFoundedInduction, TLAPS

\* The pcs at which a worker has work in hand, and at which it is evidence.
EvidencePcs == {"evidence_leased", "evidence_reserved", "evidence_running", "evidence_judged"}
RestPcs == {"idle", "discovered", "dead"}
ReservedPcs == {"reserved", "bound", "starting", "spawned", "running", "losing"}
OwnerPcs == {"published", "evidence_reserved", "evidence_running"} \cup ReservedPcs

\* Later revisions have no dispatch, a decision is carried out on a revision
\* that has none yet, and no class is dispatched twice.
RevisionsInOrder ==
    /\ \A r \in Revisions : r > Rev => delivery[r].state = "none"
    /\ coordinator # "none" => Current.state = "none"
    /\ \A r, q \in Revisions :
          delivery[r].state # "none" /\ delivery[q].state # "none"
          /\ delivery[r].class = delivery[q].class => r = q

\* A publication was made for a dispatch, with a runtime exactly if that is for
\* a model; a delivery names one from its reservation on.
PublicationRows ==
    /\ \A c \in Pubs : IF pub[c].claim = "absent" THEN pub[c] = NoPublication
                       ELSE /\ pub[c].rev \in Revisions
                            /\ delivery[pub[c].rev].state # "none"
                            /\ pub[c].session = "none" <=>
                                  delivery[pub[c].rev].class = "evidence_only"
    /\ \A c \in Pubs : pub[c].session = "none" => pub[c].child = "none"
    /\ \A r \in Revisions : delivery[r].state \in {"none"} \cup Unbound => delivery[r].pub = 0

\* An open claim is that of the active delivery, and the only one it may name;
\* evidence is claimed in the transaction that binds its delivery.
ClaimsAreActive ==
    \A c \in Pubs :
        /\ pub[c].claim = "open" =>
              /\ IsActive(pub[c].rev)
              /\ delivery[pub[c].rev].state \in Bound => delivery[pub[c].rev].pub = c
              /\ delivery[pub[c].rev].class = "evidence_only" =>
                    delivery[pub[c].rev].state \in Bound
        /\ pub[c].attempt = "refused" => pub[c].claim # "open"

\* Only a model works on a running story.
RunningStoryIsModel == story = "running" => Current.class # "evidence_only"

\* What a worker remembers was so, and its lease is no newer than the row's.
WorkerRemembers(i) ==
    IF worker[i].pc \in RestPcs THEN worker[i].rev = 0 /\ worker[i].pub = 0
    ELSE /\ worker[i].rev \in Revisions
         /\ delivery[worker[i].rev].state # "none"
         /\ worker[i].lease <= delivery[worker[i].rev].lease
         /\ delivery[worker[i].rev].class = "evidence_only" <=> worker[i].pc \in EvidencePcs
         /\ IF worker[i].pc \in {"leased", "evidence_leased"} THEN worker[i].pub = 0
            ELSE worker[i].pub \in Pubs /\ pub[worker[i].pub].rev = worker[i].rev

OwnerRemembers(i) ==
    /\ worker[i].pc \in OwnerPcs => pub[worker[i].pub].owner = i
    /\ worker[i].pc = "evidence_judged" => pub[worker[i].pub].attempt \in Verdicts

\* Before the reservation: nothing was attempted, and as long as the lease is
\* the worker's own, its claim is open.
UnreservedClaim(i) ==
    worker[i].pc = "published" =>
        /\ pub[worker[i].pub].attempt = "none"
        /\ delivery[worker[i].rev].state = "leased" /\ delivery[worker[i].rev].owner = i
           /\ delivery[worker[i].rev].lease = worker[i].lease =>
              pub[worker[i].pub].claim = "open"

\* After it: the lease is that of the reservation for good, and the attempt
\* does not run before its worker says so.
ReservedKeepsLease(i) ==
    worker[i].pc \in ReservedPcs =>
        /\ delivery[worker[i].rev].state \notin {"none"} \cup Unbound
        /\ delivery[worker[i].rev].lease = worker[i].lease
        /\ worker[i].pc \notin {"running", "losing"} => pub[worker[i].pub].attempt # "running"

\* What a worker knows, and may rely on.
WorkerKnows(i) ==
    /\ WorkerRemembers(i)
    /\ OwnerRemembers(i)
    /\ UnreservedClaim(i)
    /\ ReservedKeepsLease(i)

\* A running attempt whose child lives has a runtime that is known to be there.
RunningIsWatched ==
    \A c \in Pubs : pub[c].attempt = "running" /\ pub[c].child = "alive" =>
        pub[c].session \in {"running", "drain_requested", "quarantined"}

\* The rows of the case, without the workers.
CaseRows ==
    /\ RevisionsInOrder
    /\ PublicationRows
    /\ ClaimsAreActive
    /\ RunningStoryIsModel
    /\ OneStoryOwner
    /\ FenceAgreement
    /\ RunningStoryIsOwned
    /\ EndedCaseIsQuiet

RecoveryInv ==
    /\ RecoveryTypeOK
    /\ CaseRows
    /\ \A i \in Instances : WorkerKnows(i)
    /\ RunningIsWatched

-----------------------------------------------------------------------------
(* Types *)

\* The first publication that was not used is one.
LEMMA FreshPublication ==
    ASSUME RecoveryTypeOK, HasFreshPub
    PROVE  FreshPub \in Pubs /\ pub[FreshPub].claim = "absent"
<1> DEFINE Free == {c \in Pubs : pub[c].claim = "absent"}
<1>1. Free \subseteq Nat /\ Free # {}
  BY DEF HasFreshPub, Pubs
<1> DEFINE Less == OpToRel(<, Nat)
<1>2. \A d, e \in Nat : <<d, e>> \in Less <=> d < e
  BY DEF OpToRel
<1>3. IsWellFoundedOn(Less, Nat)
  BY NatLessThanWellFounded
<1> HIDE DEF Less
<1>4. PICK c \in Free : \A d \in Free : <<d, c>> \notin Less
  BY <1>1, <1>3, WFMin
<1>5. \A d \in Pubs : d < c => pub[d].claim # "absent"
  BY <1>1, <1>2, <1>4
<1> QED
  BY <1>4, <1>5 DEF FreshPub

\* A move of one row keeps the types if the row has them.
LEMMA MovesKeepTypes ==
    ASSUME RecoveryTypeOK
    PROVE  /\ \A c \in Pubs, row \in Publications :
                 PubMoves(c, row) => pub' \in [Pubs -> Publications]
           /\ \A r \in Revisions, row \in Deliveries :
                 DeliveryMoves(r, row) => delivery' \in [Revisions -> Deliveries]
           /\ \A i \in Instances, row \in Workers :
                 Remember(i, row) => worker' \in [Instances -> Workers]
  BY DEF RecoveryTypeOK, PubMoves, DeliveryMoves, Remember

LEMMA EmptyRows ==
    Idle \in Workers /\ NoPublication \in Publications /\ NoDelivery \in Deliveries
<1>1. 0 \in 0..MaxRevisions /\ 0 \in 0..MaxLeases /\ 0 \in 0..MaxPublications
  BY RecoveryAssumption
<1>2. Idle \in Workers
  BY <1>1 DEF Idle, Workers
<1>3. NoPublication \in Publications
  BY <1>1 DEF NoPublication, Publications
<1>4. NoDelivery \in Deliveries
  BY <1>1 DEF NoDelivery, Deliveries, Classes
<1> QED
  BY <1>2, <1>3, <1>4

LEMMA Ranges ==
    /\ Pubs \subseteq 0..MaxPublications /\ Revisions \subseteq 0..MaxRevisions
    /\ 0 \in 0..MaxPublications
    /\ \A n \in 0..MaxLeases : n < MaxLeases => n + 1 \in 0..MaxLeases
  BY RecoveryAssumption DEF Pubs, Revisions

\* Every step of a worker with a model dispatch keeps the types.
LEMMA InstanceStepTypes ==
    ASSUME RecoveryTypeOK, NEW i \in Instances, WorkerRemembers(i), InstanceStep(i)
    PROVE  RecoveryTypeOK'
<1> USE RecoveryAssumption, EmptyRows, Ranges
<1>0. worker[i] \in Workers /\ Rev \in Revisions /\ Current \in Deliveries
  BY DEF RecoveryTypeOK, Rev, Current
<1>1. CASE Discover(i)
  <2>1. [Idle EXCEPT !.pc = "discovered"] \in Workers
    BY <1>1, <1>0 DEF Workers, Idle, Deliveries, Discover
  <2>2. worker' \in [Instances -> Workers]
    BY <1>1, <2>1, MovesKeepTypes DEF Discover, Forget
  <2> QED
    BY <1>1, <2>2 DEF Discover, RecoveryTypeOK
<1>2. CASE Acquire(i)
  <2>1. [Current EXCEPT !.state = "leased", !.owner = i, !.lease = @ + 1, !.live = TRUE] \in Deliveries
    BY <1>2, <1>0 DEF Deliveries, Unbound, Bound, TerminalStates, Acquire
  <2>2. delivery' \in [Revisions -> Deliveries]
    BY <1>2, <1>0, <2>1, MovesKeepTypes DEF Acquire
  <2>3. [pc |-> "leased", rev |-> Rev, lease |-> Current.lease + 1, pub |-> 0] \in Workers
    BY <1>2, <1>0 DEF Workers, Idle, Deliveries, Acquire
  <2>4. worker' \in [Instances -> Workers]
    BY <1>2, <2>3, MovesKeepTypes DEF Acquire, Forget
  <2> QED
    BY <1>2, <2>2, <2>4 DEF Acquire, RecoveryTypeOK
<1>3. CASE LoseRoute(i)
  <2>1. Idle \in Workers
    BY <1>3, <1>0
  <2>2. worker' \in [Instances -> Workers]
    BY <1>3, <2>1, MovesKeepTypes DEF LoseRoute, Forget
  <2> QED
    BY <1>3, <2>2 DEF LoseRoute, RecoveryTypeOK
<1>4. CASE Publish(i)
  <2>1. worker[i].rev \in Revisions
    BY <1>4 DEF Publish, WorkerRemembers, RestPcs
  <2>2. FreshPub \in Pubs
    BY <1>4, FreshPublication DEF Publish
  <2>3. [NoPublication EXCEPT !.rev = worker[i].rev, !.owner = i, !.claim = "open", !.session = "reserved"] \in Publications
    BY <1>4, <1>0, <2>1, <2>2 DEF Publications, NoPublication, Verdicts
  <2>4. pub' \in [Pubs -> Publications]
    BY <1>4, <1>0, <2>1, <2>2, <2>3, MovesKeepTypes DEF Publish
  <2>5. [worker[i] EXCEPT !.pc = "published", !.pub = FreshPub] \in Workers
    BY <1>4, <1>0, <2>1, <2>2 DEF Workers, Idle, Deliveries, Publish
  <2>6. worker' \in [Instances -> Workers]
    BY <1>4, <2>1, <2>2, <2>5, MovesKeepTypes DEF Publish, Forget
  <2> QED
    BY <1>4, <2>4, <2>6 DEF Publish, RecoveryTypeOK
<1>5. CASE ReserveAttempt(i)
  <2>1. worker[i].pub \in Pubs /\ pub[worker[i].pub] \in Publications /\ worker[i].rev \in Revisions /\ delivery[worker[i].rev] \in Deliveries
    BY <1>5 DEF ReserveAttempt, WorkerRemembers, RestPcs, RecoveryTypeOK
  <2>2. [pub[worker[i].pub] EXCEPT !.attempt = "claimed", !.live = TRUE] \in Publications
    BY <1>5, <1>0, <2>1 DEF Publications, NoPublication, Verdicts
  <2>3. pub' \in [Pubs -> Publications]
    BY <1>5, <1>0, <2>1, <2>2, MovesKeepTypes DEF ReserveAttempt
  <2>4. [delivery[worker[i].rev] EXCEPT !.state = "attempt_reserved", !.pub = worker[i].pub] \in Deliveries
    BY <1>5, <1>0, <2>1 DEF Deliveries, Unbound, Bound, TerminalStates
  <2>5. delivery' \in [Revisions -> Deliveries]
    BY <1>5, <1>0, <2>1, <2>4, MovesKeepTypes DEF ReserveAttempt
  <2>6. [worker[i] EXCEPT !.pc = "reserved"] \in Workers
    BY <1>5, <1>0, <2>1 DEF Workers, Idle, Deliveries, ReserveAttempt
  <2>7. worker' \in [Instances -> Workers]
    BY <1>5, <2>1, <2>6, MovesKeepTypes DEF ReserveAttempt, Forget
  <2> QED
    BY <1>5, <2>3, <2>5, <2>7 DEF ReserveAttempt, RecoveryTypeOK
<1>6. CASE BindAttempt(i)
  <2>1. worker[i].pub \in Pubs /\ pub[worker[i].pub] \in Publications
    BY <1>6 DEF BindAttempt, WorkerRemembers, RestPcs, RecoveryTypeOK
  <2>2. [pub[worker[i].pub] EXCEPT !.bound = TRUE] \in Publications
    BY <1>6, <1>0, <2>1 DEF Publications, NoPublication, Verdicts
  <2>3. pub' \in [Pubs -> Publications]
    BY <1>6, <1>0, <2>1, <2>2, MovesKeepTypes DEF BindAttempt
  <2>4. [worker[i] EXCEPT !.pc = "bound"] \in Workers
    BY <1>6, <1>0, <2>1 DEF Workers, Idle, Deliveries, BindAttempt
  <2>5. worker' \in [Instances -> Workers]
    BY <1>6, <2>1, <2>4, MovesKeepTypes DEF BindAttempt, Forget
  <2> QED
    BY <1>6, <2>3, <2>5 DEF BindAttempt, RecoveryTypeOK
<1>7. CASE FailClaiming(i)
  <2>1. Idle \in Workers
    BY <1>7, <1>0
  <2>2. worker' \in [Instances -> Workers]
    BY <1>7, <2>1, MovesKeepTypes DEF FailClaiming, Forget
  <2> QED
    BY <1>7, <2>2 DEF FailClaiming, RecoveryTypeOK
<1>8. CASE MarkStarting(i)
  <2>1. worker[i].pub \in Pubs /\ pub[worker[i].pub] \in Publications
    BY <1>8 DEF MarkStarting, WorkerRemembers, RestPcs, RecoveryTypeOK
  <2>2. [pub[worker[i].pub] EXCEPT !.session = "starting"] \in Publications
    BY <1>8, <1>0, <2>1 DEF Publications, NoPublication, Verdicts
  <2>3. pub' \in [Pubs -> Publications]
    BY <1>8, <1>0, <2>1, <2>2, MovesKeepTypes DEF MarkStarting
  <2>4. [worker[i] EXCEPT !.pc = "starting"] \in Workers
    BY <1>8, <1>0, <2>1 DEF Workers, Idle, Deliveries, MarkStarting
  <2>5. worker' \in [Instances -> Workers]
    BY <1>8, <2>1, <2>4, MovesKeepTypes DEF MarkStarting, Forget
  <2> QED
    BY <1>8, <2>3, <2>5 DEF MarkStarting, RecoveryTypeOK
<1>9. CASE FailStarting(i)
  <2>1. worker[i].pub \in Pubs /\ pub[worker[i].pub] \in Publications
    BY <1>9 DEF FailStarting, WorkerRemembers, RestPcs, RecoveryTypeOK
  <2>2. [pub[worker[i].pub] EXCEPT !.session = IF @ = "reserved" THEN "quarantined" ELSE @] \in Publications
    BY <1>9, <1>0, <2>1 DEF Publications, NoPublication, Verdicts
  <2>3. pub' \in [Pubs -> Publications]
    BY <1>9, <1>0, <2>1, <2>2, MovesKeepTypes DEF FailStarting
  <2>4. [worker[i] EXCEPT !.pc = "losing"] \in Workers
    BY <1>9, <1>0, <2>1 DEF Workers, Idle, Deliveries, FailStarting
  <2>5. worker' \in [Instances -> Workers]
    BY <1>9, <2>1, <2>4, MovesKeepTypes DEF FailStarting, Forget
  <2> QED
    BY <1>9, <2>3, <2>5 DEF FailStarting, RecoveryTypeOK
<1>10. CASE Spawn(i)
  <2>1. worker[i].pub \in Pubs /\ pub[worker[i].pub] \in Publications
    BY <1>10 DEF Spawn, WorkerRemembers, RestPcs, RecoveryTypeOK
  <2>2. [pub[worker[i].pub] EXCEPT !.child = "alive"] \in Publications
    BY <1>10, <1>0, <2>1 DEF Publications, NoPublication, Verdicts
  <2>3. pub' \in [Pubs -> Publications]
    BY <1>10, <1>0, <2>1, <2>2, MovesKeepTypes DEF Spawn
  <2>4. [worker[i] EXCEPT !.pc = "spawned"] \in Workers
    BY <1>10, <1>0, <2>1 DEF Workers, Idle, Deliveries, Spawn
  <2>5. worker' \in [Instances -> Workers]
    BY <1>10, <2>1, <2>4, MovesKeepTypes DEF Spawn, Forget
  <2> QED
    BY <1>10, <2>3, <2>5 DEF Spawn, RecoveryTypeOK
<1>11. CASE MarkRunning(i)
  <2>1. worker[i].pub \in Pubs /\ pub[worker[i].pub] \in Publications /\ worker[i].rev \in Revisions /\ delivery[worker[i].rev] \in Deliveries
    BY <1>11 DEF MarkRunning, WorkerRemembers, RestPcs, RecoveryTypeOK
  <2>2. [pub[worker[i].pub] EXCEPT !.session = "running", !.attempt = "running"] \in Publications
    BY <1>11, <1>0, <2>1 DEF Publications, NoPublication, Verdicts
  <2>3. pub' \in [Pubs -> Publications]
    BY <1>11, <1>0, <2>1, <2>2, MovesKeepTypes DEF MarkRunning
  <2>4. [delivery[worker[i].rev] EXCEPT !.state = "running"] \in Deliveries
    BY <1>11, <1>0, <2>1 DEF Deliveries, Unbound, Bound, TerminalStates
  <2>5. delivery' \in [Revisions -> Deliveries]
    BY <1>11, <1>0, <2>1, <2>4, MovesKeepTypes DEF MarkRunning
  <2>6. [worker[i] EXCEPT !.pc = "running"] \in Workers
    BY <1>11, <1>0, <2>1 DEF Workers, Idle, Deliveries, MarkRunning
  <2>7. worker' \in [Instances -> Workers]
    BY <1>11, <2>1, <2>6, MovesKeepTypes DEF MarkRunning, Forget
  <2> QED
    BY <1>11, <2>3, <2>5, <2>7 DEF MarkRunning, RecoveryTypeOK
<1>12. CASE FailRunning(i)
  <2>1. worker[i].pub \in Pubs /\ pub[worker[i].pub] \in Publications
    BY <1>12 DEF FailRunning, WorkerRemembers, RestPcs, RecoveryTypeOK
  <2>2. [pub[worker[i].pub] EXCEPT !.child = "gone", !.session = IF @ = "starting" THEN "quarantined" ELSE @] \in Publications
    <3> DEFINE row == [pub[worker[i].pub] EXCEPT !.child = "gone"]
    <3>1. row \in Publications
      BY <2>1 DEF Publications
    <3>2. [row EXCEPT !.session = IF @ = "starting" THEN "quarantined" ELSE @] \in Publications
      <4> HIDE DEF row
      <4> QED BY <3>1 DEF Publications
    <3>3. [row EXCEPT !.session = IF @ = "starting" THEN "quarantined" ELSE @]
           = [pub[worker[i].pub] EXCEPT !.child = "gone",
                 !.session = IF @ = "starting" THEN "quarantined" ELSE @]
      BY <2>1 DEF Publications
    <3> QED
      BY <3>2, <3>3
  <2>3. pub' \in [Pubs -> Publications]
    BY <1>12, <1>0, <2>1, <2>2, MovesKeepTypes DEF FailRunning
  <2>4. [worker[i] EXCEPT !.pc = "losing"] \in Workers
    BY <1>12, <1>0, <2>1 DEF Workers, Idle, Deliveries, FailRunning
  <2>5. worker' \in [Instances -> Workers]
    BY <1>12, <2>1, <2>4, MovesKeepTypes DEF FailRunning, Forget
  <2> QED
    BY <1>12, <2>3, <2>5 DEF FailRunning, RecoveryTypeOK
<1>13. CASE Relinquish(i)
  <2>1. worker[i].pub \in Pubs /\ pub[worker[i].pub] \in Publications /\ worker[i].rev \in Revisions /\ delivery[worker[i].rev] \in Deliveries
    BY <1>13 DEF Relinquish, WorkerRemembers, RestPcs, RecoveryTypeOK
  <2>2. [pub[worker[i].pub] EXCEPT !.live = FALSE] \in Publications
    BY <1>13, <1>0, <2>1 DEF Publications, NoPublication, Verdicts
  <2>3. pub' \in [Pubs -> Publications]
    BY <1>13, <1>0, <2>1, <2>2, MovesKeepTypes DEF Relinquish, RecoveryTypeOK
  <2>4. [delivery[worker[i].rev] EXCEPT !.live = FALSE] \in Deliveries
    BY <1>13, <1>0, <2>1 DEF Deliveries, Unbound, Bound, TerminalStates
  <2>5. delivery' \in [Revisions -> Deliveries]
    BY <1>13, <1>0, <2>1, <2>4, MovesKeepTypes DEF Relinquish, RecoveryTypeOK
  <2>6. Idle \in Workers
    BY <1>13, <1>0, <2>1
  <2>7. worker' \in [Instances -> Workers]
    BY <1>13, <2>1, <2>6, MovesKeepTypes DEF Relinquish, Forget
  <2> QED
    BY <1>13, <2>3, <2>5, <2>7 DEF Relinquish, RecoveryTypeOK
<1>14. CASE LetRun(i)
  <2>1. Idle \in Workers
    BY <1>14, <1>0
  <2>2. worker' \in [Instances -> Workers]
    BY <1>14, <2>1, MovesKeepTypes DEF LetRun, Forget
  <2> QED
    BY <1>14, <2>2 DEF LetRun, RecoveryTypeOK
<1>15. CASE Crash(i)
  <2>1. [Idle EXCEPT !.pc = "dead"] \in Workers
    BY <1>15, <1>0 DEF Workers, Idle, Deliveries, Crash
  <2>2. worker' \in [Instances -> Workers]
    BY <1>15, <2>1, MovesKeepTypes DEF Crash, Forget
  <2> QED
    BY <1>15, <2>2 DEF Crash, RecoveryTypeOK
<1> QED
  BY <1>1, <1>2, <1>3, <1>4, <1>5, <1>6, <1>7, <1>8, <1>9, <1>10, <1>11, <1>12, <1>13, <1>14, <1>15 DEF InstanceStep

\* Every step of a worker with an evidence dispatch keeps them.
LEMMA EvidenceStepTypes ==
    ASSUME RecoveryTypeOK, NEW i \in Instances, WorkerRemembers(i), EvidenceStep(i)
    PROVE  RecoveryTypeOK'
<1> USE RecoveryAssumption, EmptyRows, Ranges
<1>0. worker[i] \in Workers /\ Rev \in Revisions /\ Current \in Deliveries
  BY DEF RecoveryTypeOK, Rev, Current
<1>1. CASE AcquireEvidence(i)
  <2>1. [Current EXCEPT !.state = IF @ \in Bound THEN @ ELSE "leased", !.owner = i, !.lease = @ + 1, !.live = TRUE] \in Deliveries
    BY <1>1, <1>0 DEF Deliveries, Unbound, Bound, TerminalStates, AcquireEvidence
  <2>2. delivery' \in [Revisions -> Deliveries]
    BY <1>1, <1>0, <2>1, MovesKeepTypes DEF AcquireEvidence
  <2>3. [pc |-> IF Current.state \in Bound THEN "evidence_judged" ELSE "evidence_leased", rev |-> Rev, lease |-> Current.lease + 1, pub |-> Current.pub] \in Workers
    BY <1>1, <1>0 DEF Workers, Idle, Deliveries, AcquireEvidence
  <2>4. worker' \in [Instances -> Workers]
    BY <1>1, <2>3, MovesKeepTypes DEF AcquireEvidence, Forget
  <2> QED
    BY <1>1, <2>2, <2>4 DEF AcquireEvidence, RecoveryTypeOK
<1>2. CASE ReserveEvidence(i)
  <2>1. worker[i].rev \in Revisions /\ delivery[worker[i].rev] \in Deliveries
    BY <1>2 DEF ReserveEvidence, WorkerRemembers, RestPcs, RecoveryTypeOK
  <2>2. FreshPub \in Pubs
    BY <1>2, FreshPublication DEF ReserveEvidence
  <2>3. [NoPublication EXCEPT !.rev = worker[i].rev, !.owner = i, !.claim = "open", !.attempt = "claimed", !.live = TRUE] \in Publications
    BY <1>2, <1>0, <2>1, <2>2 DEF Publications, NoPublication, Verdicts
  <2>4. pub' \in [Pubs -> Publications]
    BY <1>2, <1>0, <2>1, <2>2, <2>3, MovesKeepTypes DEF ReserveEvidence
  <2>5. [delivery[worker[i].rev] EXCEPT !.state = "attempt_reserved", !.pub = FreshPub] \in Deliveries
    BY <1>2, <1>0, <2>1, <2>2 DEF Deliveries, Unbound, Bound, TerminalStates
  <2>6. delivery' \in [Revisions -> Deliveries]
    BY <1>2, <1>0, <2>1, <2>2, <2>5, MovesKeepTypes DEF ReserveEvidence
  <2>7. [worker[i] EXCEPT !.pc = "evidence_reserved", !.pub = FreshPub] \in Workers
    BY <1>2, <1>0, <2>1, <2>2 DEF Workers, Idle, Deliveries, ReserveEvidence
  <2>8. worker' \in [Instances -> Workers]
    BY <1>2, <2>1, <2>2, <2>7, MovesKeepTypes DEF ReserveEvidence, Forget
  <2> QED
    BY <1>2, <2>4, <2>6, <2>8 DEF ReserveEvidence, RecoveryTypeOK
<1>3. CASE RunEvidence(i)
  <2>1. worker[i].pub \in Pubs /\ pub[worker[i].pub] \in Publications /\ worker[i].rev \in Revisions /\ delivery[worker[i].rev] \in Deliveries
    BY <1>3 DEF RunEvidence, WorkerRemembers, RestPcs, RecoveryTypeOK
  <2>2. [pub[worker[i].pub] EXCEPT !.attempt = "running"] \in Publications
    BY <1>3, <1>0, <2>1 DEF Publications, NoPublication, Verdicts
  <2>3. pub' \in [Pubs -> Publications]
    BY <1>3, <1>0, <2>1, <2>2, MovesKeepTypes DEF RunEvidence
  <2>4. [delivery[worker[i].rev] EXCEPT !.state = "running"] \in Deliveries
    BY <1>3, <1>0, <2>1 DEF Deliveries, Unbound, Bound, TerminalStates
  <2>5. delivery' \in [Revisions -> Deliveries]
    BY <1>3, <1>0, <2>1, <2>4, MovesKeepTypes DEF RunEvidence
  <2>6. [worker[i] EXCEPT !.pc = "evidence_running"] \in Workers
    BY <1>3, <1>0, <2>1 DEF Workers, Idle, Deliveries, RunEvidence
  <2>7. worker' \in [Instances -> Workers]
    BY <1>3, <2>1, <2>6, MovesKeepTypes DEF RunEvidence, Forget
  <2> QED
    BY <1>3, <2>3, <2>5, <2>7 DEF RunEvidence, RecoveryTypeOK
<1>4. CASE \E verdict \in {"verified", "failed"} : JudgeEvidence(i, verdict)
  <2> PICK verdict \in {"verified", "failed"} : JudgeEvidence(i, verdict)
    BY <1>4
  <2>1. worker[i].pub \in Pubs /\ pub[worker[i].pub] \in Publications
    BY DEF JudgeEvidence, WorkerRemembers, RestPcs, RecoveryTypeOK
  <2>2. [pub[worker[i].pub] EXCEPT !.attempt = verdict] \in Publications
    BY <1>0, <2>1 DEF Publications, NoPublication, Verdicts
  <2>3. pub' \in [Pubs -> Publications]
    BY <1>0, <2>1, <2>2, MovesKeepTypes DEF JudgeEvidence
  <2>4. [worker[i] EXCEPT !.pc = "evidence_judged"] \in Workers
    BY <1>0, <2>1 DEF Workers, Idle, Deliveries, JudgeEvidence
  <2>5. worker' \in [Instances -> Workers]
    BY <2>1, <2>4, MovesKeepTypes DEF JudgeEvidence, Forget
  <2> QED
    BY <2>3, <2>5 DEF JudgeEvidence, RecoveryTypeOK
<1>5. CASE CloseEvidenceClaim(i)
  <2>1. worker[i].pub \in Pubs /\ pub[worker[i].pub] \in Publications
    BY <1>5 DEF CloseEvidenceClaim, WorkerRemembers, RestPcs, RecoveryTypeOK
  <2>2. [pub[worker[i].pub] EXCEPT !.claim = "closed"] \in Publications
    BY <1>5, <1>0, <2>1 DEF Publications, NoPublication, Verdicts, CloseEvidenceClaim
  <2>3. pub' \in [Pubs -> Publications]
    BY <1>5, <1>0, <2>1, <2>2, MovesKeepTypes DEF CloseEvidenceClaim
  <2>4. Idle \in Workers
    BY <1>5, <1>0, <2>1
  <2>5. worker' \in [Instances -> Workers]
    BY <1>5, <2>1, <2>4, MovesKeepTypes DEF CloseEvidenceClaim, Forget
  <2> QED
    BY <1>5, <2>3, <2>5 DEF CloseEvidenceClaim, RecoveryTypeOK
<1>6. CASE QuarantineEvidence(i)
  <2>1. worker[i].rev \in Revisions /\ delivery[worker[i].rev] \in Deliveries
    BY <1>6 DEF QuarantineEvidence, WorkerRemembers, RestPcs, RecoveryTypeOK
  <2>2. pub' \in [Pubs -> Publications]
    <3>1. CASE UNCHANGED pub
      BY <3>1 DEF RecoveryTypeOK
    <3>2. CASE worker[i].pc \in {"evidence_reserved", "evidence_running"}
      <4>1. worker[i].pub \in Pubs /\ pub[worker[i].pub] \in Publications
        BY <3>2 DEF WorkerRemembers, RestPcs, RecoveryTypeOK
      <4>2. [pub[worker[i].pub] EXCEPT !.claim = "closed", !.attempt = "inconclusive", !.live = FALSE] \in Publications
        BY <4>1 DEF Publications, NoPublication, Verdicts
      <4> QED
        BY <1>6, <3>2, <4>1, <4>2, MovesKeepTypes DEF QuarantineEvidence
    <3> QED
      BY <1>6, <3>1, <3>2 DEF QuarantineEvidence
  <2>3. [delivery[worker[i].rev] EXCEPT !.state = "blocked", !.live = FALSE] \in Deliveries
    BY <2>1 DEF Deliveries, Unbound, Bound, TerminalStates
  <2>4. delivery' \in [Revisions -> Deliveries]
    BY <1>6, <2>1, <2>3, MovesKeepTypes DEF QuarantineEvidence
  <2>5. worker' \in [Instances -> Workers]
    BY <1>6, MovesKeepTypes DEF QuarantineEvidence, Forget
  <2> QED
    BY <1>6, <2>2, <2>4, <2>5 DEF QuarantineEvidence, RecoveryTypeOK, Rev, TerminalCases
<1>7. CASE LeaveReplayable(i) \/ LoseEvidence(i)
  <2>1. Idle \in Workers
    BY <1>7, <1>0
  <2>2. worker' \in [Instances -> Workers]
    BY <1>7, <2>1, MovesKeepTypes DEF LeaveReplayable, LoseEvidence, Forget
  <2> QED
    BY <1>7, <2>2 DEF LeaveReplayable, LoseEvidence, RecoveryTypeOK
<1> QED
  BY <1>1, <1>2, <1>3, <1>4, <1>5, <1>6, <1>7 DEF EvidenceStep

\* The runtime of a publication moves within the types.
LEMMA RuntimeStepTypes ==
    ASSUME RecoveryTypeOK, NEW c \in Pubs, RuntimeStep(c)
    PROVE  RecoveryTypeOK'
<1>0. pub[c] \in Publications
  BY DEF RecoveryTypeOK
<1>1. CASE ChildExit(c)
  <2>1. [pub[c] EXCEPT !.child = "gone"] \in Publications
    BY <1>0 DEF Publications, Verdicts
  <2>2. pub' \in [Pubs -> Publications]
    BY <1>1, <2>1, MovesKeepTypes DEF ChildExit
  <2> QED
    BY <1>1, <2>2 DEF ChildExit, RecoveryTypeOK
<1>2. CASE ExpireAttempt(c)
  <2>1. [pub[c] EXCEPT !.live = FALSE] \in Publications
    BY <1>0 DEF Publications, Verdicts
  <2>2. pub' \in [Pubs -> Publications]
    BY <1>2, <2>1, MovesKeepTypes DEF ExpireAttempt
  <2> QED
    BY <1>2, <2>2 DEF ExpireAttempt, RecoveryTypeOK
<1>3. CASE RequestCompletion(c)
  <2>1. [pub[c] EXCEPT !.completion = "open", !.session = "drain_requested"] \in Publications
    BY <1>0 DEF Publications, Verdicts
  <2>2. pub' \in [Pubs -> Publications]
    BY <1>3, <2>1, MovesKeepTypes DEF RequestCompletion
  <2> QED
    BY <1>3, <2>2 DEF RequestCompletion, RecoveryTypeOK
<1>4. CASE RequestDrain(c)
  <2>1. [pub[c] EXCEPT !.session = "drain_requested"] \in Publications
    BY <1>0 DEF Publications, Verdicts
  <2>2. pub' \in [Pubs -> Publications]
    BY <1>4, <2>1, MovesKeepTypes DEF RequestDrain
  <2> QED
    BY <1>4, <2>2 DEF RequestDrain, RecoveryTypeOK
<1>5. CASE MarkDrained(c)
  <2>1. [pub[c] EXCEPT !.session = "drained"] \in Publications
    BY <1>0 DEF Publications, Verdicts
  <2>2. pub' \in [Pubs -> Publications]
    BY <1>5, <2>1, MovesKeepTypes DEF MarkDrained
  <2> QED
    BY <1>5, <2>2 DEF MarkDrained, RecoveryTypeOK
<1>6. CASE QuarantineSession(c)
  <2>1. [pub[c] EXCEPT !.session = "quarantined"] \in Publications
    BY <1>0 DEF Publications, Verdicts
  <2>2. pub' \in [Pubs -> Publications]
    BY <1>6, <2>1, MovesKeepTypes DEF QuarantineSession
  <2> QED
    BY <1>6, <2>2 DEF QuarantineSession, RecoveryTypeOK
<1>7. CASE RecoverQuarantined(c)
  <2>1. [pub[c] EXCEPT !.session = "drained"] \in Publications
    BY <1>0 DEF Publications, Verdicts
  <2>2. pub' \in [Pubs -> Publications]
    BY <1>7, <2>1, MovesKeepTypes DEF RecoverQuarantined
  <2> QED
    BY <1>7, <2>2 DEF RecoverQuarantined, RecoveryTypeOK
<1>8. CASE \E verdict \in Verdicts : FinishAttempt(c, verdict)
  <2> PICK verdict \in Verdicts : FinishAttempt(c, verdict)
    BY <1>8
  <2>1. [pub[c] EXCEPT !.claim = "closed", !.attempt = verdict, !.completion = "committed"] \in Publications
    BY <1>0 DEF Publications, Verdicts
  <2>2. pub' \in [Pubs -> Publications]
    BY <2>1, MovesKeepTypes DEF FinishAttempt
  <2> QED
    BY <2>2 DEF FinishAttempt, RecoveryTypeOK
<1>9. CASE ReleaseSession(c)
  <2>1. [pub[c] EXCEPT !.session = "released"] \in Publications
    BY <1>0 DEF Publications, Verdicts
  <2>2. pub' \in [Pubs -> Publications]
    BY <1>9, <2>1, MovesKeepTypes DEF ReleaseSession
  <2> QED
    BY <1>9, <2>2 DEF ReleaseSession, RecoveryTypeOK
<1>10. CASE AcceptCompletion(c)
  <2> DEFINE row == [pub[c] EXCEPT !.completion = "done"]
  <2>1. row \in Publications
    BY <1>0 DEF Publications
  <2>2. [row EXCEPT !.session = IF @ = "drained" THEN "released" ELSE @] \in Publications
    <3> HIDE DEF row
    <3> QED
      BY <2>1 DEF Publications
  <2>3. [row EXCEPT !.session = IF @ = "drained" THEN "released" ELSE @]
         = [pub[c] EXCEPT !.completion = "done",
                          !.session = IF @ = "drained" THEN "released" ELSE @]
    BY <1>0 DEF Publications
  <2>4. pub' \in [Pubs -> Publications]
    BY <1>10, <2>2, <2>3, MovesKeepTypes DEF AcceptCompletion
  <2> QED
    BY <1>10, <2>4 DEF AcceptCompletion, RecoveryTypeOK
<1> QED
  BY <1>1, <1>2, <1>3, <1>4, <1>5, <1>6, <1>7, <1>8, <1>9, <1>10 DEF RuntimeStep

\* So do the steps of the reconciler.
LEMMA ReconcilerStepTypes ==
    ASSUME RecoveryTypeOK, ReconcilerStep
    PROVE  RecoveryTypeOK'
<1>0. Rev \in Revisions /\ Current \in Deliveries
  BY DEF RecoveryTypeOK, Rev, Current
<1>00. \A c \in Pubs : pub[c] \in Publications
  BY DEF RecoveryTypeOK
<1>1. CASE ResetExpiredLease
  <2>1. [Current EXCEPT !.state = "authorized", !.owner = Nobody] \in Deliveries
    BY <1>0 DEF Deliveries, Unbound
  <2> QED
    BY <1>0, <1>1, <2>1, MovesKeepTypes DEF ResetExpiredLease, RecoveryTypeOK
<1>2. ASSUME NEW c \in Pubs, RollbackPublication(c) PROVE RecoveryTypeOK'
  <2>1. [pub[c] EXCEPT !.claim = "closed", !.session = "released"] \in Publications
    BY <1>00 DEF Publications
  <2>2. pub' \in [Pubs -> Publications]
    BY <1>2, <2>1, MovesKeepTypes DEF RollbackPublication
  <2>3. [Current EXCEPT !.state = "authorized", !.owner = Nobody] \in Deliveries
    BY <1>0 DEF Deliveries, Unbound, TerminalStates
  <2>4. delivery' \in [Revisions -> Deliveries]
    BY <1>0, <1>2, <2>3, MovesKeepTypes DEF RollbackPublication
  <2> QED
    BY <1>0, <1>2, <2>2, <2>4 DEF RollbackPublication, RecoveryTypeOK, TerminalCases, Rev
<1>3. ASSUME NEW c \in Pubs, RequestExpiredDrain(c) PROVE RecoveryTypeOK'
  <2>1. [pub[c] EXCEPT !.session = "drain_requested"] \in Publications
    BY <1>00 DEF Publications
  <2>2. pub' \in [Pubs -> Publications]
    BY <1>3, <2>1, MovesKeepTypes DEF RequestExpiredDrain
  <2> QED
    BY <1>0, <1>3, <2>2 DEF RequestExpiredDrain, RecoveryTypeOK, TerminalCases, Rev
<1>4. ASSUME NEW c \in Pubs, BlockExpiredModel(c) PROVE RecoveryTypeOK'
  <2> DEFINE row == [pub[c] EXCEPT !.claim = "closed", !.attempt = "inconclusive", !.live = FALSE]
  <2>1. row \in Publications
    BY <1>00 DEF Publications
  <2>2. [row EXCEPT !.session = IF @ = "quarantined" THEN @ ELSE "released"] \in Publications
    <3> HIDE DEF row
    <3> QED
      BY <2>1 DEF Publications
  <2>3. [row EXCEPT !.session = IF @ = "quarantined" THEN @ ELSE "released"]
         = [pub[c] EXCEPT !.claim = "closed", !.attempt = "inconclusive", !.live = FALSE,
                          !.session = IF @ = "quarantined" THEN @ ELSE "released"]
    BY <1>00 DEF Publications
  <2>4. pub' \in [Pubs -> Publications]
    BY <1>4, <2>2, <2>3, MovesKeepTypes DEF BlockExpiredModel
  <2>5. [Current EXCEPT !.state = "blocked", !.live = FALSE] \in Deliveries
    BY <1>0 DEF Deliveries, Unbound, TerminalStates
  <2>6. delivery' \in [Revisions -> Deliveries]
    BY <1>0, <1>4, <2>5, MovesKeepTypes DEF BlockExpiredModel
  <2> QED
    BY <1>0, <1>4, <2>4, <2>6 DEF BlockExpiredModel, RecoveryTypeOK, TerminalCases, Rev
<1>5. ASSUME NEW c \in Pubs, BlockExpiredEvidence(c) PROVE RecoveryTypeOK'
  <2>1. [pub[c] EXCEPT !.claim = "closed", !.attempt = "inconclusive", !.live = FALSE] \in Publications
    BY <1>00 DEF Publications
  <2>2. pub' \in [Pubs -> Publications]
    BY <1>5, <2>1, MovesKeepTypes DEF BlockExpiredEvidence
  <2>3. [Current EXCEPT !.state = "blocked", !.live = FALSE] \in Deliveries
    BY <1>0 DEF Deliveries, Unbound, TerminalStates
  <2>4. delivery' \in [Revisions -> Deliveries]
    BY <1>0, <1>5, <2>3, MovesKeepTypes DEF BlockExpiredEvidence
  <2> QED
    BY <1>0, <1>5, <2>2, <2>4 DEF BlockExpiredEvidence, RecoveryTypeOK, TerminalCases, Rev
<1> QED
  BY <1>1, <1>2, <1>3, <1>4, <1>5 DEF ReconcilerStep

\* So do those of the coordinator.
LEMMA CoordinatorStepTypes ==
    ASSUME RecoveryTypeOK, CoordinatorStep
    PROVE  RecoveryTypeOK'
<1>0. Rev \in Revisions /\ Current \in Deliveries
  BY DEF RecoveryTypeOK, Rev, Current
<1>1. CASE CompleteDelivery
  <2>1. [Current EXCEPT !.state = IF pub[Current.pub].attempt = "verified"
                                  THEN "succeeded" ELSE "failed"] \in Deliveries
    BY <1>0 DEF Deliveries, TerminalStates
  <2> QED
    BY <1>0, <1>1, <2>1, MovesKeepTypes DEF CompleteDelivery, RecoveryTypeOK
<1>2. ASSUME NEW target \in {"blocked", "superseded"}, CompleteRefused(target)
      PROVE  RecoveryTypeOK'
  <2>1. [Current EXCEPT !.state = target] \in Deliveries
    BY <1>0 DEF Deliveries, TerminalStates
  <2> QED
    BY <1>0, <1>2, <2>1, MovesKeepTypes DEF CompleteRefused, RecoveryTypeOK
<1>3. ASSUME NEW status \in {"blocked", "superseded"}, EndCase(status)
      PROVE  RecoveryTypeOK'
  BY <1>3 DEF EndCase, RecoveryTypeOK, TerminalCases
<1>4. CASE SettleRefusedCase
  BY <1>4 DEF SettleRefusedCase, RecoveryTypeOK, TerminalCases
<1>5. CASE ResolveCase
  BY <1>5 DEF ResolveCase, RecoveryTypeOK, TerminalCases
<1>6. ASSUME NEW decision \in Classes \cup {"blocked"}, AdvanceRevision(decision)
      PROVE  RecoveryTypeOK'
  BY <1>0, <1>6, RecoveryAssumption DEF AdvanceRevision, RecoveryTypeOK, Revisions
<1>7. ASSUME NEW class \in Classes, AuthorizeRevision(class)
      PROVE  RecoveryTypeOK'
  <2>1. [NoDelivery EXCEPT !.class = class, !.state = "authorized"] \in Deliveries
    BY EmptyRows DEF Deliveries, Unbound
  <2> QED
    BY <1>0, <1>7, <2>1, MovesKeepTypes DEF AuthorizeRevision, RecoveryTypeOK
<1>8. CASE LoseDecision
  BY <1>8 DEF LoseDecision, RecoveryTypeOK
<1> QED
  BY <1>1, <1>2, <1>3, <1>4, <1>5, <1>6, <1>7, <1>8 DEF CoordinatorStep

\* What the end of the run makes of a row.
LEMMA EndedRows ==
    /\ \A row \in Deliveries, target \in {"failed", "cancelled"} :
          /\ EndedDelivery(row, target) \in Deliveries
          /\ EndedDelivery(row, target).state \notin Unbound \cup Bound
          /\ EndedDelivery(row, target).state = "none" <=> row.state = "none"
          /\ EndedDelivery(row, target).class = row.class
          /\ EndedDelivery(row, target).lease = row.lease
          /\ EndedDelivery(row, target).pub = row.pub
          /\ row.state \notin Unbound \cup Bound => EndedDelivery(row, target) = row
    /\ \A row \in Publications :
          /\ EndedPub(row) \in Publications
          /\ EndedPub(row).rev = row.rev /\ EndedPub(row).owner = row.owner
          /\ EndedPub(row).child = row.child
          /\ EndedPub(row).claim = IF row.claim = "open" THEN "closed" ELSE row.claim
          /\ EndedPub(row).attempt = IF row.attempt \in {"claimed", "running"}
                                     THEN "inconclusive" ELSE row.attempt
          /\ EndedPub(row).session = IF row.session = "drained" THEN "released" ELSE row.session
<1>1. ASSUME NEW row \in Deliveries, NEW target \in {"failed", "cancelled"}
      PROVE  EndedDelivery(row, target) \in Deliveries
  BY DEF EndedDelivery, Deliveries, Unbound, Bound, TerminalStates
<1>2. ASSUME NEW row \in Deliveries, NEW target \in {"failed", "cancelled"}
      PROVE  /\ EndedDelivery(row, target).state \notin Unbound \cup Bound
             /\ EndedDelivery(row, target).state = "none" <=> row.state = "none"
             /\ EndedDelivery(row, target).class = row.class
             /\ EndedDelivery(row, target).lease = row.lease
             /\ EndedDelivery(row, target).pub = row.pub
             /\ row.state \notin Unbound \cup Bound => EndedDelivery(row, target) = row
  BY DEF EndedDelivery, Deliveries, Unbound, Bound
<1>3. ASSUME NEW row \in Publications
      PROVE  EndedPub(row) \in Publications
  <2> DEFINE r1 == [row EXCEPT !.claim = IF @ = "open" THEN "closed" ELSE @]
             r2 == [r1 EXCEPT !.attempt = IF @ \in {"claimed", "running"}
                                          THEN "inconclusive" ELSE @]
             r3 == [r2 EXCEPT !.completion = IF @ = "open" THEN "done" ELSE @]
             r4 == [r3 EXCEPT !.session = IF @ = "drained" THEN "released" ELSE @]
  <2>1. r1 \in Publications
    BY DEF Publications
  <2>2. r2 \in Publications
    <3> HIDE DEF r1
    <3> QED
      BY <2>1 DEF Publications
  <2>3. r3 \in Publications
    <3> HIDE DEF r2
    <3> QED
      BY <2>2 DEF Publications
  <2>4. r4 \in Publications
    <3> HIDE DEF r3
    <3> QED
      BY <2>3 DEF Publications
  <2>5. r4 = EndedPub(row)
    BY DEF EndedPub, Publications
  <2> QED
    BY <2>4, <2>5
<1>4. ASSUME NEW row \in Publications
      PROVE  /\ EndedPub(row).rev = row.rev /\ EndedPub(row).owner = row.owner
             /\ EndedPub(row).child = row.child
             /\ EndedPub(row).claim = IF row.claim = "open" THEN "closed" ELSE row.claim
             /\ EndedPub(row).attempt = IF row.attempt \in {"claimed", "running"}
                                     THEN "inconclusive" ELSE row.attempt
             /\ EndedPub(row).session = IF row.session = "drained" THEN "released" ELSE row.session
  BY DEF EndedPub, Publications
<1> QED
  BY <1>1, <1>2, <1>3, <1>4

\* And the end of the run keeps the types.
LEMMA RunStepTypes ==
    ASSUME RecoveryTypeOK, RunStep
    PROVE  RecoveryTypeOK'
<1>1. CASE RequestTermination
  BY <1>1 DEF RequestTermination, RecoveryTypeOK
<1>2. CASE FailUnrecovered
  BY <1>2 DEF FailUnrecovered, RecoveryTypeOK
<1>3. CASE CompleteRun
  <2>1. \A row \in Publications :
           [row EXCEPT !.session = IF @ = "drained" THEN "released" ELSE @] \in Publications
    BY DEF Publications
  <2> QED
    BY <1>3, <2>1 DEF CompleteRun, RecoveryTypeOK, Ends
<1>4. ASSUME NEW target \in {"failed", "cancelled"}, Terminalize(target)
      PROVE  RecoveryTypeOK'
  <2>1. delivery' \in [Revisions -> Deliveries] /\ pub' \in [Pubs -> Publications]
    BY <1>4, EndedRows DEF Terminalize, RecoveryTypeOK
  <2> QED
    BY <1>4, <2>1 DEF Terminalize, RecoveryTypeOK, Ends, TerminalCases
<1> QED
  BY <1>1, <1>2, <1>3, <1>4 DEF RunStep

LEMMA StepTypes ==
    ASSUME RecoveryTypeOK, \A i \in Instances : WorkerRemembers(i), [RecoveryNext]_recoveryVars
    PROVE  RecoveryTypeOK'
<1>1. ASSUME NEW r \in Revisions, ExpireDelivery(r)
      PROVE  RecoveryTypeOK'
  <2>1. [delivery[r] EXCEPT !.live = FALSE] \in Deliveries
    BY DEF Deliveries, RecoveryTypeOK
  <2> QED
    BY <1>1, <2>1, MovesKeepTypes DEF ExpireDelivery, RecoveryTypeOK
<1>2. CASE UNCHANGED recoveryVars
  BY <1>2 DEF RecoveryTypeOK, recoveryVars
<1> QED
  BY <1>1, <1>2, InstanceStepTypes, EvidenceStepTypes, RuntimeStepTypes, ReconcilerStepTypes,
     CoordinatorStepTypes, RunStepTypes
  DEF RecoveryNext

-----------------------------------------------------------------------------
(* What most steps leave alone *)

\* Nothing is changed that the invariants of the case look at: the lease, its
\* owner, the runtime and the child of a row may be.
CaseRowsKept ==
    /\ recoveryCase' = recoveryCase /\ story' = story
    /\ coordinator' \in {coordinator, "none"}
    /\ run' \in Ends => run \in Ends \/ ~CaseActive
    /\ \A r \in Revisions :
          /\ delivery'[r].class = delivery[r].class
          /\ delivery'[r].pub = delivery[r].pub
          /\ \/ delivery'[r].state = delivery[r].state
             \/ delivery[r].state \in Unbound /\ delivery'[r].state \in Unbound
             \/ delivery[r].state \in Bound /\ delivery'[r].state \in Bound
    /\ \A c \in Pubs :
          /\ pub[c].claim = "absent" => pub'[c] = pub[c]
          /\ pub'[c].rev = pub[c].rev
          /\ pub'[c].claim = pub[c].claim
          /\ \/ pub'[c].attempt = pub[c].attempt
             \/ pub[c].attempt \in {"claimed", "running"} /\ pub'[c].attempt \in {"claimed", "running"}
          /\ pub'[c].session = "none" <=> pub[c].session = "none"
          /\ pub[c].session = "none" => pub'[c].child = pub[c].child

LEMMA KeptRowsKeepCase ==
    ASSUME RecoveryTypeOK, CaseRows, CaseRowsKept
    PROVE  CaseRows'
<1>1. Rev' = Rev /\ CaseActive' = CaseActive
  BY DEF CaseRowsKept, Rev, CaseActive
<1>2. /\ \A r \in Revisions : IsActive(r)' <=> IsActive(r)
      /\ \A r \in Revisions : delivery'[r].state \in Bound <=> delivery[r].state \in Bound
      /\ \A r \in Revisions : delivery'[r].state = "none" <=> delivery[r].state = "none"
      /\ \A r \in Revisions : delivery'[r].class = delivery[r].class
      /\ \A r \in Revisions : delivery'[r].pub = delivery[r].pub
  BY DEF CaseRowsKept, IsActive, Unbound, Bound
<1>3. /\ \A c \in Pubs : ActiveAttempt(c)' <=> ActiveAttempt(c)
      /\ \A c \in Pubs : pub'[c].attempt \in Verdicts <=> pub[c].attempt \in Verdicts
      /\ \A c \in Pubs : pub'[c].attempt = "refused" <=> pub[c].attempt = "refused"
      /\ \A c \in Pubs : pub'[c].rev = pub[c].rev /\ pub'[c].claim = pub[c].claim
  BY DEF CaseRowsKept, ActiveAttempt, Verdicts
<1>4. /\ Rev \in Revisions
      /\ Current' = delivery'[Rev]
      /\ \A r \in Revisions : delivery[r].pub # 0 => delivery[r].pub \in Pubs
  BY <1>1 DEF RecoveryTypeOK, Deliveries, Rev, Pubs, Current
<1>5. /\ \A c \in Pubs : pub[c].claim = "absent" => pub'[c] = pub[c]
      /\ \A c \in Pubs : pub'[c].session = "none" <=> pub[c].session = "none"
      /\ \A c \in Pubs : pub[c].session = "none" => pub'[c].child = pub[c].child
      /\ \A r \in Revisions : delivery'[r].state \in {"none"} \cup Unbound <=>
                              delivery[r].state \in {"none"} \cup Unbound
  BY DEF CaseRowsKept, Unbound, Bound
<1>6. story' = story /\ coordinator' \in {coordinator, "none"}
      /\ (run' \in Ends => run \in Ends \/ ~CaseActive)
  BY DEF CaseRowsKept
<1> USE <1>1
<1>7. \A c \in Pubs : ActiveAttempt(c) \/ pub[c].claim = "open" => pub[c].rev \in Revisions
  BY DEF CaseRows, PublicationRows, NoPublication, ActiveAttempt, FenceAgreement
<1>10. RevisionsInOrder'
  BY <1>2, <1>4, <1>6 DEF CaseRows, RevisionsInOrder, Current
<1>11. PublicationRows'
  BY <1>2, <1>3, <1>5 DEF CaseRows, PublicationRows
<1>12. ClaimsAreActive'
  BY <1>2, <1>3, <1>7 DEF CaseRows, ClaimsAreActive
<1>13. RunningStoryIsModel'
  BY <1>2, <1>4, <1>6 DEF CaseRows, RunningStoryIsModel, Current
<1>14. OneStoryOwner'
  BY <1>2, <1>3 DEF CaseRows, OneStoryOwner
<1>15. FenceAgreement'
  <2>1. \A r \in Revisions : delivery'[r].state \in Bound =>
            /\ delivery'[r].pub # 0
            /\ pub'[delivery'[r].pub].rev = r
            /\ pub'[delivery'[r].pub].attempt \in {"claimed", "running"} \cup Verdicts
    BY <1>2, <1>3, <1>4 DEF CaseRows, FenceAgreement, ActiveAttempt
  <2>2. \A c \in Pubs : ActiveAttempt(c)' =>
            /\ delivery'[pub'[c].rev].state \in Bound
            /\ delivery'[pub'[c].rev].pub = c
            /\ pub'[c].claim = "open"
    BY <1>2, <1>3, <1>7 DEF CaseRows, FenceAgreement
  <2> QED
    BY <2>1, <2>2 DEF FenceAgreement
<1>16. RunningStoryIsOwned'
  BY <1>2, <1>3, <1>4, <1>6, <1>7 DEF CaseRows, RunningStoryIsOwned
<1>17. EndedCaseIsQuiet'
  BY <1>2, <1>3, <1>6 DEF CaseRows, EndedCaseIsQuiet
<1> QED
  BY <1>10, <1>11, <1>12, <1>13, <1>14, <1>15, <1>16, <1>17 DEF CaseRows

\* The step changes nothing that a worker other than a relies on: leases only
\* grow, what is bound stays so, and a claim is closed under a lease only with
\* the lease.
WorkersKept(a) ==
    /\ \A r \in Revisions : delivery[r].state # "none" =>
          /\ delivery'[r].state # "none"
          /\ delivery'[r].class = delivery[r].class
          /\ delivery[r].lease <= delivery'[r].lease
          /\ delivery'[r].state = "leased" /\ delivery'[r].lease = delivery[r].lease
             /\ delivery'[r].owner # Nobody =>
                delivery[r].state = "leased" /\ delivery[r].owner = delivery'[r].owner
          /\ delivery[r].state \notin Unbound =>
                /\ delivery'[r].state \notin Unbound
                /\ delivery'[r].lease = delivery[r].lease \/ delivery[r].class = "evidence_only"
    /\ \A c \in Pubs : pub[c].rev # 0 =>
          /\ pub'[c].rev = pub[c].rev
          /\ pub'[c].owner = pub[c].owner
          /\ pub[c].attempt \in Verdicts => pub'[c].attempt = pub[c].attempt
          /\ pub[c].claim = "open" =>
                \/ pub'[c].claim = "open"
                \/ delivery'[pub[c].rev].state # "leased"
                \/ delivery'[pub[c].rev].owner = Nobody
          /\ pub[c].owner # a =>
                /\ pub[c].attempt = "none" => pub'[c].attempt = "none"
                /\ pub'[c].attempt = "running" => pub[c].attempt = "running"
    /\ \A j \in Instances \ {a} : worker'[j] = worker[j]

LEMMA KeptRowsKeepWorkers ==
    ASSUME RecoveryTypeOK, RecoveryTypeOK', NEW a, WorkersKept(a),
           NEW j \in Instances \ {a}, WorkerKnows(j)
    PROVE  WorkerKnows(j)'
<1> DEFINE r == worker[j].rev
           c == worker[j].pub
<1>1. worker'[j] = worker[j] /\ j # a /\ j # Nobody
  BY RecoveryAssumption DEF WorkersKept
<1>2. WorkerRemembers(j)'
  <2>1. CASE worker[j].pc \in RestPcs
    BY <1>1, <2>1 DEF WorkerRemembers, WorkerKnows
  <2>2. CASE worker[j].pc \notin RestPcs
    <3>1. /\ r \in Revisions /\ delivery[r].state # "none" /\ worker[j].lease <= delivery[r].lease
          /\ delivery[r].class = "evidence_only" <=> worker[j].pc \in EvidencePcs
      BY <2>2 DEF WorkerRemembers, WorkerKnows
    <3>2. /\ delivery'[r].state # "none" /\ delivery'[r].class = delivery[r].class
          /\ delivery[r].lease <= delivery'[r].lease
      BY <3>1 DEF WorkersKept
    <3>3. worker[j].lease <= delivery'[r].lease
      <4>1. worker[j].lease \in Nat /\ delivery[r].lease \in Nat /\ delivery'[r].lease \in Nat
        BY <3>1 DEF RecoveryTypeOK, Workers, Deliveries
      <4> QED
        BY <3>1, <3>2, <4>1
    <3>4. IF worker[j].pc \in {"leased", "evidence_leased"} THEN c = 0
          ELSE c \in Pubs /\ pub'[c].rev = r
      <4>1. worker[j].pc \notin {"leased", "evidence_leased"} => c \in Pubs /\ pub[c].rev = r /\ r # 0
        BY <2>2, <3>1 DEF WorkerRemembers, WorkerKnows, Revisions
      <4>2. worker[j].pc \notin {"leased", "evidence_leased"} => pub'[c].rev = pub[c].rev
        BY <4>1 DEF WorkersKept
      <4> QED
        BY <2>2, <4>1, <4>2 DEF WorkerRemembers, WorkerKnows
    <3> QED
      BY <1>1, <2>2, <3>1, <3>2, <3>3, <3>4 DEF WorkerRemembers
  <2> QED
    BY <2>1, <2>2
<1>3. ASSUME worker[j].pc \in OwnerPcs \cup {"evidence_judged"}
      PROVE  /\ r \in Revisions /\ delivery[r].state # "none" /\ c \in Pubs /\ pub[c].rev = r
             /\ r # 0 /\ worker[j].pc \notin {"leased", "evidence_leased"}
  BY <1>3 DEF WorkerRemembers, WorkerKnows, RestPcs, OwnerPcs, ReservedPcs, Revisions
<1>4. OwnerRemembers(j)'
  <2>1. worker[j].pc \in OwnerPcs => pub'[c].owner = j
    BY <1>3 DEF OwnerRemembers, WorkerKnows, WorkersKept
  <2>2. worker[j].pc = "evidence_judged" => pub'[c].attempt \in Verdicts
    BY <1>3 DEF OwnerRemembers, WorkerKnows, WorkersKept
  <2> QED
    BY <1>1, <2>1, <2>2 DEF OwnerRemembers
<1>5. UnreservedClaim(j)'
  <2> SUFFICES ASSUME worker[j].pc = "published"
               PROVE  /\ pub'[c].attempt = "none"
                      /\ delivery'[r].state = "leased" /\ delivery'[r].owner = j
                         /\ delivery'[r].lease = worker[j].lease => pub'[c].claim = "open"
    BY <1>1 DEF UnreservedClaim
  <2>1. /\ r \in Revisions /\ delivery[r].state # "none" /\ c \in Pubs /\ pub[c].rev = r /\ r # 0
        /\ pub[c].owner = j /\ pub[c].attempt = "none"
    BY <1>3 DEF OwnerRemembers, UnreservedClaim, WorkerKnows, OwnerPcs
  <2>2. pub'[c].attempt = "none"
    BY <1>1, <2>1 DEF WorkersKept
  <2>3. ASSUME delivery'[r].state = "leased", delivery'[r].owner = j,
               delivery'[r].lease = worker[j].lease
        PROVE  pub'[c].claim = "open"
    <3>1. worker[j].lease <= delivery[r].lease /\ delivery[r].lease <= delivery'[r].lease
      BY <2>1 DEF WorkersKept, WorkerRemembers, WorkerKnows, RestPcs
    <3>2. worker[j].lease \in Nat /\ delivery[r].lease \in Nat /\ delivery'[r].lease \in Nat
      BY <2>1 DEF RecoveryTypeOK, Workers, Deliveries
    <3>3. delivery'[r].lease = delivery[r].lease
      BY <2>3, <3>1, <3>2
    <3>4. delivery[r].state = "leased" /\ delivery[r].owner = j
      BY <1>1, <2>1, <2>3, <3>3 DEF WorkersKept
    <3>5. pub[c].claim = "open"
      BY <2>3, <3>3, <3>4 DEF UnreservedClaim, WorkerKnows
    <3> QED
      BY <1>1, <2>1, <2>3, <3>5 DEF WorkersKept
  <2> QED
    BY <2>2, <2>3
<1>6. ReservedKeepsLease(j)'
  <2> SUFFICES ASSUME worker[j].pc \in ReservedPcs
               PROVE  /\ delivery'[r].state \notin {"none"} \cup Unbound
                      /\ delivery'[r].lease = worker[j].lease
                      /\ worker[j].pc \notin {"running", "losing"} => pub'[c].attempt # "running"
    BY <1>1 DEF ReservedKeepsLease
  <2>1. /\ r \in Revisions /\ c \in Pubs /\ pub[c].rev = r /\ r # 0 /\ pub[c].owner = j
        /\ delivery[r].state \notin {"none"} \cup Unbound /\ delivery[r].lease = worker[j].lease
        /\ worker[j].pc \notin {"running", "losing"} => pub[c].attempt # "running"
    BY <1>3 DEF OwnerRemembers, ReservedKeepsLease, WorkerKnows, OwnerPcs
  <2>2. delivery[r].class # "evidence_only"
    BY DEF WorkerRemembers, WorkerKnows, RestPcs, ReservedPcs, EvidencePcs
  <2>3. delivery'[r].state \notin {"none"} \cup Unbound /\ delivery'[r].lease = worker[j].lease
    BY <2>1, <2>2 DEF WorkersKept
  <2>4. worker[j].pc \notin {"running", "losing"} => pub'[c].attempt # "running"
    BY <1>1, <2>1 DEF WorkersKept
  <2> QED
    BY <2>3, <2>4
<1> QED
  BY <1>2, <1>4, <1>5, <1>6 DEF WorkerKnows

\* Only the run, runtimes, children, completions and the expiry of leases move.
RuntimeOnly ==
    /\ recoveryCase' = recoveryCase /\ story' = story
    /\ coordinator' \in {coordinator, "none"}
    /\ run' \in Ends => run \in Ends \/ ~CaseActive
    /\ \A r \in Revisions :
          /\ delivery'[r].class = delivery[r].class
          /\ delivery'[r].state = delivery[r].state
          /\ delivery'[r].owner = delivery[r].owner
          /\ delivery'[r].lease = delivery[r].lease
          /\ delivery'[r].pub = delivery[r].pub
    /\ \A c \in Pubs :
          /\ pub[c].claim = "absent" => pub'[c] = pub[c]
          /\ pub'[c].rev = pub[c].rev
          /\ pub'[c].owner = pub[c].owner
          /\ pub'[c].claim = pub[c].claim
          /\ pub'[c].attempt = pub[c].attempt
          /\ pub'[c].session = "none" <=> pub[c].session = "none"
          /\ pub[c].session = "none" => pub'[c].child = pub[c].child

\* What a worker knows survives such a step, if it rests or goes on after it.
LEMMA RuntimeOnlyKeeps ==
    ASSUME RecoveryTypeOK, RecoveryTypeOK', RuntimeOnly
    PROVE  /\ CaseRowsKept
           /\ \A a : (\A j \in Instances \ {a} : worker'[j] = worker[j]) => WorkersKept(a)
<1>1. CaseRowsKept
  BY DEF CaseRowsKept, RuntimeOnly
<1>2. ASSUME NEW a, \A j \in Instances \ {a} : worker'[j] = worker[j]
      PROVE  WorkersKept(a)
  <2>1. \A r \in Revisions : delivery[r].lease <= delivery'[r].lease
    <3> SUFFICES ASSUME NEW r \in Revisions
                 PROVE  delivery[r].lease <= delivery'[r].lease
      OBVIOUS
    <3>1. delivery[r].lease \in Nat
      BY DEF RecoveryTypeOK, Deliveries
    <3> QED
      BY <3>1 DEF RuntimeOnly
  <2> QED
    BY <1>2, <2>1 DEF WorkersKept, RuntimeOnly
<1> QED
  BY <1>1, <1>2

LEMMA RestingWorkerKnows ==
    ASSUME NEW i, worker'[i].pc \in RestPcs, worker'[i].rev = 0, worker'[i].pub = 0
    PROVE  WorkerKnows(i)'
  BY DEF WorkerKnows, WorkerRemembers, OwnerRemembers, UnreservedClaim, ReservedKeepsLease,
         RestPcs, OwnerPcs, ReservedPcs

LEMMA ReservedWorkerGoesOn ==
    ASSUME RecoveryTypeOK, RuntimeOnly, NEW i \in Instances, WorkerKnows(i),
           worker[i].pc \in ReservedPcs, worker'[i].pc \in ReservedPcs,
           worker'[i].rev = worker[i].rev, worker'[i].lease = worker[i].lease,
           worker'[i].pub = worker[i].pub,
           worker'[i].pc = "losing" \/ worker[i].pc \notin {"running", "losing"}
    PROVE  WorkerKnows(i)'
<1> DEFINE r == worker[i].rev
           c == worker[i].pub
<1>1. /\ r \in Revisions /\ c \in Pubs /\ pub[c].rev = r /\ pub[c].owner = i
      /\ delivery[r].state \notin {"none"} \cup Unbound /\ delivery[r].lease = worker[i].lease
      /\ worker[i].lease <= delivery[r].lease
      /\ delivery[r].class # "evidence_only"
  BY DEF WorkerKnows, WorkerRemembers, OwnerRemembers, ReservedKeepsLease,
         RestPcs, OwnerPcs, ReservedPcs, EvidencePcs
<1>2. worker'[i].pc # "losing" => pub'[c].attempt # "running"
  BY <1>1 DEF WorkerKnows, ReservedKeepsLease, RuntimeOnly
<1>3. /\ pub'[c].rev = r /\ pub'[c].owner = i
      /\ delivery'[r].state \notin {"none"} \cup Unbound
      /\ delivery'[r].lease = worker[i].lease /\ worker[i].lease <= delivery'[r].lease
      /\ delivery'[r].class # "evidence_only"
  BY <1>1 DEF RuntimeOnly
<1>4. worker'[i].pc \notin RestPcs \cup EvidencePcs \cup {"published", "leased"}
  BY DEF RestPcs, EvidencePcs, ReservedPcs
<1> HIDE DEF r, c
<1>5. WorkerRemembers(i)'
  BY <1>1, <1>3, <1>4 DEF WorkerRemembers, EvidencePcs, r, c
<1>6. OwnerRemembers(i)'
  BY <1>1, <1>3, <1>4 DEF OwnerRemembers, EvidencePcs, r, c
<1>7. UnreservedClaim(i)'
  BY <1>4 DEF UnreservedClaim
<1>8. ReservedKeepsLease(i)'
  BY <1>2, <1>3 DEF ReservedKeepsLease, r, c
<1> QED
  BY <1>5, <1>6, <1>7, <1>8 DEF WorkerKnows

\* The rest of the invariant, which every step is shown to restore.
RowsAndWorkers ==
    /\ CaseRows
    /\ \A i \in Instances : WorkerKnows(i)
    /\ RunningIsWatched

LEMMA RuntimeOnlyStep ==
    ASSUME RecoveryInv, RecoveryTypeOK', RuntimeOnly, RunningIsWatched',
           NEW a, \A j \in Instances \ {a} : worker'[j] = worker[j],
           a \in Instances => WorkerKnows(a)'
    PROVE  RowsAndWorkers'
<1>1. CaseRowsKept /\ WorkersKept(a)
  BY RuntimeOnlyKeeps DEF RecoveryInv
<1>2. CaseRows'
  BY <1>1, KeptRowsKeepCase DEF RecoveryInv
<1>3. \A j \in Instances \ {a} : WorkerKnows(j)'
  BY <1>1, KeptRowsKeepWorkers DEF RecoveryInv
<1> QED
  BY <1>2, <1>3 DEF RowsAndWorkers

\* The runtime of a publication, its completion, and the clock.
LEMMA RuntimeSteps ==
    ASSUME RecoveryInv, RecoveryTypeOK', NEW c \in Pubs,
           \/ ChildExit(c) \/ ExpireAttempt(c) \/ RequestCompletion(c) \/ RequestDrain(c)
           \/ MarkDrained(c) \/ QuarantineSession(c) \/ RecoverQuarantined(c)
           \/ ReleaseSession(c) \/ AcceptCompletion(c) \/ RequestExpiredDrain(c)
    PROVE  RowsAndWorkers'
<1> USE DEF RuntimeOnly, PubMoves
<1>0. /\ pub[c] \in Publications /\ pub \in [Pubs -> Publications]
      /\ pub[c].claim = "absent" =>
            /\ pub[c].session = "none" /\ pub[c].child = "none"
            /\ pub[c].attempt = "none" /\ pub[c].completion = "none"
      /\ pub[c].attempt = "running" /\ pub[c].child = "alive" =>
            pub[c].session \in {"running", "drain_requested", "quarantined"}
      /\ pub[c].session = "none" => pub[c].child = "none"
  BY DEF RecoveryInv, RecoveryTypeOK, CaseRows, PublicationRows, NoPublication, RunningIsWatched
<1>00. \A d \in Pubs : pub[d].attempt = "running" /\ pub[d].child = "alive" =>
            pub[d].session \in {"running", "drain_requested", "quarantined"}
  BY DEF RecoveryInv, RunningIsWatched
<1>1. CASE ChildExit(c)
  <2>1. RuntimeOnly /\ worker' = worker
    BY <1>1, <1>0 DEF ChildExit, Publications
  <2>2. RunningIsWatched'
    BY <1>1, <1>0, <1>00 DEF ChildExit, Publications, RunningIsWatched
  <2> QED
    BY <2>1, <2>2, RuntimeOnlyStep, RecoveryAssumption DEF RecoveryInv
<1>2. CASE ExpireAttempt(c)
  <2>1. RuntimeOnly /\ worker' = worker
    BY <1>2, <1>0 DEF ExpireAttempt, Publications, ActiveAttempt
  <2>2. RunningIsWatched'
    BY <1>2, <1>0, <1>00 DEF ExpireAttempt, Publications, RunningIsWatched
  <2> QED
    BY <2>1, <2>2, RuntimeOnlyStep, RecoveryAssumption DEF RecoveryInv
<1>3. CASE RequestCompletion(c)
  <2>1. RuntimeOnly /\ worker' = worker
    BY <1>3, <1>0 DEF RequestCompletion, Publications
  <2>2. RunningIsWatched'
    BY <1>3, <1>0, <1>00 DEF RequestCompletion, Publications, RunningIsWatched
  <2> QED
    BY <2>1, <2>2, RuntimeOnlyStep, RecoveryAssumption DEF RecoveryInv
<1>4. CASE RequestDrain(c)
  <2>1. RuntimeOnly /\ worker' = worker
    BY <1>4, <1>0 DEF RequestDrain, Publications
  <2>2. RunningIsWatched'
    BY <1>4, <1>0, <1>00 DEF RequestDrain, Publications, RunningIsWatched
  <2> QED
    BY <2>1, <2>2, RuntimeOnlyStep, RecoveryAssumption DEF RecoveryInv
<1>5. CASE MarkDrained(c)
  <2>1. RuntimeOnly /\ worker' = worker
    BY <1>5, <1>0 DEF MarkDrained, Publications
  <2>2. RunningIsWatched'
    BY <1>5, <1>0, <1>00 DEF MarkDrained, Publications, RunningIsWatched
  <2> QED
    BY <2>1, <2>2, RuntimeOnlyStep, RecoveryAssumption DEF RecoveryInv
<1>6. CASE QuarantineSession(c)
  <2>1. RuntimeOnly /\ worker' = worker
    BY <1>6, <1>0 DEF QuarantineSession, Publications
  <2>2. RunningIsWatched'
    BY <1>6, <1>0, <1>00 DEF QuarantineSession, Publications, RunningIsWatched
  <2> QED
    BY <2>1, <2>2, RuntimeOnlyStep, RecoveryAssumption DEF RecoveryInv
<1>7. CASE RecoverQuarantined(c)
  <2>1. RuntimeOnly /\ worker' = worker
    BY <1>7, <1>0 DEF RecoverQuarantined, Publications
  <2>2. RunningIsWatched'
    BY <1>7, <1>0, <1>00 DEF RecoverQuarantined, Publications, RunningIsWatched
  <2> QED
    BY <2>1, <2>2, RuntimeOnlyStep, RecoveryAssumption DEF RecoveryInv
<1>8. CASE ReleaseSession(c)
  <2>1. RuntimeOnly /\ worker' = worker
    BY <1>8, <1>0 DEF ReleaseSession, Publications
  <2>2. RunningIsWatched'
    BY <1>8, <1>0, <1>00 DEF ReleaseSession, Publications, RunningIsWatched
  <2> QED
    BY <2>1, <2>2, RuntimeOnlyStep, RecoveryAssumption DEF RecoveryInv
<1>9. CASE AcceptCompletion(c)
  <2>1. RuntimeOnly /\ worker' = worker
    BY <1>9, <1>0 DEF AcceptCompletion, Publications
  <2>2. RunningIsWatched'
    BY <1>9, <1>0, <1>00 DEF AcceptCompletion, Publications, RunningIsWatched
  <2> QED
    BY <2>1, <2>2, RuntimeOnlyStep, RecoveryAssumption DEF RecoveryInv
<1>10. CASE RequestExpiredDrain(c)
  <2>1. RuntimeOnly /\ worker' = worker
    BY <1>10, <1>0 DEF RequestExpiredDrain, Publications
  <2>2. RunningIsWatched'
    BY <1>10, <1>0, <1>00 DEF RequestExpiredDrain, Publications, RunningIsWatched
  <2> QED
    BY <2>1, <2>2, RuntimeOnlyStep, RecoveryAssumption DEF RecoveryInv
<1> QED
  BY <1>1, <1>2, <1>3, <1>4, <1>5, <1>6, <1>7, <1>8, <1>9, <1>10

\* The expiry of a delivery's lease, a lost decision, a request to end the run
\* and its success.
LEMMA OuterSteps ==
    ASSUME RecoveryInv, RecoveryTypeOK',
           \/ \E r \in Revisions : ExpireDelivery(r)
           \/ LoseDecision \/ RequestTermination \/ FailUnrecovered \/ CompleteRun
           \/ UNCHANGED recoveryVars
    PROVE  RowsAndWorkers'
<1>0. pub \in [Pubs -> Publications] /\ delivery \in [Revisions -> Deliveries]
  BY DEF RecoveryInv, RecoveryTypeOK
<1>00. RunningIsWatched
  BY DEF RecoveryInv
<1> SUFFICES RuntimeOnly /\ RunningIsWatched' /\ worker' = worker
  BY RuntimeOnlyStep, RecoveryAssumption DEF RecoveryInv
<1>1. CASE \E r \in Revisions : ExpireDelivery(r)
  BY <1>1, <1>0, <1>00 DEF ExpireDelivery, RuntimeOnly, RunningIsWatched, DeliveryMoves, Deliveries
<1>2. CASE LoseDecision
  BY <1>2, <1>00 DEF LoseDecision, RuntimeOnly, RunningIsWatched
<1>3. CASE RequestTermination
  BY <1>3, <1>00 DEF RequestTermination, RuntimeOnly, RunningIsWatched, Ends
<1>4. CASE FailUnrecovered
  BY <1>4, <1>00 DEF FailUnrecovered, RuntimeOnly, RunningIsWatched, Ends
<1>5. CASE CompleteRun
  <2>1. \A c \in Pubs :
           /\ pub'[c].rev = pub[c].rev /\ pub'[c].owner = pub[c].owner
           /\ pub'[c].claim = pub[c].claim /\ pub'[c].attempt = pub[c].attempt
           /\ pub'[c].child = pub[c].child
           /\ pub'[c].session = IF pub[c].session = "drained" THEN "released" ELSE pub[c].session
    BY <1>5, <1>0 DEF CompleteRun, Publications
  <2>2. \A c \in Pubs : pub[c].claim = "absent" => pub'[c] = pub[c]
    <3>1. NoPublication = [NoPublication EXCEPT !.session = IF @ = "drained" THEN "released" ELSE @]
      BY DEF NoPublication
    <3>2. \A c \in Pubs : pub[c].claim = "absent" => pub[c] = NoPublication
      BY DEF RecoveryInv, CaseRows, PublicationRows
    <3> QED
      BY <1>5, <3>1, <3>2 DEF CompleteRun
  <2>3. RunningIsWatched'
    BY <1>00, <2>1 DEF RunningIsWatched
  <2>4. RuntimeOnly
    BY <1>5, <2>1, <2>2 DEF CompleteRun, MayComplete, RuntimeOnly
  <2> QED
    BY <1>5, <2>3, <2>4 DEF CompleteRun
<1>6. CASE UNCHANGED recoveryVars
  BY <1>6, <1>00 DEF recoveryVars, RuntimeOnly, RunningIsWatched
<1> QED
  BY <1>1, <1>2, <1>3, <1>4, <1>5, <1>6

\* A worker that gives up or goes on without touching a lease or an attempt.
LEMMA WorkerSteps ==
    ASSUME RecoveryInv, RecoveryTypeOK', NEW i \in Instances,
           \/ Discover(i) \/ LoseRoute(i) \/ FailClaiming(i) \/ LetRun(i) \/ Crash(i)
           \/ LeaveReplayable(i) \/ LoseEvidence(i) \/ BindAttempt(i) \/ MarkStarting(i)
           \/ FailStarting(i) \/ Spawn(i) \/ FailRunning(i) \/ Relinquish(i)
    PROVE  RowsAndWorkers'
<1> DEFINE r == worker[i].rev
           c == worker[i].pub
<1>0. /\ pub \in [Pubs -> Publications] /\ delivery \in [Revisions -> Deliveries]
      /\ worker \in [Instances -> Workers] /\ worker[i] \in Workers
  BY DEF RecoveryInv, RecoveryTypeOK
<1>00. \A d \in Pubs : pub[d].attempt = "running" /\ pub[d].child = "alive" =>
            pub[d].session \in {"running", "drain_requested", "quarantined"}
  BY DEF RecoveryInv, RunningIsWatched
<1>01. ASSUME worker[i].pc \in ReservedPcs
       PROVE  /\ c \in Pubs /\ pub[c].claim # "absent" /\ pub[c].session # "none"
              /\ r \in Revisions
              /\ worker[i].pc \notin {"running", "losing"} => pub[c].attempt # "running"
  <2>1. /\ c \in Pubs /\ r \in Revisions /\ pub[c].rev = r /\ delivery[r].class # "evidence_only"
        /\ worker[i].pc \notin {"running", "losing"} => pub[c].attempt # "running"
    BY <1>01 DEF RecoveryInv, WorkerKnows, WorkerRemembers, ReservedKeepsLease, RestPcs, ReservedPcs, EvidencePcs
  <2>2. pub[c].claim # "absent"
    BY <2>1 DEF RecoveryInv, CaseRows, PublicationRows, NoPublication, Revisions
  <2>3. pub[c].session # "none"
    BY <2>1, <2>2 DEF RecoveryInv, CaseRows, PublicationRows
  <2> QED
    BY <2>1, <2>2, <2>3
<1>02. WorkerKnows(i)
  BY DEF RecoveryInv
<1>1. CASE Discover(i)
  <2>1. RuntimeOnly /\ RunningIsWatched'
    BY <1>1, <1>00 DEF Discover, RuntimeOnly, RunningIsWatched
  <2>2. /\ worker'[i].pc \in RestPcs /\ worker'[i].rev = 0 /\ worker'[i].pub = 0
        /\ \A j \in Instances \ {i} : worker'[j] = worker[j]
    BY <1>1, <1>0 DEF Discover, Forget, Remember, Idle, RestPcs
  <2> QED
    BY <2>1, <2>2, RestingWorkerKnows, RuntimeOnlyStep
<1>2. CASE LoseRoute(i)
  <2>1. RuntimeOnly /\ RunningIsWatched'
    BY <1>2, <1>00 DEF LoseRoute, RuntimeOnly, RunningIsWatched
  <2>2. /\ worker'[i].pc \in RestPcs /\ worker'[i].rev = 0 /\ worker'[i].pub = 0
        /\ \A j \in Instances \ {i} : worker'[j] = worker[j]
    BY <1>2, <1>0 DEF LoseRoute, Forget, Remember, Idle, RestPcs
  <2> QED
    BY <2>1, <2>2, RestingWorkerKnows, RuntimeOnlyStep
<1>3. CASE FailClaiming(i)
  <2>1. RuntimeOnly /\ RunningIsWatched'
    BY <1>3, <1>00 DEF FailClaiming, RuntimeOnly, RunningIsWatched
  <2>2. /\ worker'[i].pc \in RestPcs /\ worker'[i].rev = 0 /\ worker'[i].pub = 0
        /\ \A j \in Instances \ {i} : worker'[j] = worker[j]
    BY <1>3, <1>0 DEF FailClaiming, Forget, Remember, Idle, RestPcs
  <2> QED
    BY <2>1, <2>2, RestingWorkerKnows, RuntimeOnlyStep
<1>4. CASE LetRun(i)
  <2>1. RuntimeOnly /\ RunningIsWatched'
    BY <1>4, <1>00 DEF LetRun, RuntimeOnly, RunningIsWatched
  <2>2. /\ worker'[i].pc \in RestPcs /\ worker'[i].rev = 0 /\ worker'[i].pub = 0
        /\ \A j \in Instances \ {i} : worker'[j] = worker[j]
    BY <1>4, <1>0 DEF LetRun, Forget, Remember, Idle, RestPcs
  <2> QED
    BY <2>1, <2>2, RestingWorkerKnows, RuntimeOnlyStep
<1>5. CASE Crash(i)
  <2>1. RuntimeOnly /\ RunningIsWatched'
    BY <1>5, <1>00 DEF Crash, RuntimeOnly, RunningIsWatched
  <2>2. /\ worker'[i].pc \in RestPcs /\ worker'[i].rev = 0 /\ worker'[i].pub = 0
        /\ \A j \in Instances \ {i} : worker'[j] = worker[j]
    BY <1>5, <1>0 DEF Crash, Forget, Remember, Idle, RestPcs
  <2> QED
    BY <2>1, <2>2, RestingWorkerKnows, RuntimeOnlyStep
<1>6. CASE LeaveReplayable(i) \/ LoseEvidence(i)
  <2>1. RuntimeOnly /\ RunningIsWatched'
    BY <1>6, <1>00 DEF LeaveReplayable, LoseEvidence, RuntimeOnly, RunningIsWatched
  <2>2. /\ worker'[i].pc \in RestPcs /\ worker'[i].rev = 0 /\ worker'[i].pub = 0
        /\ \A j \in Instances \ {i} : worker'[j] = worker[j]
    BY <1>6, <1>0 DEF LeaveReplayable, LoseEvidence, Forget, Remember, Idle, RestPcs
  <2> QED
    BY <2>1, <2>2, RestingWorkerKnows, RuntimeOnlyStep
<1>7. CASE BindAttempt(i)
  <2>1. worker[i].pc \in {"reserved", "bound", "starting", "spawned"}
    BY <1>7 DEF BindAttempt
  <2>2. /\ c \in Pubs /\ pub[c].claim # "absent" /\ pub[c].session # "none"
        /\ pub[c] \in Publications /\ pub[c].attempt # "running"
    BY <1>0, <1>01, <2>1 DEF ReservedPcs
  <2> HIDE DEF c
  <2>3. RuntimeOnly
    BY <1>7, <1>0, <2>2 DEF BindAttempt, RuntimeOnly, PubMoves, Publications, c, MayBind
  <2>4. RunningIsWatched'
    BY <1>7, <1>0, <1>00, <2>2 DEF BindAttempt, RunningIsWatched, PubMoves, Publications, c, MayBind
  <2>5. /\ worker'[i].pc = "bound" /\ worker'[i].rev = worker[i].rev
        /\ worker'[i].lease = worker[i].lease /\ worker'[i].pub = worker[i].pub
        /\ \A j \in Instances \ {i} : worker'[j] = worker[j]
    BY <1>7, <1>0 DEF BindAttempt, Remember, Workers
  <2>6. WorkerKnows(i)'
    BY <1>02, <2>1, <2>3, <2>5, ReservedWorkerGoesOn DEF ReservedPcs, RecoveryInv
  <2> QED
    BY <2>3, <2>4, <2>5, <2>6, RuntimeOnlyStep
<1>8. CASE MarkStarting(i)
  <2>1. worker[i].pc \in {"reserved", "bound", "starting", "spawned"}
    BY <1>8 DEF MarkStarting
  <2>2. /\ c \in Pubs /\ pub[c].claim # "absent" /\ pub[c].session # "none"
        /\ pub[c] \in Publications /\ pub[c].attempt # "running"
    BY <1>0, <1>01, <2>1 DEF ReservedPcs
  <2> HIDE DEF c
  <2>3. RuntimeOnly
    BY <1>8, <1>0, <2>2 DEF MarkStarting, RuntimeOnly, PubMoves, Publications, c, MayStart
  <2>4. RunningIsWatched'
    BY <1>8, <1>0, <1>00, <2>2 DEF MarkStarting, RunningIsWatched, PubMoves, Publications, c, MayStart
  <2>5. /\ worker'[i].pc = "starting" /\ worker'[i].rev = worker[i].rev
        /\ worker'[i].lease = worker[i].lease /\ worker'[i].pub = worker[i].pub
        /\ \A j \in Instances \ {i} : worker'[j] = worker[j]
    BY <1>8, <1>0 DEF MarkStarting, Remember, Workers
  <2>6. WorkerKnows(i)'
    BY <1>02, <2>1, <2>3, <2>5, ReservedWorkerGoesOn DEF ReservedPcs, RecoveryInv
  <2> QED
    BY <2>3, <2>4, <2>5, <2>6, RuntimeOnlyStep
<1>9. CASE FailStarting(i)
  <2>1. worker[i].pc \in {"reserved", "bound", "starting", "spawned"}
    BY <1>9 DEF FailStarting
  <2>2. /\ c \in Pubs /\ pub[c].claim # "absent" /\ pub[c].session # "none"
        /\ pub[c] \in Publications /\ pub[c].attempt # "running"
    BY <1>0, <1>01, <2>1 DEF ReservedPcs
  <2> HIDE DEF c
  <2>3. RuntimeOnly
    BY <1>9, <1>0, <2>2 DEF FailStarting, RuntimeOnly, PubMoves, Publications, c
  <2>4. RunningIsWatched'
    BY <1>9, <1>0, <1>00, <2>2 DEF FailStarting, RunningIsWatched, PubMoves, Publications, c
  <2>5. /\ worker'[i].pc = "losing" /\ worker'[i].rev = worker[i].rev
        /\ worker'[i].lease = worker[i].lease /\ worker'[i].pub = worker[i].pub
        /\ \A j \in Instances \ {i} : worker'[j] = worker[j]
    BY <1>9, <1>0 DEF FailStarting, Remember, Workers
  <2>6. WorkerKnows(i)'
    BY <1>02, <2>1, <2>3, <2>5, ReservedWorkerGoesOn DEF ReservedPcs, RecoveryInv
  <2> QED
    BY <2>3, <2>4, <2>5, <2>6, RuntimeOnlyStep
<1>10. CASE Spawn(i)
  <2>1. worker[i].pc \in {"reserved", "bound", "starting", "spawned"}
    BY <1>10 DEF Spawn
  <2>2. /\ c \in Pubs /\ pub[c].claim # "absent" /\ pub[c].session # "none"
        /\ pub[c] \in Publications /\ pub[c].attempt # "running"
    BY <1>0, <1>01, <2>1 DEF ReservedPcs
  <2> HIDE DEF c
  <2>3. RuntimeOnly
    BY <1>10, <1>0, <2>2 DEF Spawn, RuntimeOnly, PubMoves, Publications, c
  <2>4. RunningIsWatched'
    BY <1>10, <1>0, <1>00, <2>2 DEF Spawn, RunningIsWatched, PubMoves, Publications, c
  <2>5. /\ worker'[i].pc = "spawned" /\ worker'[i].rev = worker[i].rev
        /\ worker'[i].lease = worker[i].lease /\ worker'[i].pub = worker[i].pub
        /\ \A j \in Instances \ {i} : worker'[j] = worker[j]
    BY <1>10, <1>0 DEF Spawn, Remember, Workers
  <2>6. WorkerKnows(i)'
    BY <1>02, <2>1, <2>3, <2>5, ReservedWorkerGoesOn DEF ReservedPcs, RecoveryInv
  <2> QED
    BY <2>3, <2>4, <2>5, <2>6, RuntimeOnlyStep
<1>11. CASE FailRunning(i)
  <2>1. worker[i].pc \in {"reserved", "bound", "starting", "spawned"}
    BY <1>11 DEF FailRunning
  <2>2. /\ c \in Pubs /\ pub[c].claim # "absent" /\ pub[c].session # "none"
        /\ pub[c] \in Publications /\ pub[c].attempt # "running"
    BY <1>0, <1>01, <2>1 DEF ReservedPcs
  <2> HIDE DEF c
  <2>3. RuntimeOnly
    BY <1>11, <1>0, <2>2 DEF FailRunning, RuntimeOnly, PubMoves, Publications, c
  <2>4. RunningIsWatched'
    BY <1>11, <1>0, <1>00, <2>2 DEF FailRunning, RunningIsWatched, PubMoves, Publications, c
  <2>5. /\ worker'[i].pc = "losing" /\ worker'[i].rev = worker[i].rev
        /\ worker'[i].lease = worker[i].lease /\ worker'[i].pub = worker[i].pub
        /\ \A j \in Instances \ {i} : worker'[j] = worker[j]
    BY <1>11, <1>0 DEF FailRunning, Remember, Workers
  <2>6. WorkerKnows(i)'
    BY <1>02, <2>1, <2>3, <2>5, ReservedWorkerGoesOn DEF ReservedPcs, RecoveryInv
  <2> QED
    BY <2>3, <2>4, <2>5, <2>6, RuntimeOnlyStep
<1>12. CASE Relinquish(i)
  <2>1. c \in Pubs /\ r \in Revisions /\ pub[c].claim # "absent"
    BY <1>12, <1>01 DEF Relinquish, ReservedPcs
  <2>2. RuntimeOnly
    <3>1. \A q \in Revisions :
             /\ delivery'[q].class = delivery[q].class /\ delivery'[q].state = delivery[q].state
             /\ delivery'[q].owner = delivery[q].owner /\ delivery'[q].lease = delivery[q].lease
             /\ delivery'[q].pub = delivery[q].pub
      BY <1>12, <1>0, <2>1 DEF Relinquish, DeliveryMoves, Deliveries
    <3>2. \A d \in Pubs :
             /\ pub[d].claim = "absent" => pub'[d] = pub[d]
             /\ pub'[d].rev = pub[d].rev /\ pub'[d].owner = pub[d].owner
             /\ pub'[d].claim = pub[d].claim /\ pub'[d].attempt = pub[d].attempt
             /\ pub'[d].session = pub[d].session /\ pub'[d].child = pub[d].child
      BY <1>12, <1>0, <2>1 DEF Relinquish, PubMoves, Publications
    <3> QED
      BY <1>12, <3>1, <3>2 DEF Relinquish, RuntimeOnly
  <2>3. RunningIsWatched'
    BY <1>12, <1>0, <1>00, <2>1 DEF Relinquish, RunningIsWatched, PubMoves, Publications
  <2>4. /\ worker'[i].pc \in RestPcs /\ worker'[i].rev = 0 /\ worker'[i].pub = 0
        /\ \A j \in Instances \ {i} : worker'[j] = worker[j]
    BY <1>12, <1>0 DEF Relinquish, Forget, Remember, Idle, RestPcs
  <2> QED
    BY <2>2, <2>3, <2>4, RestingWorkerKnows, RuntimeOnlyStep
<1> QED
  BY <1>1, <1>2, <1>3, <1>4, <1>5, <1>6, <1>7, <1>8, <1>9, <1>10, <1>11, <1>12

-----------------------------------------------------------------------------
(* A lease changes hands, an attempt starts to run *)

LEMMA KeptRowsStep ==
    ASSUME RecoveryInv, RecoveryTypeOK', CaseRowsKept, RunningIsWatched',
           NEW a, WorkersKept(a), a \in Instances => WorkerKnows(a)'
    PROVE  RowsAndWorkers'
<1>1. CaseRows'
  BY KeptRowsKeepCase DEF RecoveryInv
<1>2. \A j \in Instances \ {a} : WorkerKnows(j)'
  BY KeptRowsKeepWorkers DEF RecoveryInv
<1> QED
  BY <1>1, <1>2 DEF RowsAndWorkers

\* The lease of the current delivery is taken, or taken away, as long as nothing
\* is bound to it but the verdict of an evidence attempt.
LEMMA LeaseMoves ==
    ASSUME RecoveryInv, RecoveryTypeOK', NEW a,
           UNCHANGED <<run, story, recoveryCase, pub, coordinator>>,
           \A j \in Instances \ {a} : worker'[j] = worker[j],
           \A r \in Revisions \ {Rev} : delivery'[r] = delivery[r],
           delivery'[Rev].class = Current.class, delivery'[Rev].pub = Current.pub,
           Current.lease <= delivery'[Rev].lease,
           delivery'[Rev].lease # Current.lease \/ delivery'[Rev].owner = Nobody,
           \/ Current.state \in Unbound /\ delivery'[Rev].state \in Unbound
           \/ /\ Current.state \in Bound /\ delivery'[Rev].state = Current.state
              /\ Current.class = "evidence_only"
    PROVE  CaseRowsKept /\ WorkersKept(a) /\ RunningIsWatched'
<1>1. CaseRowsKept
  BY DEF CaseRowsKept, Current
<1>2. \A r \in Revisions : delivery[r].lease <= delivery'[r].lease
  <2>1. \A r \in Revisions : delivery[r].lease \in Nat
    BY DEF RecoveryInv, RecoveryTypeOK, Deliveries
  <2> QED
    BY <2>1 DEF Current
<1>3. WorkersKept(a)
  BY <1>2, RecoveryAssumption DEF WorkersKept, Current, Unbound, Bound
<1>4. RunningIsWatched'
  BY DEF RecoveryInv, RunningIsWatched
<1> QED
  BY <1>1, <1>3, <1>4

LEMMA AcquireStep ==
    ASSUME RecoveryInv, RecoveryTypeOK', NEW i \in Instances, Acquire(i)
    PROVE  RowsAndWorkers'
<1>0. /\ Rev \in Revisions /\ delivery \in [Revisions -> Deliveries] /\ Current \in Deliveries
      /\ Current.lease \in Nat /\ worker \in [Instances -> Workers]
  BY DEF RecoveryInv, RecoveryTypeOK, Rev, Current, Deliveries
<1>1. /\ Current.class # "evidence_only" /\ Current.state \in Unbound
      /\ UNCHANGED <<run, story, recoveryCase, pub, coordinator>>
  BY DEF Acquire, Acquirable, Unbound
<1>2. /\ delivery'[Rev].class = Current.class /\ delivery'[Rev].pub = Current.pub
      /\ delivery'[Rev].state = "leased" /\ delivery'[Rev].lease = Current.lease + 1
      /\ \A r \in Revisions \ {Rev} : delivery'[r] = delivery[r]
  BY <1>0 DEF Acquire, DeliveryMoves, Deliveries, Current
<1>3. /\ worker'[i] = [pc |-> "leased", rev |-> Rev, lease |-> Current.lease + 1, pub |-> 0]
      /\ \A j \in Instances \ {i} : worker'[j] = worker[j]
  BY <1>0 DEF Acquire, Remember
<1>4. CaseRowsKept /\ WorkersKept(i) /\ RunningIsWatched'
  BY <1>0, <1>1, <1>2, <1>3, LeaseMoves DEF Unbound
<1>5. WorkerRemembers(i)'
  <2>1. /\ worker'[i].pc = "leased" /\ worker'[i].rev = Rev /\ worker'[i].pub = 0
        /\ worker'[i].lease = Current.lease + 1
    BY <1>3
  <2> QED
    BY <1>0, <1>1, <1>2, <2>1 DEF WorkerRemembers, RestPcs, EvidencePcs
<1>6. WorkerKnows(i)'
  BY <1>3, <1>5 DEF WorkerKnows, OwnerRemembers, UnreservedClaim, ReservedKeepsLease,
     OwnerPcs, ReservedPcs
<1> QED
  BY <1>4, <1>6, KeptRowsStep

LEMMA AcquireEvidenceStep ==
    ASSUME RecoveryInv, RecoveryTypeOK', NEW i \in Instances, AcquireEvidence(i)
    PROVE  RowsAndWorkers'
<1>0. /\ Rev \in Revisions /\ delivery \in [Revisions -> Deliveries] /\ Current \in Deliveries
      /\ Current.lease \in Nat /\ worker \in [Instances -> Workers]
      /\ Current.pub \in 0..MaxPublications
  BY DEF RecoveryInv, RecoveryTypeOK, Rev, Current, Deliveries
<1>1. /\ Current.class = "evidence_only" /\ Current.state \in Unbound \cup Bound
      /\ UNCHANGED <<run, story, recoveryCase, pub, coordinator>>
      /\ Current.state \in Bound => pub[Current.pub].attempt \in Verdicts
  BY DEF AcquireEvidence, MayTakeEvidence, Acquirable, Unbound, Bound
<1>2. /\ delivery'[Rev].class = Current.class /\ delivery'[Rev].pub = Current.pub
      /\ delivery'[Rev].state = IF Current.state \in Bound THEN Current.state ELSE "leased"
      /\ delivery'[Rev].lease = Current.lease + 1
      /\ \A r \in Revisions \ {Rev} : delivery'[r] = delivery[r]
  BY <1>0 DEF AcquireEvidence, DeliveryMoves, Deliveries, Current
<1>3. /\ worker'[i].pc = IF Current.state \in Bound THEN "evidence_judged" ELSE "evidence_leased"
      /\ worker'[i].rev = Rev /\ worker'[i].lease = Current.lease + 1
      /\ worker'[i].pub = Current.pub
      /\ \A j \in Instances \ {i} : worker'[j] = worker[j]
  BY <1>0 DEF AcquireEvidence, Remember
<1>4. CaseRowsKept /\ WorkersKept(i) /\ RunningIsWatched'
  BY <1>0, <1>1, <1>2, <1>3, LeaseMoves DEF Unbound
<1>5. /\ Current.state \in Bound => Current.pub \in Pubs /\ pub[Current.pub].rev = Rev
      /\ Current.state \notin Bound => Current.pub = 0
  BY <1>0, <1>1 DEF RecoveryInv, CaseRows, FenceAgreement, PublicationRows, Current, Pubs
<1>6. WorkerRemembers(i)'
  BY <1>0, <1>1, <1>2, <1>3, <1>5 DEF WorkerRemembers, RestPcs, EvidencePcs, Bound
<1>7. WorkerKnows(i)'
  BY <1>1, <1>3, <1>6 DEF WorkerKnows, OwnerRemembers, UnreservedClaim, ReservedKeepsLease,
     OwnerPcs, ReservedPcs
<1> QED
  BY <1>4, <1>7, KeptRowsStep

LEMMA ResetExpiredLeaseStep ==
    ASSUME RecoveryInv, RecoveryTypeOK', ResetExpiredLease
    PROVE  RowsAndWorkers'
<1>0. Rev \in Revisions /\ delivery \in [Revisions -> Deliveries] /\ Current.lease \in Nat
  BY DEF RecoveryInv, RecoveryTypeOK, Rev, Current, Deliveries
<1>1. /\ delivery'[Rev].class = Current.class /\ delivery'[Rev].pub = Current.pub
      /\ delivery'[Rev].state = "authorized" /\ delivery'[Rev].lease = Current.lease
      /\ delivery'[Rev].owner = Nobody /\ Current.state \in Unbound
      /\ \A r \in Revisions \ {Rev} : delivery'[r] = delivery[r]
  BY <1>0 DEF ResetExpiredLease, DeliveryMoves, Deliveries, Current, Unbound
<1>2. CaseRowsKept /\ WorkersKept(Nobody) /\ RunningIsWatched'
  BY <1>0, <1>1, LeaseMoves DEF ResetExpiredLease, Unbound
<1> QED
  BY <1>2, KeptRowsStep, RecoveryAssumption

\* The attempt of a worker starts to run.
LEMMA RunStarts ==
    ASSUME RecoveryInv, RecoveryTypeOK', NEW i \in Instances,
           NEW r \in Revisions, NEW c \in Pubs, pub[c].rev = r, pub[c].owner = i,
           delivery[r].state \in Bound, pub[c].attempt \in {"claimed", "running"},
           UNCHANGED <<run, story, recoveryCase, coordinator>>,
           \A j \in Instances \ {i} : worker'[j] = worker[j],
           \A q \in Revisions \ {r} : delivery'[q] = delivery[q],
           \A d \in Pubs \ {c} : pub'[d] = pub[d],
           delivery'[r].state = "running",
           delivery'[r].class = delivery[r].class, delivery'[r].pub = delivery[r].pub,
           delivery'[r].lease = delivery[r].lease, delivery'[r].owner = delivery[r].owner,
           pub'[c].session = "none" <=> pub[c].session = "none",
           pub'[c].rev = pub[c].rev, pub'[c].owner = pub[c].owner,
           pub'[c].claim = pub[c].claim, pub'[c].child = pub[c].child,
           pub'[c].attempt = "running"
    PROVE  CaseRowsKept /\ WorkersKept(i)
<1>1. \A q \in Revisions : delivery[q] \in Deliveries /\ delivery[q].lease \in Nat
  BY DEF RecoveryInv, RecoveryTypeOK, Deliveries
<1>2. pub[c].claim # "absent"
  BY DEF RecoveryInv, CaseRows, PublicationRows, NoPublication
<1>3. CaseRowsKept
  BY <1>2 DEF CaseRowsKept, Bound
<1>4. \A q \in Revisions : delivery[q].lease <= delivery'[q].lease
  BY <1>1
<1>5. WorkersKept(i)
  <2>1. \A q \in Revisions \ {r} : delivery[q].state # "none" =>
          /\ delivery'[q].state # "none"
          /\ delivery'[q].class = delivery[q].class
          /\ delivery[q].lease <= delivery'[q].lease
          /\ delivery'[q].state = "leased" => delivery[q].state = "leased" /\ delivery[q].owner = delivery'[q].owner
          /\ delivery[q].state \notin Unbound =>
                delivery'[q].state \notin Unbound /\ delivery'[q].lease = delivery[q].lease
    BY <1>4
  <2>2. /\ delivery'[r].state \notin {"none", "leased"} \cup Unbound
        /\ delivery[r].lease <= delivery'[r].lease
    BY <1>4 DEF Unbound
  <2>3. \A d \in Pubs : pub[d].rev # 0 =>
          /\ pub'[d].rev = pub[d].rev /\ pub'[d].owner = pub[d].owner
          /\ pub[d].attempt \in Verdicts => pub'[d].attempt = pub[d].attempt
          /\ pub[d].claim = "open" => pub'[d].claim = "open"
          /\ pub[d].owner # i => pub'[d].attempt = pub[d].attempt
    BY DEF Verdicts
  <2> QED
    BY <2>1, <2>2, <2>3 DEF WorkersKept
<1> QED
  BY <1>3, <1>5

LEMMA MarkRunningStep ==
    ASSUME RecoveryInv, RecoveryTypeOK', NEW i \in Instances, MarkRunning(i)
    PROVE  RowsAndWorkers'
<1> DEFINE r == worker[i].rev
           c == worker[i].pub
<1>0. /\ pub \in [Pubs -> Publications] /\ delivery \in [Revisions -> Deliveries]
      /\ worker \in [Instances -> Workers]
      /\ worker[i].pc = "spawned" /\ worker[i].pc \in OwnerPcs
  BY DEF RecoveryInv, RecoveryTypeOK, MarkRunning, OwnerPcs, ReservedPcs
<1>1. /\ r \in Revisions /\ c \in Pubs /\ pub[c].rev = r /\ pub[c].owner = i
      /\ delivery[r].state \notin {"none"} \cup Unbound /\ delivery[r].lease = worker[i].lease
      /\ worker[i].lease <= delivery[r].lease /\ delivery[r].class # "evidence_only"
  BY <1>0 DEF RecoveryInv, WorkerKnows, WorkerRemembers, OwnerRemembers, ReservedKeepsLease,
         OwnerPcs, ReservedPcs, RestPcs, EvidencePcs
<1>2. /\ pub'[c].rev = r /\ pub'[c].owner = i /\ pub'[c].claim = pub[c].claim
      /\ pub'[c].child = pub[c].child /\ pub'[c].attempt = "running"
      /\ pub'[c].session = "running" /\ pub[c].session = "starting"
      /\ \A d \in Pubs \ {c} : pub'[d] = pub[d]
  BY <1>0, <1>1 DEF MarkRunning, PubMoves, Publications, MayRun
<1>3. /\ delivery'[r].owner = delivery[r].owner /\ delivery'[r].pub = delivery[r].pub
      /\ \A q \in Revisions \ {r} : delivery'[q] = delivery[q]
      /\ delivery'[r].class = delivery[r].class /\ delivery'[r].lease = delivery[r].lease
      /\ delivery'[r].state = "running"
  BY <1>0, <1>1 DEF MarkRunning, DeliveryMoves, Deliveries
<1>4. /\ worker'[i].pc = "running" /\ worker'[i].rev = r /\ worker'[i].lease = worker[i].lease
      /\ worker'[i].pub = c
      /\ \A j \in Instances \ {i} : worker'[j] = worker[j]
  BY <1>0 DEF MarkRunning, Remember, Workers
<1>5. /\ UNCHANGED <<run, story, recoveryCase, coordinator>>
      /\ delivery[r].state \in Bound /\ pub[c].attempt \in {"claimed", "running"}
  BY DEF MarkRunning, MayRun, HoldsAttempt, ActiveAttempt
<1>6. CaseRowsKept /\ WorkersKept(i)
  BY <1>0, <1>1, <1>2, <1>3, <1>4, <1>5, RunStarts
<1>7. RunningIsWatched'
  BY <1>2 DEF RecoveryInv, RunningIsWatched
<1> HIDE DEF r, c
<1>8. WorkerRemembers(i)'
  BY <1>1, <1>2, <1>3, <1>4 DEF WorkerRemembers, RestPcs, EvidencePcs
<1>9. WorkerKnows(i)'
  BY <1>1, <1>2, <1>3, <1>4, <1>8 DEF WorkerKnows, OwnerRemembers, UnreservedClaim,
     ReservedKeepsLease, Unbound, OwnerPcs, ReservedPcs
<1> QED
  BY <1>6, <1>7, <1>9, KeptRowsStep

LEMMA RunEvidenceStep ==
    ASSUME RecoveryInv, RecoveryTypeOK', NEW i \in Instances, RunEvidence(i)
    PROVE  RowsAndWorkers'
<1> DEFINE r == worker[i].rev
           c == worker[i].pub
<1>0. /\ pub \in [Pubs -> Publications] /\ delivery \in [Revisions -> Deliveries]
      /\ worker \in [Instances -> Workers]
      /\ worker[i].pc = "evidence_reserved" /\ worker[i].pc \in OwnerPcs
  BY DEF RecoveryInv, RecoveryTypeOK, RunEvidence, OwnerPcs, ReservedPcs
<1>1. /\ r \in Revisions /\ c \in Pubs /\ pub[c].rev = r /\ pub[c].owner = i
      /\ delivery[r].state # "none"
      /\ worker[i].lease <= delivery[r].lease /\ delivery[r].class = "evidence_only"
  BY <1>0 DEF RecoveryInv, WorkerKnows, WorkerRemembers, OwnerRemembers, RestPcs, EvidencePcs
<1>2. /\ pub'[c].rev = r /\ pub'[c].owner = i /\ pub'[c].claim = pub[c].claim
      /\ pub'[c].child = pub[c].child /\ pub'[c].attempt = "running"
      /\ pub'[c].session = pub[c].session
      /\ \A d \in Pubs \ {c} : pub'[d] = pub[d]
  BY <1>0, <1>1 DEF RunEvidence, PubMoves, Publications
<1>3. /\ delivery'[r].owner = delivery[r].owner /\ delivery'[r].pub = delivery[r].pub
      /\ \A q \in Revisions \ {r} : delivery'[q] = delivery[q]
      /\ delivery'[r].class = delivery[r].class /\ delivery'[r].lease = delivery[r].lease
      /\ delivery'[r].state = "running"
  BY <1>0, <1>1 DEF RunEvidence, DeliveryMoves, Deliveries
<1>4. /\ worker'[i].pc = "evidence_running" /\ worker'[i].rev = r
      /\ worker'[i].lease = worker[i].lease /\ worker'[i].pub = c
      /\ \A j \in Instances \ {i} : worker'[j] = worker[j]
  BY <1>0 DEF RunEvidence, Remember, Workers
<1>5. /\ UNCHANGED <<run, story, recoveryCase, coordinator>>
      /\ delivery[r].state \in Bound /\ pub[c].attempt \in {"claimed", "running"}
  BY DEF RunEvidence, HoldsAttempt, ActiveAttempt
<1>6. CaseRowsKept /\ WorkersKept(i)
  BY <1>0, <1>1, <1>2, <1>3, <1>4, <1>5, RunStarts
<1>7. pub[c].claim # "absent" /\ pub[c].session = "none" /\ pub[c].child = "none"
  BY <1>1 DEF RecoveryInv, CaseRows, PublicationRows, NoPublication, Revisions
<1>8. RunningIsWatched'
  BY <1>2, <1>7 DEF RecoveryInv, RunningIsWatched
<1> HIDE DEF r, c
<1>9. WorkerRemembers(i)'
  BY <1>1, <1>2, <1>3, <1>4 DEF WorkerRemembers, RestPcs, EvidencePcs
<1>10. WorkerKnows(i)'
  BY <1>1, <1>2, <1>3, <1>4, <1>9 DEF WorkerKnows, OwnerRemembers, UnreservedClaim,
     ReservedKeepsLease, ReservedPcs
<1> QED
  BY <1>6, <1>8, <1>10, KeptRowsStep

-----------------------------------------------------------------------------
(* The work of a lease is published, rolled back or reserved *)

\* The active delivery is the current one, of an active case and run.
LEMMA ActiveIsCurrent ==
    ASSUME RecoveryInv, NEW r \in Revisions, IsActive(r)
    PROVE  r = Rev /\ CaseActive /\ run \notin Ends
  BY DEF RecoveryInv, CaseRows, OneStoryOwner, EndedCaseIsQuiet

\* A delivery that waits under a lease is the only thing there is of the story,
\* when no claim is open.
LEMMA PublishStep ==
    ASSUME RecoveryInv, RecoveryTypeOK', NEW i \in Instances, Publish(i)
    PROVE  RowsAndWorkers'
<1> DEFINE r == worker[i].rev
           f == FreshPub
<1>0. /\ pub \in [Pubs -> Publications] /\ worker \in [Instances -> Workers]
      /\ f \in Pubs /\ pub[f].claim = "absent" /\ pub[f] = NoPublication
      /\ worker[i].pc = "leased"
  <2>1. f \in Pubs /\ pub[f].claim = "absent"
    BY FreshPublication DEF Publish, RecoveryInv
  <2> QED
    BY <2>1 DEF RecoveryInv, RecoveryTypeOK, CaseRows, PublicationRows, Publish
<1>1. /\ r \in Revisions /\ worker[i].lease = delivery[r].lease
      /\ delivery[r].class # "evidence_only" /\ delivery[r].state = "leased"
      /\ delivery[r].owner = i
  BY <1>0 DEF RecoveryInv, WorkerKnows, WorkerRemembers, RestPcs, EvidencePcs, Publish, HoldsLease
<1>2. r = Rev /\ CaseActive /\ run = "active"
  BY <1>1, ActiveIsCurrent DEF IsActive, Unbound, Publish
<1>3. /\ \A d \in Pubs : pub[d].claim # "open" /\ ~ActiveAttempt(d)
      /\ story' = "running"
      /\ UNCHANGED <<run, recoveryCase, delivery, coordinator>>
  BY DEF Publish, StoryFree
<1>4. /\ pub'[f].rev = r /\ pub'[f].owner = i /\ pub'[f].claim = "open"
      /\ pub'[f].session = "reserved" /\ pub'[f].attempt = "none" /\ pub'[f].child = "none"
      /\ \A d \in Pubs \ {f} : pub'[d] = pub[d]
  BY <1>0 DEF Publish, PubMoves, NoPublication
<1>5. /\ worker'[i].pc = "published" /\ worker'[i].rev = r /\ worker'[i].lease = worker[i].lease
      /\ worker'[i].pub = f
      /\ \A j \in Instances \ {i} : worker'[j] = worker[j]
  BY <1>0 DEF Publish, Remember, Workers
<1>6. /\ \A d \in Pubs : ~ActiveAttempt(d)'
      /\ \A d \in Pubs : pub'[d].claim = "open" <=> d = f
      /\ \A d \in Pubs : ActiveAttempt(d)' <=> pub'[d].attempt \in {"claimed", "running"}
      /\ Rev' = Rev /\ CaseActive' = CaseActive
      /\ \A q \in Revisions : IsActive(q)' <=> IsActive(q)
  BY <1>3, <1>4 DEF ActiveAttempt, Rev, CaseActive, IsActive
<1>7. \A q \in Revisions : delivery[q].state \notin Bound
  BY <1>1, <1>2, ActiveIsCurrent DEF IsActive, Bound
<1> HIDE DEF r, f
<1>8. CaseRows'
  <2>1. RevisionsInOrder'
    BY <1>3, <1>6 DEF RecoveryInv, CaseRows, RevisionsInOrder, Current
  <2>2. PublicationRows'
    BY <1>1, <1>3, <1>4 DEF RecoveryInv, CaseRows, PublicationRows
  <2>3. ClaimsAreActive'
    BY <1>1, <1>3, <1>4, <1>6 DEF RecoveryInv, CaseRows, ClaimsAreActive, IsActive, Unbound, Bound
  <2>4. RunningStoryIsModel'
    BY <1>1, <1>2, <1>3, <1>6 DEF RunningStoryIsModel, Current
  <2>5. OneStoryOwner'
    BY <1>6 DEF RecoveryInv, CaseRows, OneStoryOwner
  <2>6. FenceAgreement'
    BY <1>3, <1>6, <1>7 DEF FenceAgreement
  <2>7. RunningStoryIsOwned'
    BY <1>0, <1>1, <1>2, <1>4, <1>6 DEF RunningStoryIsOwned, IsActive, Unbound
  <2>8. EndedCaseIsQuiet'
    BY <1>2, <1>3, <1>6 DEF EndedCaseIsQuiet, Ends
  <2> QED
    BY <2>1, <2>2, <2>3, <2>4, <2>5, <2>6, <2>7, <2>8 DEF CaseRows
<1>9. WorkersKept(i)
  <2>1. \A q \in Revisions : delivery[q].lease <= delivery[q].lease
    BY DEF RecoveryInv, RecoveryTypeOK, Deliveries
  <2>2. pub[f].rev = 0
    BY <1>0 DEF NoPublication
  <2> QED
    BY <1>3, <1>4, <1>5, <2>1, <2>2 DEF WorkersKept
<1>10. WorkerRemembers(i)'
  <2>1. worker[i].lease <= delivery[r].lease
    BY <1>0 DEF RecoveryInv, WorkerKnows, WorkerRemembers, RestPcs, r
  <2> QED
    BY <1>0, <1>1, <1>3, <1>4, <1>5, <2>1 DEF WorkerRemembers, RestPcs, EvidencePcs
<1>11. WorkerKnows(i)'
  BY <1>4, <1>5, <1>10 DEF WorkerKnows, OwnerRemembers, UnreservedClaim, ReservedKeepsLease,
     ReservedPcs
<1>12. RunningIsWatched'
  BY <1>4 DEF RecoveryInv, RunningIsWatched
<1>13. \A j \in Instances \ {i} : WorkerKnows(j)'
  BY <1>9, KeptRowsKeepWorkers DEF RecoveryInv
<1> QED
  BY <1>8, <1>11, <1>12, <1>13 DEF RowsAndWorkers

\* The rollback leaves an authorized dispatch and nothing else of the story.
LEMMA RollbackStep ==
    ASSUME RecoveryInv, RecoveryTypeOK', NEW c \in Pubs, RollbackPublication(c)
    PROVE  RowsAndWorkers'
<1>0. /\ pub \in [Pubs -> Publications] /\ delivery \in [Revisions -> Deliveries]
      /\ Rev \in Revisions /\ Current.lease \in Nat
  BY DEF RecoveryInv, RecoveryTypeOK, Rev, Current, Deliveries
<1>1. /\ run = "active" /\ CaseActive /\ Current.state = "leased"
      /\ pub[c].rev = Rev /\ pub[c].claim = "open" /\ pub[c].session = "reserved"
      /\ \A d \in Pubs : ~ActiveAttempt(d)
      /\ story' = "failed" /\ UNCHANGED <<run, recoveryCase, worker, coordinator>>
  BY DEF RollbackPublication, RollsBack
<1>2. /\ pub'[c].rev = pub[c].rev /\ pub'[c].owner = pub[c].owner /\ pub'[c].claim = "closed"
      /\ pub'[c].session = "released" /\ pub'[c].attempt = pub[c].attempt
      /\ pub'[c].child = pub[c].child
      /\ \A d \in Pubs \ {c} : pub'[d] = pub[d]
  BY <1>0 DEF RollbackPublication, PubMoves, Publications
<1>3. /\ delivery'[Rev].class = Current.class /\ delivery'[Rev].pub = Current.pub
      /\ delivery'[Rev].lease = Current.lease /\ delivery'[Rev].owner = Nobody
      /\ delivery'[Rev].state = "authorized"
      /\ \A r \in Revisions \ {Rev} : delivery'[r] = delivery[r]
  BY <1>0 DEF RollbackPublication, DeliveryMoves, Deliveries, Current
<1>4. /\ \A d \in Pubs : ~ActiveAttempt(d)'
      /\ \A d \in Pubs : pub[d].claim = "open" => d = c
      /\ \A d \in Pubs : pub'[d].claim # "open"
      /\ Rev' = Rev /\ CaseActive' = CaseActive /\ run' = run
      /\ \A q \in Revisions : IsActive(q)' <=> IsActive(q)
      /\ \A q \in Revisions : IsActive(q) => q = Rev
      /\ \A q \in Revisions : delivery'[q].state = "none" <=> delivery[q].state = "none"
      /\ \A q \in Revisions : delivery'[q].class = delivery[q].class
      /\ \A q \in Revisions : delivery'[q].pub = delivery[q].pub
  <2>1. \A d \in Pubs : ~ActiveAttempt(d)'
    BY <1>1, <1>2 DEF ActiveAttempt
  <2>2. \A d \in Pubs : pub[d].claim = "open" => d = c
    BY <1>1 DEF RecoveryInv, CaseRows, OneStoryOwner
  <2>3. \A d \in Pubs : pub'[d].claim # "open"
    BY <1>2, <2>2
  <2>4. Rev' = Rev /\ CaseActive' = CaseActive /\ run' = run
    BY <1>1 DEF Rev, CaseActive
  <2>5. \A q \in Revisions : IsActive(q)' <=> IsActive(q)
    BY <1>1, <1>3 DEF IsActive, Unbound, Current
  <2>6. /\ \A q \in Revisions : delivery'[q].state = "none" <=> delivery[q].state = "none"
        /\ \A q \in Revisions : delivery'[q].class = delivery[q].class
        /\ \A q \in Revisions : delivery'[q].pub = delivery[q].pub
    BY <1>1, <1>3 DEF Current
  <2> QED
    BY <2>1, <2>2, <2>3, <2>4, <2>5, <2>6, ActiveIsCurrent
<1>5. \A q \in Revisions : delivery'[q].state \notin Bound
  BY <1>3, <1>4 DEF IsActive, Bound
<1>6. CaseRows'
  <2>1. RevisionsInOrder'
    BY <1>0, <1>1, <1>4 DEF RecoveryInv, CaseRows, RevisionsInOrder, Current
  <2>2. PublicationRows'
    <3>1. \A q \in Revisions : delivery'[q].state \in {"none"} \cup Unbound => delivery'[q].pub = 0
      BY <1>1, <1>3 DEF RecoveryInv, CaseRows, PublicationRows, Unbound, Current
    <3>2. \A d \in Pubs : pub'[d].session = "none" => pub'[d].child = "none"
      BY <1>2 DEF RecoveryInv, CaseRows, PublicationRows
    <3>3. \A d \in Pubs : IF pub'[d].claim = "absent" THEN pub'[d] = NoPublication
                          ELSE /\ pub'[d].rev \in Revisions
                               /\ delivery'[pub'[d].rev].state # "none"
                               /\ pub'[d].session = "none" <=>
                                     delivery'[pub'[d].rev].class = "evidence_only"
      BY <1>1, <1>2, <1>4 DEF RecoveryInv, CaseRows, PublicationRows
    <3> QED
      BY <3>1, <3>2, <3>3 DEF PublicationRows
  <2>3. ClaimsAreActive'
    BY <1>4 DEF ClaimsAreActive
  <2>4. RunningStoryIsModel' /\ RunningStoryIsOwned'
    BY <1>1 DEF RunningStoryIsModel, RunningStoryIsOwned
  <2>5. OneStoryOwner'
    BY <1>4 DEF OneStoryOwner
  <2>6. FenceAgreement'
    BY <1>4, <1>5 DEF FenceAgreement
  <2>7. EndedCaseIsQuiet'
    BY <1>1, <1>4 DEF EndedCaseIsQuiet, Ends
  <2> QED
    BY <2>1, <2>2, <2>3, <2>4, <2>5, <2>6, <2>7 DEF CaseRows
<1>7. WorkersKept(Nobody)
  <2>1. \A q \in Revisions : delivery[q].lease <= delivery'[q].lease
    <3>1. \A q \in Revisions : delivery[q].lease \in Nat
      BY DEF RecoveryInv, RecoveryTypeOK, Deliveries
    <3> QED
      BY <1>3, <3>1 DEF Current
  <2> QED
    BY <1>1, <1>2, <1>3, <1>4, <2>1 DEF WorkersKept, Current, Unbound
<1>8. \A j \in Instances : WorkerKnows(j)'
  BY <1>7, KeptRowsKeepWorkers, RecoveryAssumption DEF RecoveryInv
<1>9. RunningIsWatched'
  BY <1>1, <1>2 DEF RecoveryInv, RunningIsWatched, ActiveAttempt
<1> QED
  BY <1>6, <1>8, <1>9 DEF RowsAndWorkers

\* The reservation binds the delivery and the only open claim to each other.
LEMMA ReservationKeepsCase ==
    ASSUME RecoveryInv, RecoveryTypeOK', NEW c \in Pubs,
           Rev \in Revisions, Current.state = "leased",
           UNCHANGED <<run, story, recoveryCase, coordinator>>,
           \A r \in Revisions \ {Rev} : delivery'[r] = delivery[r],
           delivery'[Rev].class = Current.class, delivery'[Rev].pub = c,
           delivery'[Rev].state = "attempt_reserved",
           \A d \in Pubs \ {c} : pub'[d] = pub[d] /\ pub[d].claim # "open" /\ ~ActiveAttempt(d),
           pub'[c].rev = Rev, pub'[c].claim = "open", pub'[c].attempt = "claimed",
           pub'[c].session = "none" <=> Current.class = "evidence_only",
           pub'[c].session = "none" => pub'[c].child = "none"
    PROVE  CaseRows'
<1>1. /\ \A q \in Revisions : IsActive(q)' <=> IsActive(q)
      /\ \A q \in Revisions : IsActive(q) => q = Rev
      /\ IsActive(Rev) /\ CaseActive /\ run \notin Ends
      /\ Rev' = Rev /\ CaseActive' = CaseActive /\ run' = run
      /\ \A q \in Revisions : delivery'[q].state = "none" <=> delivery[q].state = "none"
      /\ \A q \in Revisions : delivery'[q].class = delivery[q].class
  <2>1. IsActive(Rev)
    BY DEF IsActive, Current, Unbound
  <2>2. \A q \in Revisions : IsActive(q)' <=> IsActive(q)
    BY DEF IsActive, Unbound, Bound, Current
  <2>3. Rev' = Rev /\ CaseActive' = CaseActive /\ run' = run
    BY DEF Rev, CaseActive
  <2> QED
    BY <2>1, <2>2, <2>3, ActiveIsCurrent DEF Current
<1>2. \A q \in Revisions : delivery'[q].state \in Bound => q = Rev
  BY <1>1 DEF IsActive
<1>3. /\ \A d \in Pubs : pub'[d].claim = "open" <=> d = c
      /\ \A d \in Pubs : ActiveAttempt(d)' <=> d = c
  BY DEF ActiveAttempt
<1>4. c # 0
  BY DEF Pubs
<1>5. RevisionsInOrder'
  BY <1>1 DEF RecoveryInv, CaseRows, RevisionsInOrder, Current
<1>6. PublicationRows'
  <2>1. \A q \in Revisions : delivery'[q].state \in {"none"} \cup Unbound => delivery'[q].pub = 0
    BY DEF RecoveryInv, CaseRows, PublicationRows, Unbound
  <2>2. \A d \in Pubs : pub'[d].session = "none" => pub'[d].child = "none"
    BY DEF RecoveryInv, CaseRows, PublicationRows
  <2>3. \A d \in Pubs : IF pub'[d].claim = "absent" THEN pub'[d] = NoPublication
                        ELSE /\ pub'[d].rev \in Revisions
                             /\ delivery'[pub'[d].rev].state # "none"
                             /\ pub'[d].session = "none" <=>
                                   delivery'[pub'[d].rev].class = "evidence_only"
    <3>1. ASSUME NEW d \in Pubs, d # c, pub[d].claim # "absent"
          PROVE  /\ pub'[d].rev \in Revisions
                 /\ delivery'[pub'[d].rev].state # "none"
                 /\ pub'[d].session = "none" <=>
                       delivery'[pub'[d].rev].class = "evidence_only"
      BY <1>1, <3>1 DEF RecoveryInv, CaseRows, PublicationRows
    <3>2. /\ pub'[c].claim # "absent" /\ pub'[c].rev \in Revisions
          /\ delivery'[pub'[c].rev].state # "none"
          /\ pub'[c].session = "none" <=> delivery'[pub'[c].rev].class = "evidence_only"
      OBVIOUS
    <3> QED
      BY <3>1, <3>2 DEF RecoveryInv, CaseRows, PublicationRows
  <2> QED
    BY <2>1, <2>2, <2>3 DEF PublicationRows
<1>7. ClaimsAreActive'
  BY <1>1, <1>3 DEF ClaimsAreActive, Bound
<1>8. RunningStoryIsModel'
  BY <1>1 DEF RecoveryInv, CaseRows, RunningStoryIsModel, Current
<1>9. OneStoryOwner'
  BY <1>1, <1>3 DEF OneStoryOwner
<1>10. FenceAgreement'
  BY <1>2, <1>3, <1>4 DEF FenceAgreement, Bound
<1>11. RunningStoryIsOwned'
  BY <1>1, <1>3 DEF RunningStoryIsOwned
<1>12. EndedCaseIsQuiet'
  BY <1>1 DEF EndedCaseIsQuiet
<1> QED
  BY <1>5, <1>6, <1>7, <1>8, <1>9, <1>10, <1>11, <1>12 DEF CaseRows

LEMMA ReserveAttemptStep ==
    ASSUME RecoveryInv, RecoveryTypeOK', NEW i \in Instances, ReserveAttempt(i)
    PROVE  RowsAndWorkers'
<1> DEFINE c == worker[i].pub
<1>0. /\ pub \in [Pubs -> Publications] /\ delivery \in [Revisions -> Deliveries]
      /\ worker \in [Instances -> Workers] /\ worker[i].pc = "published"
      /\ \A q \in Revisions : delivery[q].lease \in Nat
  BY DEF RecoveryInv, RecoveryTypeOK, ReserveAttempt, Deliveries
<1>1. /\ worker[i].rev \in Revisions /\ c \in Pubs /\ pub[c].rev = worker[i].rev
      /\ pub[c].owner = i /\ pub[c].attempt = "none"
      /\ delivery[worker[i].rev].class # "evidence_only"
      /\ delivery[worker[i].rev].state = "leased"
      /\ delivery[worker[i].rev].lease = worker[i].lease
      /\ pub[c].claim = "open"
      /\ \A d \in Pubs : ~ActiveAttempt(d)
  BY <1>0 DEF RecoveryInv, WorkerKnows, WorkerRemembers, OwnerRemembers, UnreservedClaim,
     RestPcs, OwnerPcs, EvidencePcs, ReserveAttempt, MayReserve, HoldsLease
<1>2. worker[i].rev = Rev
  BY <1>1, ActiveIsCurrent DEF IsActive, Unbound
<1>3. /\ UNCHANGED <<run, story, recoveryCase, coordinator>>
      /\ pub'[c].rev = Rev /\ pub'[c].owner = i /\ pub'[c].claim = "open"
      /\ pub'[c].attempt = "claimed" /\ pub'[c].session = pub[c].session
      /\ pub'[c].child = pub[c].child
      /\ \A d \in Pubs \ {c} : pub'[d] = pub[d]
  BY <1>0, <1>1, <1>2 DEF ReserveAttempt, PubMoves, Publications
<1>4. /\ delivery'[Rev].class = Current.class /\ delivery'[Rev].pub = c
      /\ delivery'[Rev].lease = Current.lease /\ delivery'[Rev].state = "attempt_reserved"
      /\ \A r \in Revisions \ {Rev} : delivery'[r] = delivery[r]
  BY <1>0, <1>1, <1>2 DEF ReserveAttempt, DeliveryMoves, Deliveries, Current
<1>5. /\ worker'[i].pc = "reserved" /\ worker'[i].rev = Rev /\ worker'[i].pub = c
      /\ worker'[i].lease = Current.lease
      /\ \A j \in Instances \ {i} : worker'[j] = worker[j]
  BY <1>0, <1>1, <1>2 DEF ReserveAttempt, Remember, Workers, Current
<1>6. /\ pub[c].session # "none"
      /\ \A d \in Pubs \ {c} : pub[d].claim # "open"
  BY <1>1 DEF RecoveryInv, CaseRows, PublicationRows, OneStoryOwner
<1> HIDE DEF c
<1>7. CaseRows'
  BY <1>1, <1>2, <1>3, <1>4, <1>6, ReservationKeepsCase DEF Current
<1>8. WorkersKept(i)
  <2>1. \A q \in Revisions : delivery[q].lease <= delivery'[q].lease
    BY <1>0, <1>4 DEF Current
  <2>2. \A d \in Pubs : pub[d].claim = "open" => pub'[d].claim = "open"
    BY <1>3
  <2>3. \A d \in Pubs : pub[d].attempt \in Verdicts => pub'[d].attempt = pub[d].attempt
    BY <1>1, <1>3 DEF Verdicts
  <2> QED
    BY <1>1, <1>2, <1>3, <1>4, <1>5, <2>1, <2>2, <2>3 DEF WorkersKept, Current, Unbound
<1>9. WorkerRemembers(i)'
  BY <1>0, <1>1, <1>2, <1>3, <1>4, <1>5 DEF WorkerRemembers, RestPcs, EvidencePcs, Current
<1>10. WorkerKnows(i)'
  BY <1>3, <1>4, <1>5, <1>9 DEF WorkerKnows, OwnerRemembers, UnreservedClaim,
     ReservedKeepsLease, Unbound
<1>11. RunningIsWatched'
  BY <1>3 DEF RecoveryInv, RunningIsWatched
<1>12. \A j \in Instances \ {i} : WorkerKnows(j)'
  BY <1>8, KeptRowsKeepWorkers DEF RecoveryInv
<1> QED
  BY <1>7, <1>10, <1>11, <1>12 DEF RowsAndWorkers

LEMMA ReserveEvidenceStep ==
    ASSUME RecoveryInv, RecoveryTypeOK', NEW i \in Instances, ReserveEvidence(i)
    PROVE  RowsAndWorkers'
<1> DEFINE f == FreshPub
<1>0. /\ pub \in [Pubs -> Publications] /\ delivery \in [Revisions -> Deliveries]
      /\ worker \in [Instances -> Workers] /\ worker[i].pc = "evidence_leased"
      /\ \A q \in Revisions : delivery[q].lease \in Nat
      /\ f \in Pubs /\ pub[f].rev = 0 /\ pub[f].claim = "absent"
  <2>1. f \in Pubs /\ pub[f].claim = "absent"
    BY FreshPublication DEF ReserveEvidence, RecoveryInv
  <2>2. pub[f].rev = 0
    BY <2>1 DEF RecoveryInv, CaseRows, PublicationRows, NoPublication
  <2> QED
    BY <2>1, <2>2 DEF RecoveryInv, RecoveryTypeOK, ReserveEvidence, Deliveries
<1>1. /\ worker[i].rev \in Revisions
      /\ delivery[worker[i].rev].class = "evidence_only"
      /\ delivery[worker[i].rev].state = "leased"
      /\ delivery[worker[i].rev].lease = worker[i].lease
      /\ \A d \in Pubs : pub[d].claim # "open" /\ ~ActiveAttempt(d)
  BY <1>0 DEF RecoveryInv, WorkerKnows, WorkerRemembers, RestPcs, EvidencePcs,
     ReserveEvidence, HoldsLease, StoryFree
<1>2. worker[i].rev = Rev
  BY <1>1, ActiveIsCurrent DEF IsActive, Unbound
<1>3. /\ UNCHANGED <<run, story, recoveryCase, coordinator>>
      /\ pub'[f].rev = Rev /\ pub'[f].owner = i /\ pub'[f].claim = "open"
      /\ pub'[f].attempt = "claimed" /\ pub'[f].session = "none" /\ pub'[f].child = "none"
      /\ \A d \in Pubs \ {f} : pub'[d] = pub[d]
  BY <1>0, <1>1, <1>2 DEF ReserveEvidence, PubMoves, NoPublication
<1>4. /\ delivery'[Rev].class = Current.class /\ delivery'[Rev].pub = f
      /\ delivery'[Rev].lease = Current.lease /\ delivery'[Rev].state = "attempt_reserved"
      /\ \A r \in Revisions \ {Rev} : delivery'[r] = delivery[r]
  BY <1>0, <1>1, <1>2 DEF ReserveEvidence, DeliveryMoves, Deliveries, Current
<1>5. /\ worker'[i].pc = "evidence_reserved" /\ worker'[i].rev = Rev /\ worker'[i].pub = f
      /\ worker'[i].lease = Current.lease
      /\ \A j \in Instances \ {i} : worker'[j] = worker[j]
  BY <1>0, <1>1, <1>2 DEF ReserveEvidence, Remember, Workers, Current
<1> HIDE DEF f
<1>6. CaseRows'
  BY <1>0, <1>1, <1>2, <1>3, <1>4, ReservationKeepsCase DEF Current
<1>7. WorkersKept(i)
  <2>1. \A q \in Revisions : delivery[q].lease <= delivery'[q].lease
    BY <1>0, <1>4 DEF Current
  <2> QED
    BY <1>0, <1>1, <1>2, <1>3, <1>4, <1>5, <2>1 DEF WorkersKept, Current, Unbound
<1>8. WorkerRemembers(i)'
  BY <1>0, <1>1, <1>2, <1>3, <1>4, <1>5 DEF WorkerRemembers, RestPcs, EvidencePcs, Current
<1>9. WorkerKnows(i)'
  BY <1>3, <1>5, <1>8 DEF WorkerKnows, OwnerRemembers, UnreservedClaim,
     ReservedKeepsLease, ReservedPcs
<1>10. RunningIsWatched'
  BY <1>3 DEF RecoveryInv, RunningIsWatched
<1>11. \A j \in Instances \ {i} : WorkerKnows(j)'
  BY <1>7, KeptRowsKeepWorkers DEF RecoveryInv
<1> QED
  BY <1>6, <1>9, <1>10, <1>11 DEF RowsAndWorkers

-----------------------------------------------------------------------------
(* The attempt ends *)

\* The attempt of a bound delivery gets its verdict, or its claim is closed
\* after it, while nobody works on the story any more.
LEMMA VerdictKeepsCase ==
    ASSUME RecoveryInv, RecoveryTypeOK', NEW c \in Pubs,
           pub[c].rev \in Revisions, pub[c].claim # "absent",
           UNCHANGED <<run, recoveryCase, delivery, coordinator>>, story' # "running",
           \A d \in Pubs \ {c} : pub'[d] = pub[d],
           pub'[c].rev = pub[c].rev, pub'[c].claim \in {pub[c].claim, "closed"},
           pub'[c].attempt \in Verdicts, pub'[c].attempt = "refused" => pub'[c].claim = "closed",
           pub'[c].session = pub[c].session, pub'[c].child = pub[c].child
    PROVE  CaseRows'
<1>1. /\ Rev' = Rev /\ CaseActive' = CaseActive
      /\ \A q \in Revisions : IsActive(q)' <=> IsActive(q)
      /\ \A d \in Pubs : ActiveAttempt(d)' => ActiveAttempt(d) /\ d # c
      /\ \A d \in Pubs : pub'[d].claim = "open" => pub[d].claim = "open"
      /\ \A d \in Pubs : pub'[d].rev = pub[d].rev
  BY DEF Rev, CaseActive, IsActive, ActiveAttempt, Verdicts
<1>2. RevisionsInOrder'
  BY <1>1 DEF RecoveryInv, CaseRows, RevisionsInOrder, Current
<1>3. PublicationRows'
  BY DEF RecoveryInv, CaseRows, PublicationRows
<1>4. ClaimsAreActive'
  <2>1. \A d \in Pubs : pub[d].claim = "open" => pub[d].rev \in Revisions
    BY DEF RecoveryInv, CaseRows, PublicationRows
  <2> QED
    BY <1>1, <2>1 DEF RecoveryInv, CaseRows, ClaimsAreActive
<1>5. RunningStoryIsModel' /\ RunningStoryIsOwned'
  BY DEF RunningStoryIsModel, RunningStoryIsOwned
<1>6. OneStoryOwner'
  BY <1>1 DEF RecoveryInv, CaseRows, OneStoryOwner
<1>7. FenceAgreement'
  <2>1. \A q \in Revisions : delivery'[q].state \in Bound =>
            /\ delivery'[q].pub # 0
            /\ pub'[delivery'[q].pub].rev = q
            /\ pub'[delivery'[q].pub].attempt \in {"claimed", "running"} \cup Verdicts
    <3>1. \A q \in Revisions : delivery[q].pub # 0 => delivery[q].pub \in Pubs
      BY DEF RecoveryInv, RecoveryTypeOK, Deliveries, Pubs
    <3> QED
      BY <1>1, <3>1 DEF RecoveryInv, CaseRows, FenceAgreement
  <2>2. \A d \in Pubs : ActiveAttempt(d)' =>
            /\ delivery'[pub'[d].rev].state \in Bound
            /\ delivery'[pub'[d].rev].pub = d
            /\ pub'[d].claim = "open"
    BY <1>1 DEF RecoveryInv, CaseRows, FenceAgreement
  <2> QED
    BY <2>1, <2>2 DEF FenceAgreement
<1>8. EndedCaseIsQuiet'
  BY <1>1 DEF RecoveryInv, CaseRows, EndedCaseIsQuiet
<1> QED
  BY <1>2, <1>3, <1>4, <1>5, <1>6, <1>7, <1>8 DEF CaseRows

LEMMA VerdictKeepsWorkers ==
    ASSUME RecoveryInv, RecoveryTypeOK', NEW a, NEW c \in Pubs,
           delivery' = delivery, \A j \in Instances \ {a} : worker'[j] = worker[j],
           pub[c].rev = 0 \/ delivery[pub[c].rev].state # "leased",
           \A d \in Pubs \ {c} : pub'[d] = pub[d],
           pub'[c].rev = pub[c].rev, pub'[c].owner = pub[c].owner,
           pub[c].attempt # "none", pub'[c].attempt \in Verdicts,
           pub[c].attempt \in Verdicts => pub'[c].attempt = pub[c].attempt
    PROVE  WorkersKept(a) /\ RunningIsWatched'
<1>1. \A q \in Revisions : delivery[q].lease <= delivery'[q].lease
  <2>1. \A q \in Revisions : delivery[q].lease \in Nat
    BY DEF RecoveryInv, RecoveryTypeOK, Deliveries
  <2> QED
    BY <2>1
<1>2. WorkersKept(a)
  BY <1>1 DEF WorkersKept, Verdicts
<1>3. RunningIsWatched'
  BY DEF RecoveryInv, RunningIsWatched, Verdicts
<1> QED
  BY <1>2, <1>3

\* A story with evidence in hand is not running.
LEMMA EvidenceIsAlone ==
    ASSUME RecoveryInv, NEW r \in Revisions, delivery[r].class = "evidence_only", IsActive(r)
    PROVE  story # "running"
  BY ActiveIsCurrent DEF RecoveryInv, CaseRows, RunningStoryIsModel, Current

LEMMA JudgeEvidenceStep ==
    ASSUME RecoveryInv, RecoveryTypeOK', NEW i \in Instances,
           NEW verdict \in {"verified", "failed"}, JudgeEvidence(i, verdict)
    PROVE  RowsAndWorkers'
<1> DEFINE r == worker[i].rev
           c == worker[i].pub
<1>0. /\ pub \in [Pubs -> Publications] /\ worker \in [Instances -> Workers]
      /\ worker[i].pc = "evidence_running" /\ verdict \in Verdicts /\ verdict # "refused"
  BY DEF RecoveryInv, RecoveryTypeOK, JudgeEvidence, Verdicts
<1>1. /\ r \in Revisions /\ c \in Pubs /\ pub[c].rev = r /\ r # 0
      /\ delivery[r].class = "evidence_only" /\ delivery[r].state # "none"
      /\ worker[i].lease <= delivery[r].lease
      /\ delivery[r].state \in Bound /\ ActiveAttempt(c)
  BY <1>0 DEF RecoveryInv, WorkerKnows, WorkerRemembers, RestPcs, EvidencePcs, Revisions,
     JudgeEvidence, HoldsAttempt
<1>2. story # "running"
  BY <1>1, EvidenceIsAlone DEF IsActive
<1>3. /\ pub'[c].rev = r /\ pub'[c].owner = pub[c].owner /\ pub'[c].claim = pub[c].claim
      /\ pub'[c].attempt = verdict /\ pub'[c].session = pub[c].session
      /\ pub'[c].child = pub[c].child
      /\ \A d \in Pubs \ {c} : pub'[d] = pub[d]
      /\ UNCHANGED <<run, story, recoveryCase, delivery, coordinator>>
  BY <1>0, <1>1 DEF JudgeEvidence, PubMoves, Publications
<1>4. /\ worker'[i].pc = "evidence_judged" /\ worker'[i].rev = r
      /\ worker'[i].lease = worker[i].lease /\ worker'[i].pub = c
      /\ \A j \in Instances \ {i} : worker'[j] = worker[j]
  BY <1>0 DEF JudgeEvidence, Remember, Workers
<1>5. pub[c].claim # "absent"
  BY <1>1 DEF RecoveryInv, CaseRows, FenceAgreement
<1>6. CaseRows'
  BY <1>0, <1>1, <1>2, <1>3, <1>5, VerdictKeepsCase
<1>7. WorkersKept(i) /\ RunningIsWatched'
  BY <1>0, <1>1, <1>3, <1>4, VerdictKeepsWorkers DEF ActiveAttempt, Verdicts, Bound
<1> HIDE DEF r, c
<1>8. WorkerRemembers(i)'
  BY <1>1, <1>3, <1>4 DEF WorkerRemembers, RestPcs, EvidencePcs
<1>9. WorkerKnows(i)'
  BY <1>0, <1>3, <1>4, <1>8 DEF WorkerKnows, OwnerRemembers, UnreservedClaim,
     ReservedKeepsLease, OwnerPcs, ReservedPcs
<1>10. \A j \in Instances \ {i} : WorkerKnows(j)'
  BY <1>7, KeptRowsKeepWorkers DEF RecoveryInv
<1> QED
  BY <1>6, <1>7, <1>9, <1>10 DEF RowsAndWorkers

LEMMA CloseEvidenceClaimStep ==
    ASSUME RecoveryInv, RecoveryTypeOK', NEW i \in Instances, CloseEvidenceClaim(i)
    PROVE  RowsAndWorkers'
<1> DEFINE r == worker[i].rev
           c == worker[i].pub
<1>0. /\ pub \in [Pubs -> Publications] /\ worker \in [Instances -> Workers]
      /\ worker[i].pc = "evidence_judged"
  BY DEF RecoveryInv, RecoveryTypeOK, CloseEvidenceClaim
<1>1. /\ r \in Revisions /\ c \in Pubs /\ pub[c].rev = r /\ r # 0
      /\ delivery[r].class = "evidence_only" /\ delivery[r].state \in Bound
      /\ pub[c].attempt \in Verdicts
  BY <1>0 DEF RecoveryInv, WorkerKnows, WorkerRemembers, OwnerRemembers, RestPcs, EvidencePcs,
     Revisions, CloseEvidenceClaim
<1>2. story # "running"
  BY <1>1, EvidenceIsAlone DEF IsActive
<1>3. /\ pub'[c].rev = r /\ pub'[c].owner = pub[c].owner /\ pub'[c].claim = "closed"
      /\ pub'[c].attempt = pub[c].attempt /\ pub'[c].session = pub[c].session
      /\ pub'[c].child = pub[c].child
      /\ \A d \in Pubs \ {c} : pub'[d] = pub[d]
      /\ UNCHANGED <<run, story, recoveryCase, delivery, coordinator>>
  BY <1>0, <1>1 DEF CloseEvidenceClaim, PubMoves, Publications
<1>4. /\ worker'[i].pc \in RestPcs /\ worker'[i].rev = 0 /\ worker'[i].pub = 0
      /\ \A j \in Instances \ {i} : worker'[j] = worker[j]
  BY <1>0 DEF CloseEvidenceClaim, Forget, Remember, Idle, RestPcs
<1>5. pub[c].claim # "absent"
  BY <1>1 DEF RecoveryInv, CaseRows, PublicationRows, NoPublication
<1>6. CaseRows'
  BY <1>0, <1>1, <1>2, <1>3, <1>5, VerdictKeepsCase
<1>7. WorkersKept(i) /\ RunningIsWatched'
  BY <1>0, <1>1, <1>3, <1>4, VerdictKeepsWorkers DEF Verdicts, Bound
<1>8. \A j \in Instances \ {i} : WorkerKnows(j)'
  BY <1>7, KeptRowsKeepWorkers DEF RecoveryInv
<1> QED
  BY <1>4, <1>6, <1>7, <1>8, RestingWorkerKnows DEF RowsAndWorkers

LEMMA FinishAttemptStep ==
    ASSUME RecoveryInv, RecoveryTypeOK', NEW c \in Pubs, NEW verdict \in Verdicts,
           FinishAttempt(c, verdict)
    PROVE  RowsAndWorkers'
<1>0. pub \in [Pubs -> Publications]
  BY DEF RecoveryInv, RecoveryTypeOK
<1>1. /\ pub[c].claim = "open" /\ ActiveAttempt(c) /\ delivery[pub[c].rev].state \in Bound
      /\ story' # "running" /\ UNCHANGED <<run, recoveryCase, delivery, worker, coordinator>>
  BY DEF FinishAttempt, MayFinish
<1>2. pub[c].rev \in Revisions
  BY <1>1 DEF RecoveryInv, CaseRows, PublicationRows
<1>3. /\ pub'[c].rev = pub[c].rev /\ pub'[c].owner = pub[c].owner /\ pub'[c].claim = "closed"
      /\ pub'[c].attempt = verdict /\ pub'[c].session = pub[c].session
      /\ pub'[c].child = pub[c].child
      /\ \A d \in Pubs \ {c} : pub'[d] = pub[d]
  BY <1>0 DEF FinishAttempt, PubMoves, Publications
<1>4. CaseRows'
  BY <1>1, <1>2, <1>3, VerdictKeepsCase
<1>5. WorkersKept(Nobody) /\ RunningIsWatched'
  BY <1>1, <1>3, VerdictKeepsWorkers DEF ActiveAttempt, Verdicts, Bound
<1>6. \A j \in Instances : WorkerKnows(j)'
  BY <1>5, KeptRowsKeepWorkers, RecoveryAssumption DEF RecoveryInv
<1> QED
  BY <1>4, <1>5, <1>6 DEF RowsAndWorkers

-----------------------------------------------------------------------------
(* The dispatch, the case and the run end *)

\* Nobody works on the story and nothing waits to.
Quiet ==
    /\ \A r \in Revisions : ~IsActive(r)
    /\ \A c \in Pubs : pub[c].claim # "open" /\ ~ActiveAttempt(c)
    /\ story # "running"

\* Without an active current delivery there is nothing of anybody.
LEMMA EndedDispatchIsQuiet ==
    ASSUME RecoveryInv, ~IsActive(Rev)
    PROVE  Quiet
<1>1. \A r \in Revisions : ~IsActive(r)
  BY DEF RecoveryInv, CaseRows, OneStoryOwner
<1>2. \A c \in Pubs : pub[c].claim = "open" => pub[c].rev \in Revisions
  BY DEF RecoveryInv, CaseRows, PublicationRows
<1>3. \A c \in Pubs : pub[c].claim # "open"
  BY <1>1, <1>2 DEF RecoveryInv, CaseRows, ClaimsAreActive
<1> QED
  BY <1>1, <1>3 DEF Quiet, RecoveryInv, CaseRows, FenceAgreement, RunningStoryIsOwned

\* In a quiet case only the order of the revisions and the rows remain to be seen.
LEMMA QuietCase ==
    ASSUME RecoveryInv, RevisionsInOrder', Quiet', run' \in Ends => ~CaseActive',
           \A r \in Revisions :
              /\ delivery'[r].state = "none" <=> delivery[r].state = "none"
              /\ delivery'[r].class = delivery[r].class
              /\ delivery'[r].pub = delivery[r].pub,
           \A c \in Pubs :
              /\ pub[c].claim = "absent" => pub'[c] = pub[c]
              /\ pub'[c].claim = "absent" => pub[c].claim = "absent"
              /\ pub'[c].rev = pub[c].rev
              /\ pub'[c].child = pub[c].child
              /\ pub'[c].session = "none" <=> pub[c].session = "none"
    PROVE  CaseRows'
<1>1. PublicationRows'
  <2>1. \A q \in Revisions : delivery'[q].state \in {"none"} \cup Unbound => delivery'[q].pub = 0
    BY DEF RecoveryInv, CaseRows, PublicationRows, Quiet, IsActive
  <2>2. \A d \in Pubs : pub'[d].session = "none" => pub'[d].child = "none"
    BY DEF RecoveryInv, CaseRows, PublicationRows
  <2>3. \A d \in Pubs : IF pub'[d].claim = "absent" THEN pub'[d] = NoPublication
                        ELSE /\ pub'[d].rev \in Revisions
                             /\ delivery'[pub'[d].rev].state # "none"
                             /\ pub'[d].session = "none" <=>
                                   delivery'[pub'[d].rev].class = "evidence_only"
    BY DEF RecoveryInv, CaseRows, PublicationRows
  <2> QED
    BY <2>1, <2>2, <2>3 DEF PublicationRows
<1>2. ClaimsAreActive' /\ RunningStoryIsModel' /\ RunningStoryIsOwned' /\ EndedCaseIsQuiet'
  BY DEF Quiet, ClaimsAreActive, RunningStoryIsModel, RunningStoryIsOwned, EndedCaseIsQuiet
<1>3. OneStoryOwner' /\ FenceAgreement'
  BY DEF Quiet, OneStoryOwner, FenceAgreement, IsActive
<1> QED
  BY <1>1, <1>2, <1>3 DEF CaseRows

\* The order of the revisions does not depend on how their dispatches end.
LEMMA OrderIsKept ==
    ASSUME RecoveryInv, Rev' = Rev, coordinator' \in {coordinator, "none"},
           \A r \in Revisions :
              /\ delivery'[r].state = "none" <=> delivery[r].state = "none"
              /\ delivery'[r].class = delivery[r].class
    PROVE  RevisionsInOrder'
<1>1. Rev \in Revisions
  BY DEF RecoveryInv, RecoveryTypeOK, Rev
<1> QED
  BY <1>1 DEF RecoveryInv, CaseRows, RevisionsInOrder, Current

\* The bound dispatch ends, and its attempt with it if that had not.
LEMMA DispatchEnds ==
    ASSUME RecoveryInv, RecoveryTypeOK', NEW a, NEW c, c = Current.pub,
           Current.state \in Bound,
           run' = run, Rev' = Rev, coordinator' = coordinator,
           \/ story' = story /\ (pub[c].claim # "open" \/ Current.class = "evidence_only")
           \/ story' = "failed",
           \A j \in Instances \ {a} : worker'[j] = worker[j],
           \A r \in Revisions \ {Rev} : delivery'[r] = delivery[r],
           delivery'[Rev].class = Current.class, delivery'[Rev].pub = Current.pub,
           delivery'[Rev].lease = Current.lease, delivery'[Rev].state \in TerminalStates,
           \A d \in Pubs \ {c} : pub'[d] = pub[d],
           pub'[c].rev = pub[c].rev, pub'[c].owner = pub[c].owner, pub'[c].child = pub[c].child,
           pub'[c].session = "none" <=> pub[c].session = "none",
           pub'[c].claim # "open", pub'[c].claim = "absent" => pub[c].claim = "absent",
           pub'[c].attempt \in {"verified", "failed", "refused", "inconclusive"},
           pub[c].attempt \in Verdicts => pub'[c].attempt = pub[c].attempt
    PROVE  CaseRows' /\ WorkersKept(a) /\ RunningIsWatched'
<1>0. /\ Rev \in Revisions /\ \A q \in Revisions : delivery[q].lease \in Nat
      /\ Current.pub \in 0..MaxPublications
  BY DEF RecoveryInv, RecoveryTypeOK, Rev, Current, Deliveries
<1>1. /\ c \in Pubs /\ pub[c].rev = Rev
      /\ pub[c].attempt \in {"claimed", "running"} \cup Verdicts
      /\ pub[c].claim # "absent"
  BY <1>0 DEF RecoveryInv, CaseRows, FenceAgreement, Current, Pubs, PublicationRows,
     NoPublication, Verdicts
<1>2. IsActive(Rev) /\ run \notin Ends /\ \A q \in Revisions : IsActive(q) => q = Rev
  <2>1. IsActive(Rev)
    BY DEF IsActive, Current
  <2> QED
    BY <1>0, <2>1, ActiveIsCurrent
<1>3. /\ \A d \in Pubs : pub[d].claim = "open" => d = c
      /\ \A d \in Pubs : ActiveAttempt(d) => d = c
  <2>1. ASSUME NEW d \in Pubs, pub[d].claim = "open"
        PROVE  d = c
    <3>1. pub[d].rev \in Revisions /\ IsActive(pub[d].rev)
      BY <2>1 DEF RecoveryInv, CaseRows, PublicationRows, ClaimsAreActive
    <3> QED
      BY <1>2, <2>1, <3>1 DEF RecoveryInv, CaseRows, ClaimsAreActive, Current
  <2>2. \A d \in Pubs : ActiveAttempt(d) => pub[d].claim = "open"
    BY DEF RecoveryInv, CaseRows, FenceAgreement
  <2> QED
    BY <2>1, <2>2
<1>4. story' # "running"
  <2>1. CASE story' = "failed"
    BY <2>1
  <2>2. CASE story' = story /\ pub[c].claim # "open"
    BY <1>3, <2>2 DEF RecoveryInv, CaseRows, RunningStoryIsOwned
  <2>3. CASE story' = story /\ Current.class = "evidence_only"
    BY <2>3 DEF RecoveryInv, CaseRows, RunningStoryIsModel
  <2> QED
    BY <2>1, <2>2, <2>3
<1>5. Quiet'
  <2>1. \A q \in Revisions : ~IsActive(q)'
    BY <1>2 DEF IsActive, TerminalStates, Unbound, Bound
  <2>2. \A d \in Pubs : pub'[d].claim # "open" /\ ~ActiveAttempt(d)'
    BY <1>1, <1>3 DEF ActiveAttempt
  <2> QED
    BY <1>4, <2>1, <2>2 DEF Quiet
<1>6. \A q \in Revisions :
        /\ delivery'[q].state = "none" <=> delivery[q].state = "none"
        /\ delivery'[q].class = delivery[q].class /\ delivery'[q].pub = delivery[q].pub
        /\ delivery[q].lease <= delivery'[q].lease
  BY <1>0 DEF Current, TerminalStates, Bound
<1>7. CaseRows'
  <2>1. RevisionsInOrder'
    BY <1>6, OrderIsKept
  <2>2. run' \in Ends => ~CaseActive'
    BY <1>2
  <2>3. \A d \in Pubs :
              /\ pub[d].claim = "absent" => pub'[d] = pub[d]
              /\ pub'[d].claim = "absent" => pub[d].claim = "absent"
              /\ pub'[d].rev = pub[d].rev
              /\ pub'[d].child = pub[d].child
              /\ pub'[d].session = "none" <=> pub[d].session = "none"
    BY <1>1
  <2> QED
    BY <1>5, <1>6, <2>1, <2>2, <2>3, QuietCase
<1>8. WorkersKept(a)
  <2>1. \A q \in Revisions \ {Rev} : delivery'[q] = delivery[q] /\ delivery'[q].lease = delivery[q].lease
    OBVIOUS
  <2>2. delivery'[Rev].state \notin {"none", "leased"} \cup Unbound
    BY DEF TerminalStates, Unbound
  <2>3. \A d \in Pubs :
          /\ pub'[d].rev = pub[d].rev /\ pub'[d].owner = pub[d].owner
          /\ pub[d].attempt \in Verdicts => pub'[d].attempt = pub[d].attempt
          /\ pub[d].claim = "open" => delivery'[pub[d].rev].state # "leased"
          /\ pub[d].attempt = "none" => pub'[d].attempt = "none"
          /\ pub'[d].attempt = "running" => pub[d].attempt = "running"
    BY <1>1, <1>3, <2>2 DEF Verdicts
  <2> QED
    BY <1>6, <2>1, <2>2, <2>3 DEF WorkersKept, Current
<1>9. RunningIsWatched'
  BY <1>1 DEF RecoveryInv, RunningIsWatched
<1> QED
  BY <1>7, <1>8, <1>9

LEMMA DispatchEndsStep ==
    ASSUME RecoveryInv, CaseRows' /\ WorkersKept(Nobody) /\ RunningIsWatched', RecoveryTypeOK'
    PROVE  RowsAndWorkers'
<1>1. \A j \in Instances : WorkerKnows(j)'
  BY KeptRowsKeepWorkers, RecoveryAssumption DEF RecoveryInv
<1> QED
  BY <1>1 DEF RowsAndWorkers

\* A leased evidence dispatch is all there is of the story: its end is quiet.
LEMMA LeasedQuarantineStep ==
    ASSUME RecoveryInv, RecoveryTypeOK', NEW i \in Instances, QuarantineEvidence(i),
           worker[i].pc = "evidence_leased"
    PROVE  RowsAndWorkers'
<1> DEFINE r == worker[i].rev
<1>0. /\ delivery \in [Revisions -> Deliveries] /\ worker \in [Instances -> Workers]
      /\ \A q \in Revisions : delivery[q].lease \in Nat
  BY DEF RecoveryInv, RecoveryTypeOK, Deliveries
<1>1. /\ r \in Revisions /\ Rev = r /\ delivery[r].class = "evidence_only"
      /\ delivery[r].state = "leased" /\ pub' = pub
      /\ run' = run /\ story' = story /\ coordinator' = coordinator
  BY DEF RecoveryInv, WorkerKnows, WorkerRemembers, RestPcs, EvidencePcs, QuarantineEvidence
<1>2. /\ \A q \in Revisions : IsActive(q) => q = r
      /\ run \notin Ends
  BY <1>1, ActiveIsCurrent DEF IsActive, Unbound
<1>3. \A d \in Pubs : pub[d].claim # "open" /\ ~ActiveAttempt(d)
  <2>1. ASSUME NEW d \in Pubs, pub[d].claim = "open" PROVE FALSE
    <3>1. /\ pub[d].rev \in Revisions /\ IsActive(pub[d].rev)
          /\ delivery[pub[d].rev].class = "evidence_only" => delivery[pub[d].rev].state \in Bound
      BY <2>1 DEF RecoveryInv, CaseRows, PublicationRows, ClaimsAreActive
    <3> QED
      BY <1>1, <1>2, <3>1 DEF Bound
  <2> QED
    BY <2>1 DEF RecoveryInv, CaseRows, FenceAgreement
<1>4. /\ delivery'[r].class = delivery[r].class /\ delivery'[r].pub = delivery[r].pub
      /\ delivery'[r].lease = delivery[r].lease /\ delivery'[r].state = "blocked"
      /\ \A q \in Revisions \ {r} : delivery'[q] = delivery[q]
  BY <1>0, <1>1 DEF QuarantineEvidence, DeliveryMoves, Deliveries
<1>5. Rev' = Rev
  BY DEF QuarantineEvidence, Rev, RecoveryInv, RecoveryTypeOK
<1>6. worker'[i] = Idle /\ \A j \in Instances \ {i} : worker'[j] = worker[j]
  BY <1>0 DEF QuarantineEvidence, Forget, Remember
<1> HIDE DEF r
<1>7. Quiet'
  <2>1. \A q \in Revisions : ~IsActive(q)'
    BY <1>2, <1>4 DEF IsActive, Unbound, Bound
  <2>2. story' # "running"
    BY <1>1 DEF RecoveryInv, CaseRows, RunningStoryIsModel, Current
  <2> QED
    BY <1>1, <1>3, <2>1, <2>2 DEF Quiet, ActiveAttempt
<1>8. \A q \in Revisions :
        /\ delivery'[q].state = "none" <=> delivery[q].state = "none"
        /\ delivery'[q].class = delivery[q].class /\ delivery'[q].pub = delivery[q].pub
  BY <1>1, <1>4
<1>9. CaseRows'
  <2>1. RevisionsInOrder'
    BY <1>1, <1>5, <1>8, OrderIsKept
  <2>2. run' \in Ends => ~CaseActive'
    BY <1>1, <1>2
  <2> QED
    BY <1>1, <1>7, <1>8, <2>1, <2>2, QuietCase
<1>10. WorkersKept(i)
  BY <1>0, <1>1, <1>3, <1>4, <1>6 DEF WorkersKept, Unbound
<1>11. RunningIsWatched'
  BY <1>1 DEF RecoveryInv, RunningIsWatched
<1>12. \A j \in Instances \ {i} : WorkerKnows(j)'
  BY <1>10, KeptRowsKeepWorkers DEF RecoveryInv
<1>13. WorkerKnows(i)'
  BY <1>6, RestingWorkerKnows DEF Idle, RestPcs
<1> QED
  BY <1>9, <1>11, <1>12, <1>13 DEF RowsAndWorkers

LEMMA BoundQuarantineStep ==
    ASSUME RecoveryInv, RecoveryTypeOK', NEW i \in Instances, QuarantineEvidence(i),
           worker[i].pc # "evidence_leased"
    PROVE  RowsAndWorkers'
<1> DEFINE c == worker[i].pub
<1>0. /\ pub \in [Pubs -> Publications] /\ delivery \in [Revisions -> Deliveries]
      /\ worker \in [Instances -> Workers]
      /\ worker[i].pc \in {"evidence_reserved", "evidence_running"}
  BY DEF RecoveryInv, RecoveryTypeOK, QuarantineEvidence
<1>1. /\ worker[i].rev \in Revisions /\ c \in Pubs
      /\ delivery[worker[i].rev].class = "evidence_only"
      /\ delivery[worker[i].rev].state \in Bound /\ delivery[worker[i].rev].pub = c
      /\ pub[c].attempt \in {"claimed", "running"}
  BY <1>0 DEF RecoveryInv, WorkerKnows, WorkerRemembers, RestPcs, EvidencePcs,
     QuarantineEvidence, HoldsAttempt, ActiveAttempt
<1>2. worker[i].rev = Rev
  BY <1>1, ActiveIsCurrent DEF IsActive
<1>3. /\ pub'[c].rev = pub[c].rev /\ pub'[c].owner = pub[c].owner /\ pub'[c].claim = "closed"
      /\ pub'[c].attempt = "inconclusive" /\ pub'[c].session = pub[c].session
      /\ pub'[c].child = pub[c].child
      /\ \A d \in Pubs \ {c} : pub'[d] = pub[d]
  <2>1. PubMoves(c, [pub[c] EXCEPT !.claim = "closed", !.attempt = "inconclusive",
                                   !.live = FALSE])
    BY <1>0 DEF QuarantineEvidence
  <2> QED
    BY <1>0, <1>1, <2>1 DEF PubMoves, Publications
<1>4. /\ delivery'[Rev].class = Current.class /\ delivery'[Rev].pub = Current.pub
      /\ delivery'[Rev].lease = Current.lease /\ delivery'[Rev].state = "blocked"
      /\ \A r \in Revisions \ {Rev} : delivery'[r] = delivery[r]
  BY <1>0, <1>1, <1>2 DEF QuarantineEvidence, DeliveryMoves, Deliveries, Current
<1>5. /\ worker'[i].pc \in RestPcs /\ worker'[i].rev = 0 /\ worker'[i].pub = 0
      /\ \A j \in Instances \ {i} : worker'[j] = worker[j]
  BY <1>0 DEF QuarantineEvidence, Forget, Remember, Idle, RestPcs
<1>6. /\ run' = run /\ Rev' = Rev /\ coordinator' = coordinator /\ story' = story
      /\ Current.class = "evidence_only" /\ Current.state \in Bound /\ c = Current.pub
  BY <1>1, <1>2 DEF QuarantineEvidence, Rev, Current, RecoveryInv, RecoveryTypeOK
<1> HIDE DEF c
<1>7. CaseRows' /\ WorkersKept(i) /\ RunningIsWatched'
  BY <1>1, <1>3, <1>4, <1>5, <1>6, DispatchEnds DEF TerminalStates, Verdicts
<1>8. \A j \in Instances \ {i} : WorkerKnows(j)'
  BY <1>7, KeptRowsKeepWorkers DEF RecoveryInv
<1> QED
  BY <1>5, <1>7, <1>8, RestingWorkerKnows DEF RowsAndWorkers

LEMMA BlockExpiredSteps ==
    ASSUME RecoveryInv, RecoveryTypeOK', NEW c \in Pubs,
           BlockExpiredModel(c) \/ BlockExpiredEvidence(c)
    PROVE  RowsAndWorkers'
<1>0. /\ pub \in [Pubs -> Publications] /\ delivery \in [Revisions -> Deliveries]
      /\ Rev \in Revisions /\ pub[c] \in Publications
  BY DEF RecoveryInv, RecoveryTypeOK, Rev
<1>1. /\ Current.state \in Bound /\ Current.pub = c /\ pub[c].attempt \in {"claimed", "running"}
      /\ run' = run /\ Rev' = Rev /\ coordinator' = coordinator /\ worker' = worker
      /\ story' = "failed" \/ (story' = story /\ Current.class = "evidence_only")
  <2>1. CASE BlockExpiredModel(c)
    BY <2>1 DEF BlockExpiredModel, ExpiredModelOwner, ActiveAttempt, Rev, RecoveryInv, RecoveryTypeOK
  <2>2. CASE BlockExpiredEvidence(c)
    BY <2>2 DEF BlockExpiredEvidence, ActiveAttempt, Rev, RecoveryInv, RecoveryTypeOK
  <2> QED
    BY <2>1, <2>2
<1>2. /\ delivery'[Rev].class = Current.class /\ delivery'[Rev].pub = Current.pub
      /\ delivery'[Rev].lease = Current.lease /\ delivery'[Rev].state = "blocked"
      /\ \A r \in Revisions \ {Rev} : delivery'[r] = delivery[r]
  <2>1. CASE BlockExpiredModel(c)
    BY <1>0, <2>1 DEF BlockExpiredModel, DeliveryMoves, Deliveries, Current
  <2>2. CASE BlockExpiredEvidence(c)
    BY <1>0, <2>2 DEF BlockExpiredEvidence, DeliveryMoves, Deliveries, Current
  <2> QED
    BY <2>1, <2>2
<1>3. /\ pub'[c].rev = pub[c].rev /\ pub'[c].owner = pub[c].owner /\ pub'[c].claim = "closed"
      /\ pub'[c].attempt = "inconclusive"
      /\ pub'[c].session = "none" <=> pub[c].session = "none"
      /\ pub'[c].child = pub[c].child
      /\ \A d \in Pubs \ {c} : pub'[d] = pub[d]
  <2>1. CASE BlockExpiredModel(c)
    BY <1>0, <2>1 DEF BlockExpiredModel, ExpiredModelOwner, Unreleased, PubMoves, Publications
  <2>2. CASE BlockExpiredEvidence(c)
    BY <1>0, <2>2 DEF BlockExpiredEvidence, PubMoves, Publications
  <2> QED
    BY <2>1, <2>2
<1>4. CaseRows' /\ WorkersKept(Nobody) /\ RunningIsWatched'
  BY <1>1, <1>2, <1>3, DispatchEnds DEF TerminalStates, Verdicts
<1> QED
  BY <1>4, DispatchEndsStep

LEMMA CompleteSteps ==
    ASSUME RecoveryInv, RecoveryTypeOK',
           \/ CompleteDelivery
           \/ \E target \in {"blocked", "superseded"} : CompleteRefused(target)
    PROVE  RowsAndWorkers'
<1> DEFINE c == Current.pub
<1>0. /\ delivery \in [Revisions -> Deliveries] /\ Rev \in Revisions
      /\ Current.pub \in 0..MaxPublications
  BY DEF RecoveryInv, RecoveryTypeOK, Rev, Current, Deliveries
<1>1. /\ Current.state \in Bound
      /\ run' = run /\ Rev' = Rev /\ coordinator' = coordinator /\ worker' = worker
      /\ story' = story /\ pub' = pub
      /\ pub[c].attempt \in Verdicts
      /\ pub[c].attempt = "refused" \/ pub[c].claim = "closed"
  BY DEF CompleteDelivery, CompleteRefused, Rev, Verdicts
<1>2. c \in Pubs
  BY <1>0, <1>1 DEF RecoveryInv, CaseRows, FenceAgreement, Current, Pubs
<1>3. pub[c].claim # "open"
  BY <1>1, <1>2 DEF RecoveryInv, CaseRows, ClaimsAreActive
<1>4. /\ delivery'[Rev].class = Current.class /\ delivery'[Rev].pub = Current.pub
      /\ delivery'[Rev].lease = Current.lease
      /\ delivery'[Rev].state \in {"succeeded", "failed", "blocked", "superseded"}
      /\ \A r \in Revisions \ {Rev} : delivery'[r] = delivery[r]
  <2>1. CASE CompleteDelivery
    BY <1>0, <2>1 DEF CompleteDelivery, DeliveryMoves, Deliveries, Current
  <2>2. ASSUME NEW target \in {"blocked", "superseded"}, CompleteRefused(target)
        PROVE  <1>4!:
    BY <1>0, <2>2 DEF CompleteRefused, DeliveryMoves, Deliveries, Current
  <2> QED
    BY <2>1, <2>2
<1> HIDE DEF c
<1>5. CaseRows' /\ WorkersKept(Nobody) /\ RunningIsWatched'
  BY <1>1, <1>3, <1>4, DispatchEnds DEF TerminalStates, Verdicts, c
<1> QED
  BY <1>5, DispatchEndsStep

\* The case ends, or its next revision begins, when the dispatch has ended.
LEMMA CaseSteps ==
    ASSUME RecoveryInv, RecoveryTypeOK',
           \/ SettleRefusedCase \/ ResolveCase
           \/ \E status \in {"blocked", "superseded"} : EndCase(status)
           \/ \E decision \in Classes \cup {"blocked"} : AdvanceRevision(decision)
    PROVE  RowsAndWorkers'
<1>0. Rev \in Revisions
  BY DEF RecoveryInv, RecoveryTypeOK, Rev
<1>1. /\ run = "active" /\ run' = run /\ story' = story /\ delivery' = delivery /\ pub' = pub
      /\ worker' = worker /\ Current.state \in {"none"} \cup TerminalStates
  BY DEF SettleRefusedCase, ResolveCase, EndCase, AdvanceRevision, TerminalStates,
         RecoveryInv, CaseRows, RevisionsInOrder
<1>2. Quiet
  BY <1>1, EndedDispatchIsQuiet DEF IsActive, Unbound, Bound, TerminalStates, Current
<1>3. Quiet'
  BY <1>1, <1>2 DEF Quiet, IsActive, ActiveAttempt
<1>4. RevisionsInOrder'
  <2>1. CASE \E decision \in Classes \cup {"blocked"} : AdvanceRevision(decision)
    <3>1. Rev' = Rev + 1 /\ Rev' \in Revisions /\ Current' = delivery[Rev + 1]
      BY <1>1, <2>1 DEF AdvanceRevision, Rev, RecoveryTypeOK, Current
    <3>2. \A r \in Revisions : r > Rev => delivery[r].state = "none"
      BY DEF RecoveryInv, CaseRows, RevisionsInOrder
    <3>3. \A r \in Revisions : r > Rev + 1 => r > Rev
      BY <1>0 DEF Revisions
    <3>4. Rev + 1 > Rev
      BY <1>0 DEF Revisions
    <3> QED
      BY <1>1, <3>1, <3>2, <3>3, <3>4 DEF RecoveryInv, CaseRows, RevisionsInOrder
  <2>2. CASE \/ SettleRefusedCase \/ ResolveCase
             \/ \E status \in {"blocked", "superseded"} : EndCase(status)
    <3>1. Rev' = Rev /\ coordinator' \in {coordinator, "none"}
      BY <2>2 DEF SettleRefusedCase, ResolveCase, EndCase, Rev, RecoveryInv, RecoveryTypeOK
    <3> QED
      BY <1>1, <3>1, OrderIsKept
  <2> QED
    BY <2>1, <2>2
<1>5. CaseRows'
  BY <1>1, <1>3, <1>4, QuietCase DEF Ends
<1>6. WorkersKept(Nobody)
  <2>1. \A q \in Revisions : delivery[q].lease <= delivery[q].lease
    BY DEF RecoveryInv, RecoveryTypeOK, Deliveries
  <2> QED
    BY <1>1, <2>1 DEF WorkersKept
<1>7. RunningIsWatched'
  BY <1>1 DEF RecoveryInv, RunningIsWatched
<1> QED
  BY <1>5, <1>6, <1>7, DispatchEndsStep

LEMMA AuthorizeStep ==
    ASSUME RecoveryInv, RecoveryTypeOK', NEW class \in Classes, AuthorizeRevision(class)
    PROVE  RowsAndWorkers'
<1>0. /\ Rev \in Revisions /\ delivery \in [Revisions -> Deliveries]
      /\ \A q \in Revisions : delivery[q].lease \in Nat
  BY DEF RecoveryInv, RecoveryTypeOK, Rev, Deliveries
<1>1. /\ run = "active" /\ run' = run /\ story' = story /\ pub' = pub /\ worker' = worker
      /\ story = "failed" /\ class \notin Used
      /\ Rev' = Rev /\ CaseActive' /\ coordinator' = "none"
  BY DEF AuthorizeRevision, MayAuthorize, Rev, CaseActive, TerminalCases, RecoveryInv,
         RecoveryTypeOK
<1>2. Current.state = "none"
  <2>1. coordinator # "none"
    BY DEF AuthorizeRevision, Decided, Classes
  <2> QED
    BY <2>1 DEF RecoveryInv, CaseRows, RevisionsInOrder
<1>3. Quiet
  BY <1>2, EndedDispatchIsQuiet DEF IsActive, Unbound, Bound, Current
<1>4. /\ delivery'[Rev].class = class /\ delivery'[Rev].pub = 0
      /\ delivery'[Rev].state = "authorized"
      /\ \A r \in Revisions \ {Rev} : delivery'[r] = delivery[r]
  BY <1>0 DEF AuthorizeRevision, DeliveryMoves, NoDelivery
<1>5. \A c \in Pubs : pub[c].claim # "open" /\ ~ActiveAttempt(c) /\ ~ActiveAttempt(c)'
  BY <1>1, <1>3 DEF Quiet, ActiveAttempt
<1>6. /\ \A r \in Revisions \ {Rev} : ~IsActive(r)'
      /\ \A r \in Revisions : delivery'[r].state \notin Bound
  BY <1>3, <1>4 DEF Quiet, IsActive, Bound
<1>7. CaseRows'
  <2>1. RevisionsInOrder'
    <3>1. \A r \in Revisions : r > Rev => delivery'[r].state = "none"
      BY <1>0, <1>4 DEF RecoveryInv, CaseRows, RevisionsInOrder, Revisions
    <3>2. \A r \in Revisions : delivery[r].state # "none" => delivery[r].class # class
      BY <1>1 DEF Used
    <3>3. \A r, q \in Revisions :
              delivery'[r].state # "none" /\ delivery'[q].state # "none"
              /\ delivery'[r].class = delivery'[q].class => r = q
      BY <1>4, <3>2 DEF RecoveryInv, CaseRows, RevisionsInOrder
    <3> QED
      BY <1>1, <3>1, <3>3 DEF RevisionsInOrder
  <2>2. PublicationRows'
    <3>1. \A c \in Pubs : pub[c].claim # "absent" => pub[c].rev # Rev
      BY <1>2 DEF RecoveryInv, CaseRows, PublicationRows, Current
    <3>2. \A q \in Revisions : delivery'[q].state \in {"none"} \cup Unbound => delivery'[q].pub = 0
      BY <1>4 DEF RecoveryInv, CaseRows, PublicationRows
    <3>3. \A d \in Pubs : IF pub[d].claim = "absent" THEN pub[d] = NoPublication
                          ELSE /\ pub[d].rev \in Revisions
                               /\ delivery'[pub[d].rev].state # "none"
                               /\ pub[d].session = "none" <=>
                                     delivery'[pub[d].rev].class = "evidence_only"
      BY <1>4, <3>1 DEF RecoveryInv, CaseRows, PublicationRows
    <3> QED
      BY <1>1, <3>2, <3>3 DEF RecoveryInv, CaseRows, PublicationRows
  <2>3. ClaimsAreActive' /\ RunningStoryIsModel' /\ RunningStoryIsOwned'
    BY <1>1, <1>5 DEF ClaimsAreActive, RunningStoryIsModel, RunningStoryIsOwned
  <2>4. OneStoryOwner'
    BY <1>1, <1>5, <1>6 DEF OneStoryOwner
  <2>5. FenceAgreement'
    BY <1>1, <1>5, <1>6 DEF FenceAgreement
  <2>6. EndedCaseIsQuiet'
    BY <1>1 DEF EndedCaseIsQuiet, Ends
  <2> QED
    BY <2>1, <2>2, <2>3, <2>4, <2>5, <2>6 DEF CaseRows
<1>8. WorkersKept(Nobody)
  <2>1. \A q \in Revisions \ {Rev} : delivery[q].lease <= delivery'[q].lease
    BY <1>0, <1>4
  <2> QED
    BY <1>1, <1>2, <1>4, <1>5, <2>1 DEF WorkersKept, Current
<1>9. RunningIsWatched'
  BY <1>1 DEF RecoveryInv, RunningIsWatched
<1> QED
  BY <1>7, <1>8, <1>9, DispatchEndsStep

LEMMA TerminalizeStep ==
    ASSUME RecoveryInv, RecoveryTypeOK', NEW target \in {"failed", "cancelled"},
           Terminalize(target)
    PROVE  RowsAndWorkers'
<1>0. /\ \A r \in Revisions : delivery[r] \in Deliveries /\ delivery[r].lease \in Nat
      /\ \A c \in Pubs : pub[c] \in Publications
      /\ story \in {"failed", "running", "done"}
  BY DEF RecoveryInv, RecoveryTypeOK, Deliveries
<1>1. /\ \A r \in Revisions : delivery'[r] = EndedDelivery(delivery[r], target)
      /\ \A c \in Pubs : pub'[c] = EndedPub(pub[c])
      /\ worker' = worker /\ coordinator' = coordinator
      /\ story' = IF story = "running" THEN "failed" ELSE story
  BY DEF Terminalize
<1>2. Rev' = Rev /\ ~CaseActive'
  BY DEF Terminalize, Rev, CaseActive, TerminalCases, RecoveryInv, RecoveryTypeOK
<1>3. \A r \in Revisions :
        /\ delivery'[r].state \notin Unbound \cup Bound
        /\ delivery'[r].state = "none" <=> delivery[r].state = "none"
        /\ delivery'[r].class = delivery[r].class /\ delivery'[r].pub = delivery[r].pub
        /\ delivery'[r].lease = delivery[r].lease
  BY <1>0, <1>1, EndedRows
<1>4. \A c \in Pubs :
        /\ pub'[c].rev = pub[c].rev /\ pub'[c].owner = pub[c].owner
        /\ pub'[c].child = pub[c].child
        /\ pub'[c].claim = IF pub[c].claim = "open" THEN "closed" ELSE pub[c].claim
        /\ pub'[c].attempt = IF pub[c].attempt \in {"claimed", "running"}
                             THEN "inconclusive" ELSE pub[c].attempt
        /\ pub'[c].session = IF pub[c].session = "drained" THEN "released" ELSE pub[c].session
  BY <1>0, <1>1, EndedRows
<1>5. \A c \in Pubs : pub[c].claim = "absent" => pub'[c] = pub[c]
  <2>1. EndedPub(NoPublication) = NoPublication
    BY DEF EndedPub, NoPublication
  <2> QED
    BY <1>1, <2>1 DEF RecoveryInv, CaseRows, PublicationRows
<1>6. Quiet'
  <2>1. \A r \in Revisions : ~IsActive(r)'
    BY <1>3 DEF IsActive
  <2>2. \A c \in Pubs : pub'[c].claim # "open" /\ ~ActiveAttempt(c)'
    BY <1>4 DEF ActiveAttempt
  <2> QED
    BY <1>1, <2>1, <2>2 DEF Quiet
<1>7. RevisionsInOrder'
  BY <1>1, <1>2, <1>3, OrderIsKept
<1>8. CaseRows'
  BY <1>2, <1>3, <1>4, <1>5, <1>6, <1>7, QuietCase
<1>9. WorkersKept(Nobody)
  <2>1. \A q \in Revisions : delivery[q].lease <= delivery'[q].lease
    BY <1>0, <1>3
  <2>2. \A q \in Revisions : delivery'[q].state # "leased"
    BY <1>3 DEF Unbound
  <2>3. \A c \in Pubs : pub[c].claim = "open" => pub[c].rev \in Revisions
    BY DEF RecoveryInv, CaseRows, PublicationRows
  <2> QED
    BY <1>1, <1>3, <1>4, <2>1, <2>2, <2>3 DEF WorkersKept, Verdicts
<1>10. RunningIsWatched'
  BY <1>4 DEF RunningIsWatched
<1> QED
  BY <1>8, <1>9, <1>10, DispatchEndsStep

-----------------------------------------------------------------------------
(* The invariant *)

LEMMA RecoveryInvInit == RecoveryInit => RecoveryInv
<1> SUFFICES ASSUME RecoveryInit PROVE RecoveryInv
  OBVIOUS
<1> USE DEF RecoveryInit
<1>0. 1 \in Revisions /\ Rev = 1 /\ \A r \in Revisions : r \in Nat
  BY RecoveryAssumption DEF Revisions, Rev
<1>1. RecoveryTypeOK
  BY <1>0, EmptyRows DEF RecoveryTypeOK
<1>2. /\ \A r \in Revisions : delivery[r].state = "none" /\ delivery[r].pub = 0
      /\ \A c \in Pubs : pub[c] = NoPublication /\ pub[c].claim = "absent"
                         /\ pub[c].attempt = "none" /\ pub[c].child = "none"
  BY DEF NoDelivery, NoPublication
<1>3. RevisionsInOrder /\ PublicationRows
  BY <1>0, <1>2 DEF RevisionsInOrder, PublicationRows, Current
<1>4. ClaimsAreActive /\ RunningStoryIsModel /\ RunningStoryIsOwned
  BY <1>2 DEF ClaimsAreActive, RunningStoryIsModel, RunningStoryIsOwned
<1>5. OneStoryOwner /\ FenceAgreement
  BY <1>2 DEF OneStoryOwner, FenceAgreement, IsActive, ActiveAttempt, Unbound, Bound
<1>6. EndedCaseIsQuiet
  BY DEF EndedCaseIsQuiet, CaseActive, TerminalCases, Ends
<1>7. \A i \in Instances : WorkerKnows(i)
  BY DEF WorkerKnows, WorkerRemembers, OwnerRemembers, UnreservedClaim, ReservedKeepsLease,
         RestPcs, OwnerPcs, ReservedPcs, Idle
<1>8. RunningIsWatched
  BY <1>2 DEF RunningIsWatched
<1> QED
  BY <1>1, <1>3, <1>4, <1>5, <1>6, <1>7, <1>8 DEF RecoveryInv, CaseRows

LEMMA RecoveryInvStep == RecoveryInv /\ [RecoveryNext]_recoveryVars => RecoveryInv'
<1> SUFFICES ASSUME RecoveryInv, [RecoveryNext]_recoveryVars PROVE RecoveryInv'
  OBVIOUS
<1>0. RecoveryTypeOK'
  BY StepTypes DEF RecoveryInv, WorkerKnows
<1> SUFFICES RowsAndWorkers'
  BY <1>0 DEF RecoveryInv, RowsAndWorkers
<1>1. ASSUME NEW i \in Instances, InstanceStep(i) PROVE RowsAndWorkers'
  BY <1>0, <1>1, WorkerSteps, AcquireStep, PublishStep, ReserveAttemptStep, MarkRunningStep
  DEF InstanceStep
<1>2. ASSUME NEW i \in Instances, EvidenceStep(i) PROVE RowsAndWorkers'
  BY <1>0, <1>2, WorkerSteps, AcquireEvidenceStep, ReserveEvidenceStep, RunEvidenceStep,
     JudgeEvidenceStep, CloseEvidenceClaimStep, LeasedQuarantineStep, BoundQuarantineStep
  DEF EvidenceStep
<1>3. ASSUME NEW c \in Pubs, RuntimeStep(c) PROVE RowsAndWorkers'
  BY <1>0, <1>3, RuntimeSteps, FinishAttemptStep DEF RuntimeStep
<1>4. CASE ReconcilerStep
  BY <1>0, <1>4, ResetExpiredLeaseStep, RollbackStep, RuntimeSteps, BlockExpiredSteps
  DEF ReconcilerStep
<1>5. CASE CoordinatorStep
  BY <1>0, <1>5, CompleteSteps, CaseSteps, AuthorizeStep, OuterSteps DEF CoordinatorStep
<1>6. CASE RunStep
  BY <1>0, <1>6, OuterSteps, TerminalizeStep DEF RunStep
<1>7. CASE \E r \in Revisions : ExpireDelivery(r)
  BY <1>0, <1>7, OuterSteps
<1>8. CASE UNCHANGED recoveryVars
  BY <1>0, <1>8, OuterSteps
<1> QED
  BY <1>1, <1>2, <1>3, <1>4, <1>5, <1>6, <1>7, <1>8 DEF RecoveryNext

\* RecoveryInv is an inductive invariant of the recovery of a story.
THEOREM RecoveryInvariant == RecoverySpec => []RecoveryInv
<1>1. RecoveryInit => RecoveryInv
  BY RecoveryInvInit
<1>2. RecoveryInv /\ [RecoveryNext]_recoveryVars => RecoveryInv'
  BY RecoveryInvStep
<1> QED
  BY <1>1, <1>2, PTL DEF RecoverySpec

\* Every row and every memory has its type.
THEOREM RecoveryTypesHold == RecoverySpec => []RecoveryTypeOK
<1>1. RecoveryInv => RecoveryTypeOK
  BY DEF RecoveryInv
<1> QED
  BY <1>1, RecoveryInvariant, PTL

\* The story never has two owners, however many instances work for it: one
\* active delivery, of the current revision, one open claim and one attempt.
THEOREM StoryHasOneOwner == RecoverySpec => []OneStoryOwner
<1>1. RecoveryInv => OneStoryOwner
  BY DEF RecoveryInv, CaseRows
<1> QED
  BY <1>1, RecoveryInvariant, PTL

\* A bound delivery and its attempt always name each other.
THEOREM FencesAgree == RecoverySpec => []FenceAgreement
<1>1. RecoveryInv => FenceAgreement
  BY DEF RecoveryInv, CaseRows
<1> QED
  BY <1>1, RecoveryInvariant, PTL

\* A story in repair has an open claim of the active delivery.
THEOREM RepairIsOwned == RecoverySpec => []RunningStoryIsOwned
<1>1. RecoveryInv => RunningStoryIsOwned
  BY DEF RecoveryInv, CaseRows
<1> QED
  BY <1>1, RecoveryInvariant, PTL

\* An ended case, and an ended run, leave nobody at work.
THEOREM EndedIsQuiet == RecoverySpec => []EndedCaseIsQuiet
<1>1. RecoveryInv => EndedCaseIsQuiet
  BY DEF RecoveryInv, CaseRows
<1> QED
  BY <1>1, RecoveryInvariant, PTL

-----------------------------------------------------------------------------
(* What no step does *)

\* An evidence attempt has no runtime and no child.
LEMMA EvidenceHasNoChild ==
    ASSUME RecoveryInv, NEW c \in Pubs, pub[c].rev \in Revisions,
           delivery[pub[c].rev].class = "evidence_only"
    PROVE  pub[c].session = "none" /\ pub[c].child = "none"
<1>1. pub[c].claim # "absent"
  BY DEF RecoveryInv, CaseRows, PublicationRows, NoPublication, Revisions
<1> QED
  BY <1>1 DEF RecoveryInv, CaseRows, PublicationRows

\* What a worker that is not at rest may be doing with its publication.
LEMMA WorkerAndItsPublication ==
    ASSUME RecoveryInv, NEW i \in Instances, worker[i].pub # 0
    PROVE  /\ worker[i].pc \in OwnerPcs \cup {"evidence_judged"}
           /\ worker[i].rev \in Revisions /\ worker[i].rev # 0
           /\ worker[i].pub \in Pubs /\ pub[worker[i].pub].rev = worker[i].rev
           /\ worker[i].pc \in OwnerPcs => pub[worker[i].pub].owner = i
           /\ worker[i].pc = "evidence_judged" => pub[worker[i].pub].attempt \in Verdicts
           /\ delivery[worker[i].rev].class = "evidence_only" <=> worker[i].pc \in EvidencePcs
           /\ worker[i].pc = "published" => pub[worker[i].pub].attempt = "none"
           /\ worker[i].pc \in ReservedPcs => delivery[worker[i].rev].lease = worker[i].lease
<1>1. WorkerKnows(i) /\ worker[i].pc \notin RestPcs \cup {"leased", "evidence_leased"}
  BY DEF RecoveryInv, WorkerKnows, WorkerRemembers
<1>2. worker[i].pc \in OwnerPcs \cup {"evidence_judged"}
  BY <1>1 DEF RecoveryInv, RecoveryTypeOK, Workers, OwnerPcs, ReservedPcs, RestPcs
<1> QED
  BY <1>1, <1>2 DEF WorkerKnows, WorkerRemembers, OwnerRemembers, UnreservedClaim,
     ReservedKeepsLease, Revisions

\* The steps that take an attempt from its owner, and the ones in which the owner
\* moves its own.
Takes ==
    \/ \E i \in Instances : QuarantineEvidence(i)
    \/ \E d \in Pubs : BlockExpiredModel(d) \/ BlockExpiredEvidence(d)
    \/ \E target \in {"failed", "cancelled"} : Terminalize(target)

OwnerMoves(c) ==
    \/ \E i \in Instances : \/ ReserveAttempt(i) \/ MarkRunning(i) \/ RunEvidence(i)
                            \/ \E verdict \in {"verified", "failed"} : JudgeEvidence(i, verdict)
    \/ \E verdict \in Verdicts : FinishAttempt(c, verdict)

\* All that happens to the attempt and the child of a publication.
LEMMA AttemptsAndChildren ==
    ASSUME RecoveryInv, [RecoveryNext]_recoveryVars, NEW c \in Pubs, pub[c].rev # 0
    PROVE  \/ Takes /\ pub'[c].child = pub[c].child
              /\ pub'[c].attempt \in {pub[c].attempt, "inconclusive"}
           \/ OwnerMoves(c) /\ pub'[c].child = pub[c].child
              /\ (pub'[c].attempt = "inconclusive" => pub[c].attempt = "inconclusive")
           \/ (\E i \in Instances : Spawn(i)) /\ pub'[c].attempt = pub[c].attempt
           \/ pub'[c].attempt = pub[c].attempt /\ pub'[c].child \in {pub[c].child, "gone"}
<1>0. /\ pub \in [Pubs -> Publications] /\ pub[c] \in Publications
      /\ HasFreshPub => FreshPub \in Pubs /\ pub[FreshPub].rev = 0
  <2>1. ASSUME HasFreshPub PROVE FreshPub \in Pubs /\ pub[FreshPub].rev = 0
    BY <2>1, FreshPublication DEF RecoveryInv, CaseRows, PublicationRows, NoPublication
  <2> QED
    BY <2>1 DEF RecoveryInv, RecoveryTypeOK
<1> DEFINE Kept == pub'[c].attempt = pub[c].attempt /\ pub'[c].child \in {pub[c].child, "gone"}
           Taken == pub'[c].child = pub[c].child
                    /\ pub'[c].attempt \in {pub[c].attempt, "inconclusive"}
           Moved == pub'[c].child = pub[c].child
                    /\ (pub'[c].attempt = "inconclusive" => pub[c].attempt = "inconclusive")
<1> USE DEF PubMoves, Publications
<1>1. ASSUME NEW i \in Instances, InstanceStep(i)
      PROVE  Kept \/ (OwnerMoves(c) /\ Moved) \/ (Spawn(i) /\ pub'[c].attempt = pub[c].attempt)
  <2>1. Discover(i) => Kept
    BY <1>0 DEF Discover
  <2>2. Acquire(i) => Kept
    BY <1>0 DEF Acquire
  <2>3. LoseRoute(i) => Kept
    BY <1>0 DEF LoseRoute
  <2>4. Publish(i) => Kept
    BY <1>0 DEF Publish, NoPublication
  <2>5. BindAttempt(i) => Kept
    BY <1>0 DEF BindAttempt
  <2>6. FailClaiming(i) => Kept
    BY <1>0 DEF FailClaiming
  <2>7. MarkStarting(i) => Kept
    BY <1>0 DEF MarkStarting
  <2>8. FailStarting(i) => Kept
    BY <1>0 DEF FailStarting
  <2>9. FailRunning(i) => Kept
    BY <1>0 DEF FailRunning
  <2>10. Relinquish(i) => Kept
    BY <1>0 DEF Relinquish
  <2>11. LetRun(i) => Kept
    BY <1>0 DEF LetRun
  <2>12. Crash(i) => Kept
    BY <1>0 DEF Crash
  <2>13. ReserveAttempt(i) \/ MarkRunning(i) => OwnerMoves(c)
    BY DEF OwnerMoves
  <2>14. ReserveAttempt(i) => Moved
    BY <1>0 DEF ReserveAttempt
  <2>15. MarkRunning(i) => Moved
    BY <1>0 DEF MarkRunning
  <2>16. Spawn(i) => pub'[c].attempt = pub[c].attempt
    BY <1>0 DEF Spawn
  <2> HIDE DEF Kept, Moved
  <2> QED
    BY <1>1, <2>1, <2>2, <2>3, <2>4, <2>5, <2>6, <2>7, <2>8, <2>9, <2>10, <2>11, <2>12,
       <2>13, <2>14, <2>15, <2>16 DEF InstanceStep
<1>2. ASSUME NEW i \in Instances, EvidenceStep(i)
      PROVE  Kept \/ (OwnerMoves(c) /\ Moved) \/ (Takes /\ Taken)
  <2>1. AcquireEvidence(i) => Kept
    BY <1>0 DEF AcquireEvidence
  <2>2. ReserveEvidence(i) => Kept
    BY <1>0 DEF ReserveEvidence, NoPublication
  <2>3. CloseEvidenceClaim(i) => Kept
    BY <1>0 DEF CloseEvidenceClaim
  <2>4. LeaveReplayable(i) \/ LoseEvidence(i) => Kept
    BY <1>0 DEF LeaveReplayable, LoseEvidence
  <2>5. RunEvidence(i) => Moved
    BY <1>0 DEF RunEvidence
  <2>6. ASSUME NEW verdict \in {"verified", "failed"}, JudgeEvidence(i, verdict)
        PROVE  Moved /\ OwnerMoves(c)
    BY <1>0, <2>6 DEF JudgeEvidence, OwnerMoves
  <2>7. ASSUME QuarantineEvidence(i) PROVE Taken
    <3>1. \/ UNCHANGED pub
          \/ PubMoves(worker[i].pub,
                     [pub[worker[i].pub] EXCEPT !.claim = "closed",
                         !.attempt = "inconclusive", !.live = FALSE])
      BY <2>7 DEF QuarantineEvidence
    <3>2. CASE UNCHANGED pub
      BY <3>2
    <3>3. ASSUME PubMoves(worker[i].pub,
                     [pub[worker[i].pub] EXCEPT !.claim = "closed",
                         !.attempt = "inconclusive", !.live = FALSE])
          PROVE  Taken
      BY <1>0, <3>3
    <3> QED
      BY <3>1, <3>2, <3>3
  <2>8. (RunEvidence(i) => OwnerMoves(c)) /\ (QuarantineEvidence(i) => Takes)
    BY DEF OwnerMoves, Takes
  <2> HIDE DEF Kept, Moved, Taken
  <2> QED
    BY <1>2, <2>1, <2>2, <2>3, <2>4, <2>5, <2>6, <2>7, <2>8 DEF EvidenceStep
<1>3. ASSUME NEW d \in Pubs, RuntimeStep(d)
      PROVE  Kept \/ (OwnerMoves(c) /\ Moved)
  <2>1. ChildExit(d) => Kept
    BY <1>0 DEF ChildExit
  <2>2. ExpireAttempt(d) => Kept
    BY <1>0 DEF ExpireAttempt
  <2>3. RequestCompletion(d) => Kept
    BY <1>0 DEF RequestCompletion
  <2>4. RequestDrain(d) => Kept
    BY <1>0 DEF RequestDrain
  <2>5. MarkDrained(d) => Kept
    BY <1>0 DEF MarkDrained
  <2>6. QuarantineSession(d) => Kept
    BY <1>0 DEF QuarantineSession
  <2>7. RecoverQuarantined(d) => Kept
    BY <1>0 DEF RecoverQuarantined
  <2>8. ReleaseSession(d) => Kept
    BY <1>0 DEF ReleaseSession
  <2>9. AcceptCompletion(d) => Kept
    BY <1>0 DEF AcceptCompletion
  <2>10. ASSUME NEW verdict \in Verdicts, FinishAttempt(d, verdict)
         PROVE  Kept \/ (OwnerMoves(c) /\ Moved)
    <3>1. CASE c = d
      BY <1>0, <2>10, <3>1 DEF FinishAttempt, OwnerMoves, Verdicts
    <3>2. CASE c # d
      BY <1>0, <2>10, <3>2 DEF FinishAttempt
    <3> QED
      BY <3>1, <3>2
  <2> HIDE DEF Kept, Moved
  <2> QED
    BY <1>3, <2>1, <2>2, <2>3, <2>4, <2>5, <2>6, <2>7, <2>8, <2>9, <2>10 DEF RuntimeStep
<1>4. ASSUME ReconcilerStep PROVE Kept \/ (Takes /\ Taken)
  <2>1. ResetExpiredLease => Kept
    BY DEF ResetExpiredLease
  <2>2. ASSUME NEW d \in Pubs, RollbackPublication(d) PROVE Kept
    BY <1>0, <2>2 DEF RollbackPublication
  <2>3. ASSUME NEW d \in Pubs, RequestExpiredDrain(d) PROVE Kept
    BY <1>0, <2>3 DEF RequestExpiredDrain
  <2>4. ASSUME NEW d \in Pubs, BlockExpiredModel(d) PROVE Taken
    BY <1>0, <2>4 DEF BlockExpiredModel
  <2>5. ASSUME NEW d \in Pubs, BlockExpiredEvidence(d) PROVE Taken
    BY <1>0, <2>5 DEF BlockExpiredEvidence
  <2>6. \A d \in Pubs : BlockExpiredModel(d) \/ BlockExpiredEvidence(d) => Takes
    BY DEF Takes
  <2> HIDE DEF Kept, Taken
  <2> QED
    BY <1>4, <2>1, <2>2, <2>3, <2>4, <2>5, <2>6 DEF ReconcilerStep
<1>5. ASSUME RunStep PROVE Kept \/ (Takes /\ Taken)
  <2>1. ASSUME NEW target \in {"failed", "cancelled"}, Terminalize(target) PROVE Takes /\ Taken
    <3>1. pub'[c] = EndedPub(pub[c])
      BY <2>1 DEF Terminalize
    <3> QED
      BY <1>0, <2>1, <3>1, EndedRows DEF Takes
  <2>2. CompleteRun => Kept
    BY <1>0 DEF CompleteRun
  <2> QED
    BY <1>5, <2>1, <2>2 DEF RunStep, RequestTermination, FailUnrecovered
<1>6. CoordinatorStep => Kept
  BY DEF CoordinatorStep, CompleteDelivery, ResolveCase, LoseDecision, AuthorizeRevision,
     CompleteRefused, EndCase, SettleRefusedCase, AdvanceRevision
<1>7. (\E r \in Revisions : ExpireDelivery(r)) \/ UNCHANGED recoveryVars => Kept
  BY DEF ExpireDelivery, recoveryVars
<1> HIDE DEF Kept, Moved, Taken
<1>8. \/ Takes /\ Taken
      \/ OwnerMoves(c) /\ Moved
      \/ (\E i \in Instances : Spawn(i)) /\ pub'[c].attempt = pub[c].attempt
      \/ Kept
  BY <1>1, <1>2, <1>3, <1>4, <1>5, <1>6, <1>7 DEF RecoveryNext
<1> QED
  BY <1>8 DEF Kept, Moved, Taken

\* No attempt is taken from a child that works: by then it is gone, or its
\* runtime is in doubt.
THEOREM RunningEndsProven == RecoverySpec => RunningAttemptEndsProven
<1> DEFINE Proven ==
        \A c \in Pubs :
          pub[c].attempt = "running" /\ pub'[c].attempt = "inconclusive" =>
              pub'[c].child # "alive" \/ pub'[c].session = "quarantined"
<1>1. RecoveryInv /\ [RecoveryNext]_recoveryVars => Proven
  <2> SUFFICES ASSUME RecoveryInv, [RecoveryNext]_recoveryVars, NEW c \in Pubs,
                      pub[c].attempt = "running", pub'[c].attempt = "inconclusive"
               PROVE  pub'[c].child # "alive" \/ pub'[c].session = "quarantined"
    OBVIOUS
  <2>0. /\ pub \in [Pubs -> Publications] /\ pub[c] \in Publications
        /\ pub[c].child = "alive" => pub[c].session \in {"running", "drain_requested", "quarantined"}
    BY DEF RecoveryInv, RecoveryTypeOK, RunningIsWatched
  <2>1. ASSUME NEW i \in Instances, QuarantineEvidence(i)
        PROVE  pub'[c].child # "alive"
    <3>1. /\ worker[i].pc \in {"evidence_reserved", "evidence_running"}
          /\ PubMoves(worker[i].pub,
                      [pub[worker[i].pub] EXCEPT !.claim = "closed",
                          !.attempt = "inconclusive", !.live = FALSE])
      BY <2>1 DEF QuarantineEvidence
    <3>2. /\ worker[i].pub \in Pubs /\ pub[worker[i].pub].rev = worker[i].rev
          /\ worker[i].rev \in Revisions /\ delivery[worker[i].rev].class = "evidence_only"
      BY <3>1 DEF RecoveryInv, WorkerKnows, WorkerRemembers, RestPcs, EvidencePcs
    <3>3. c = worker[i].pub /\ pub'[c].child = pub[c].child
      BY <2>0, <3>1, <3>2 DEF PubMoves, Publications
    <3> QED
      BY <3>2, <3>3, EvidenceHasNoChild
  <2>2. ASSUME NEW d \in Pubs, BlockExpiredModel(d)
        PROVE  pub'[c].child # "alive" \/ pub'[c].session = "quarantined"
    <3>1. c = d
      BY <2>0, <2>2 DEF BlockExpiredModel, PubMoves
    <3>2. /\ pub'[c].child = pub[c].child
          /\ pub[c].session = "quarantined" => pub'[c].session = "quarantined"
          /\ pub[c].session \in {"reserved", "drained", "quarantined"}
      BY <2>0, <2>2, <3>1 DEF BlockExpiredModel, PubMoves, Publications
    <3> QED
      BY <2>0, <3>2
  <2>3. ASSUME NEW d \in Pubs, BlockExpiredEvidence(d)
        PROVE  pub'[c].child # "alive"
    <3>1. /\ c = d /\ pub'[c].child = pub[c].child
      BY <2>0, <2>3 DEF BlockExpiredEvidence, PubMoves, Publications
    <3>2. Rev \in Revisions /\ pub[c].rev = Rev /\ delivery[Rev].class = "evidence_only"
      BY <2>3, <3>1 DEF BlockExpiredEvidence, RecoveryInv, RecoveryTypeOK, CaseRows,
         FenceAgreement, Current, Rev
    <3> QED
      BY <3>1, <3>2, EvidenceHasNoChild
  <2>4. ASSUME NEW target \in {"failed", "cancelled"}, Terminalize(target)
        PROVE  pub'[c].child # "alive"
    <3>1. pub'[c] = EndedPub(pub[c]) /\ pub[c].session \in {"none", "drained", "released"}
      BY <2>4 DEF Terminalize
    <3>2. pub'[c].child = pub[c].child
      BY <2>0, <3>1, EndedRows
    <3> QED
      BY <2>0, <3>1, <3>2
  <2>5. pub[c].rev # 0
    BY DEF RecoveryInv, CaseRows, PublicationRows, NoPublication, Revisions
  <2>6. Takes
    BY <2>5, AttemptsAndChildren
  <2> QED
    BY <2>1, <2>2, <2>3, <2>4, <2>6 DEF Takes
<1> QED
  BY <1>1, RecoveryInvariant, PTL DEF RecoverySpec, RunningAttemptEndsProven

\* Two workers do not act on one publication, unless one of them has only the
\* verdict of an evidence attempt to carry on.
LEMMA OnePublicationOneWorker ==
    ASSUME RecoveryInv, NEW i \in Instances, NEW j \in Instances,
           worker[i].pub # 0, worker[j].pc \in OwnerPcs, worker[i].pub = worker[j].pub
    PROVE  i = j \/ worker[i].pc = "evidence_judged"
<1>1. worker[j].pub # 0
  OBVIOUS
<1> QED
  BY <1>1, WorkerAndItsPublication

\* A worker whose lease has moved on starts nothing.
THEOREM StaleStartsNothing == RecoverySpec => StaleLeaseStartsNothing
<1> DEFINE Powerless ==
        \A i \in Instances :
          worker[i].rev # 0 /\ worker[i].pub # 0
          /\ delivery[worker[i].rev].lease # worker[i].lease =>
              /\ pub'[worker[i].pub].attempt = pub[worker[i].pub].attempt
                 \/ pub'[worker[i].pub].attempt = "inconclusive"
              /\ ~(pub[worker[i].pub].child = "none" /\ pub'[worker[i].pub].child = "alive")
<1>1. RecoveryInv /\ [RecoveryNext]_recoveryVars => Powerless
  <2> SUFFICES ASSUME RecoveryInv, [RecoveryNext]_recoveryVars, NEW i \in Instances,
                      worker[i].pub # 0, delivery[worker[i].rev].lease # worker[i].lease
               PROVE  /\ pub'[worker[i].pub].attempt = pub[worker[i].pub].attempt
                         \/ pub'[worker[i].pub].attempt = "inconclusive"
                      /\ ~(pub[worker[i].pub].child = "none" /\ pub'[worker[i].pub].child = "alive")
    OBVIOUS
  <2> DEFINE c == worker[i].pub
  <2>0. /\ c \in Pubs /\ pub[c].rev # 0 /\ pub \in [Pubs -> Publications]
        /\ pub[c].rev = worker[i].rev /\ worker[i].rev \in Revisions
        /\ worker[i].pc \in OwnerPcs \cup {"evidence_judged"}
        /\ worker[i].pc \notin ReservedPcs
        /\ worker[i].pc = "evidence_judged" => pub[c].attempt \in Verdicts
        /\ worker[i].pc = "published" => pub[c].attempt = "none"
        /\ delivery[worker[i].rev].class = "evidence_only" <=> worker[i].pc \in EvidencePcs
    BY WorkerAndItsPublication DEF RecoveryInv, RecoveryTypeOK
  <2>1. ASSUME NEW j \in Instances,
               \/ ReserveAttempt(j) \/ MarkRunning(j) \/ RunEvidence(j)
               \/ \E verdict \in {"verified", "failed"} : JudgeEvidence(j, verdict)
        PROVE  pub'[c].attempt = pub[c].attempt
    <3>1. /\ worker[j].pc \in OwnerPcs
          /\ pub[worker[j].pub].attempt \notin Verdicts
          /\ delivery[worker[j].rev].lease = worker[j].lease
      <4>1. CASE ReserveAttempt(j)
        BY <4>1 DEF ReserveAttempt, MayReserve, HoldsLease, OwnerPcs, Verdicts, RecoveryInv,
           WorkerKnows, UnreservedClaim
      <4>2. CASE MarkRunning(j)
        BY <4>2 DEF MarkRunning, MayRun, HoldsAttempt, ActiveAttempt, HoldsLease, OwnerPcs,
           ReservedPcs, Verdicts
      <4>3. CASE RunEvidence(j)
        BY <4>3 DEF RunEvidence, HoldsAttempt, ActiveAttempt, HoldsLease, OwnerPcs, Verdicts
      <4>4. ASSUME NEW verdict \in {"verified", "failed"}, JudgeEvidence(j, verdict)
            PROVE  <3>1!:
        BY <4>4 DEF JudgeEvidence, HoldsAttempt, ActiveAttempt, HoldsLease, OwnerPcs, Verdicts
      <4> QED
        BY <2>1, <4>1, <4>2, <4>3, <4>4
    <3>2. c # worker[j].pub
      BY <2>0, <3>1, OnePublicationOneWorker
    <3> HIDE DEF c
    <3>3. pub'[c] = pub[c]
      BY <2>0, <2>1, <3>2 DEF ReserveAttempt, MarkRunning, RunEvidence, JudgeEvidence, PubMoves
    <3> QED
      BY <3>3
  <2>2. ASSUME NEW verdict \in Verdicts, FinishAttempt(c, verdict)
        PROVE  FALSE
    <3>1. ActiveAttempt(c) /\ pub[c].session = "drained"
      BY <2>2 DEF FinishAttempt, MayFinish
    <3>2. worker[i].pc \in {"evidence_reserved", "evidence_running"}
      BY <2>0, <3>1 DEF ActiveAttempt, OwnerPcs, ReservedPcs, Verdicts
    <3>3. delivery[pub[c].rev].class = "evidence_only"
      BY <2>0, <3>2 DEF EvidencePcs
    <3> QED
      BY <2>0, <3>1, <3>3, EvidenceHasNoChild
  <2>3. ASSUME NEW j \in Instances, Spawn(j), pub[c].child = "none", pub'[c].child = "alive"
        PROVE  FALSE
    <3>1. worker[j].pub = c /\ worker[j].pc = "starting"
      BY <2>0, <2>3 DEF Spawn, PubMoves
    <3>2. worker[j].pc \in OwnerPcs /\ worker[j].pc \in ReservedPcs /\ worker[j].pub # 0
      BY <2>0, <3>1 DEF OwnerPcs, ReservedPcs, Pubs
    <3>3. i = j \/ worker[i].pc = "evidence_judged"
      BY <3>1, <3>2, OnePublicationOneWorker
    <3>4. /\ pub[c].rev = worker[j].rev
          /\ delivery[worker[j].rev].class = "evidence_only" <=> worker[j].pc \in EvidencePcs
      BY <3>1, <3>2, WorkerAndItsPublication
    <3> QED
      BY <2>0, <3>1, <3>2, <3>3, <3>4 DEF EvidencePcs
  <2> HIDE DEF c
  <2>4. pub'[c].attempt = pub[c].attempt \/ pub'[c].attempt = "inconclusive"
    BY <2>0, <2>1, <2>2, AttemptsAndChildren DEF OwnerMoves
  <2>5. ~(pub[c].child = "none" /\ pub'[c].child = "alive")
    BY <2>0, <2>3, AttemptsAndChildren
  <2> QED
    BY <2>4, <2>5 DEF c
<1> QED
  BY <1>1, RecoveryInvariant, PTL DEF RecoverySpec, StaleLeaseStartsNothing

-----------------------------------------------------------------------------
(* The refinement of the dispatch promise *)

\* How far a dispatch in a state has come, and the dispatch of a class in given
\* rows: what ClassDispatch says of the rows of a state.
Phase(s) == IF s \in Unbound THEN "waiting"
            ELSE IF s \in Bound THEN "executing"
            ELSE IF s = "none" THEN "none" ELSE "settled"

DispatchIn(d, k) ==
    LET revs == {r \in Revisions : d[r].class = k /\ d[r].state # "none"}
    IN  IF revs = {} THEN "none"
        ELSE IF \E r \in revs : d[r].state \in Unbound THEN "waiting"
        ELSE IF \E r \in revs : d[r].state \in Bound THEN "executing"
        ELSE "settled"

OneRowPerClass(d) ==
    \A r, q \in Revisions :
        d[r].state # "none" /\ d[q].state # "none" /\ d[r].class = d[q].class => r = q

LEMMA ClassDispatchIn ==
    /\ \A k : ClassDispatch(k) = DispatchIn(delivery, k)
    /\ \A k : ClassDispatch(k)' = DispatchIn(delivery', k)
    /\ RecoveryInv => OneRowPerClass(delivery)
    /\ RecoveryInv' => OneRowPerClass(delivery')
<1>1. \A k : ClassDispatch(k) = DispatchIn(delivery, k)
  BY DEF ClassDispatch, DispatchIn
<1>2. \A k : ClassDispatch(k)' = DispatchIn(delivery', k)
  BY DEF ClassDispatch, DispatchIn
<1>3. (RecoveryInv => OneRowPerClass(delivery)) /\ (RecoveryInv' => OneRowPerClass(delivery'))
  BY DEF RecoveryInv, CaseRows, RevisionsInOrder, OneRowPerClass
<1> QED
  BY <1>1, <1>2, <1>3

\* A dispatched class has come as far as its one row.
LEMMA RowDispatch ==
    ASSUME NEW d, OneRowPerClass(d), NEW r \in Revisions, d[r].state # "none"
    PROVE  DispatchIn(d, d[r].class) = Phase(d[r].state)
<1> DEFINE revs == {q \in Revisions : d[q].class = d[r].class /\ d[q].state # "none"}
<1>1. revs = {r}
  BY DEF OneRowPerClass
<1> QED
  BY <1>1 DEF DispatchIn, Phase

LEMMA SamePhases ==
    ASSUME NEW d, NEW e, NEW k,
           \A r \in Revisions : e[r].class = d[r].class /\ Phase(e[r].state) = Phase(d[r].state)
    PROVE  DispatchIn(e, k) = DispatchIn(d, k)
<1>1. \A r \in Revisions :
        /\ e[r].state = "none" <=> d[r].state = "none"
        /\ e[r].state \in Unbound <=> d[r].state \in Unbound
        /\ e[r].state \in Bound <=> d[r].state \in Bound
  BY DEF Phase, Unbound, Bound
<1> DEFINE R(f) == {r \in Revisions : f[r].class = k /\ f[r].state # "none"}
<1>2. R(e) = R(d)
  BY <1>1
<1>3. /\ (\E r \in R(e) : e[r].state \in Unbound) <=> \E r \in R(d) : d[r].state \in Unbound
      /\ (\E r \in R(e) : e[r].state \in Bound) <=> \E r \in R(d) : d[r].state \in Bound
  BY <1>1
<1> QED
  BY <1>2, <1>3 DEF DispatchIn

\* When one row moves, the class of that row does.
LEMMA OneRowMoves ==
    ASSUME NEW d, NEW e, NEW r \in Revisions, OneRowPerClass(e), e[r].state # "none",
           d[r].state = "none" \/ d[r].class = e[r].class,
           \A q \in Revisions \ {r} :
              e[q].class = d[q].class /\ Phase(e[q].state) = Phase(d[q].state)
    PROVE  /\ DispatchIn(e, e[r].class) = Phase(e[r].state)
           /\ \A k : k # e[r].class => DispatchIn(e, k) = DispatchIn(d, k)
<1>1. DispatchIn(e, e[r].class) = Phase(e[r].state)
  BY RowDispatch
<1>2. ASSUME NEW k, k # e[r].class
      PROVE  DispatchIn(e, k) = DispatchIn(d, k)
  <2>1. \A q \in Revisions \ {r} :
          /\ e[q].state = "none" <=> d[q].state = "none"
          /\ e[q].state \in Unbound <=> d[q].state \in Unbound
          /\ e[q].state \in Bound <=> d[q].state \in Bound
    BY DEF Phase, Unbound, Bound
  <2> DEFINE R(f) == {q \in Revisions : f[q].class = k /\ f[q].state # "none"}
  <2>2. R(e) = R(d) /\ r \notin R(d) /\ r \notin R(e)
    BY <1>2, <2>1
  <2>3. /\ (\E q \in R(e) : e[q].state \in Unbound) <=> \E q \in R(d) : d[q].state \in Unbound
        /\ (\E q \in R(e) : e[q].state \in Bound) <=> \E q \in R(d) : d[q].state \in Bound
    BY <2>1, <2>2
  <2> QED
    BY <2>2, <2>3 DEF DispatchIn
<1> QED
  BY <1>1, <1>2

\* What is outstanding is an active delivery.
LEMMA OutstandingIsActive ==
    ASSUME NEW k \in Classes, Dispatches!Outstanding(k)
    PROVE  \E r \in Revisions : IsActive(r)
<1>1. ClassDispatch(k) \in {"waiting", "executing"}
  BY DEF Dispatches!Outstanding
<1> QED
  BY <1>1 DEF ClassDispatch, IsActive

RowsKeepPhase ==
    \A r \in Revisions : /\ delivery'[r].class = delivery[r].class
                         /\ Phase(delivery'[r].state) = Phase(delivery[r].state)

\* A step that takes no dispatch further is none of the promise's ...
LEMMA PhasesKept ==
    ASSUME RowsKeepPhase, CaseActive' = CaseActive
    PROVE  UNCHANGED Dispatches!dispatchVars
<1>1. \A k \in Classes : ClassDispatch(k)' = ClassDispatch(k)
  BY SamePhases, ClassDispatchIn DEF RowsKeepPhase
<1> QED
  BY <1>1 DEF Dispatches!dispatchVars

\* ... or ends the recovery, when nothing is outstanding ...
LEMMA CaseCloses ==
    ASSUME RecoveryInv, ~IsActive(Rev), RowsKeepPhase, ~CaseActive'
    PROVE  Dispatches!Close
<1>1. \A k \in Classes : ClassDispatch(k)' = ClassDispatch(k)
  BY SamePhases, ClassDispatchIn DEF RowsKeepPhase
<1>2. \A k \in Classes : ~Dispatches!Outstanding(k)
  BY OutstandingIsActive, EndedDispatchIsQuiet DEF Quiet
<1> QED
  BY <1>1, <1>2 DEF Dispatches!Close

\* ... and otherwise it takes one dispatch further.
LEMMA DispatchMoves ==
    ASSUME RecoveryInv, RecoveryInv', NEW r \in Revisions, delivery'[r].state # "none",
           delivery[r].state = "none" \/ delivery[r].class = delivery'[r].class,
           \A q \in Revisions \ {r} :
              /\ delivery'[q].class = delivery[q].class
              /\ Phase(delivery'[q].state) = Phase(delivery[q].state)
    PROVE  /\ [k \in Classes |-> ClassDispatch(k)]' =
                  [[k \in Classes |-> ClassDispatch(k)] EXCEPT
                      ![delivery'[r].class] = Phase(delivery'[r].state)]
           /\ delivery[r].state # "none" =>
                  ClassDispatch(delivery[r].class) = Phase(delivery[r].state)
           /\ delivery[r].class \in Classes /\ delivery'[r].class \in Classes
<1>1. delivery[r].class \in Classes /\ delivery'[r].class \in Classes
  BY DEF RecoveryInv, RecoveryTypeOK, Deliveries
<1>2. \A k \in Classes : ClassDispatch(k)' = IF k = delivery'[r].class
                                           THEN Phase(delivery'[r].state)
                                           ELSE ClassDispatch(k)
  BY OneRowMoves, ClassDispatchIn
<1>3. delivery[r].state # "none" => ClassDispatch(delivery[r].class) = Phase(delivery[r].state)
  BY RowDispatch, ClassDispatchIn
<1> QED
  BY <1>1, <1>2, <1>3

LEMMA DispatchExecutes ==
    ASSUME RecoveryInv, RecoveryInv', NEW r \in Revisions, CaseActive' = CaseActive,
           delivery[r].state \in Unbound, delivery'[r].state \in Bound,
           delivery'[r].class = delivery[r].class,
           \A q \in Revisions \ {r} : delivery'[q] = delivery[q]
    PROVE  \E k \in Classes : Dispatches!Execute(k)
<1>1. /\ delivery[r].state # "none" /\ delivery'[r].state # "none"
      /\ Phase(delivery[r].state) = "waiting" /\ Phase(delivery'[r].state) = "executing"
  BY DEF Phase, Unbound, Bound
<1> DEFINE k == delivery[r].class
<1>2. /\ k \in Classes /\ ClassDispatch(k) = "waiting"
      /\ [j \in Classes |-> ClassDispatch(j)]' =
            [[j \in Classes |-> ClassDispatch(j)] EXCEPT ![k] = "executing"]
  BY <1>1, DispatchMoves
<1> HIDE DEF k
<1>3. Dispatches!Execute(k)
  BY <1>2 DEF Dispatches!Execute
<1> QED
  BY <1>2, <1>3

LEMMA DispatchSettles ==
    ASSUME RecoveryInv, RecoveryInv', NEW r \in Revisions, IsActive(r),
           CaseActive' = CaseActive \/ ~CaseActive',
           delivery'[r].state \in TerminalStates,
           delivery'[r].class = delivery[r].class,
           \A q \in Revisions \ {r} :
              /\ delivery'[q].class = delivery[q].class
              /\ Phase(delivery'[q].state) = Phase(delivery[q].state)
    PROVE  \E k \in Classes : Dispatches!Settle(k)
<1>1. /\ delivery[r].state # "none" /\ delivery'[r].state # "none"
      /\ Phase(delivery[r].state) \in {"waiting", "executing"}
      /\ Phase(delivery'[r].state) = "settled"
  BY DEF Phase, Unbound, Bound, TerminalStates, IsActive
<1> DEFINE k == delivery[r].class
<1>2. /\ k \in Classes /\ ClassDispatch(k) \in {"waiting", "executing"}
      /\ [j \in Classes |-> ClassDispatch(j)]' =
            [[j \in Classes |-> ClassDispatch(j)] EXCEPT ![k] = "settled"]
  BY <1>1, DispatchMoves
<1> HIDE DEF k
<1>3. Dispatches!Outstanding(k)
  BY <1>2 DEF Dispatches!Outstanding
<1>4. (~CaseActive)' \in {~CaseActive, TRUE}
  OBVIOUS
<1>5. Dispatches!Settle(k)
  BY <1>2, <1>3, <1>4 DEF Dispatches!Settle
<1> QED
  BY <1>2, <1>5

\* A step keeps the promise.
Promised == Dispatches!DispatchNext \/ UNCHANGED Dispatches!dispatchVars

LEMMA KeptDeliveries ==
    ASSUME delivery' = delivery, CaseActive' = CaseActive
    PROVE  Promised
<1>1. RowsKeepPhase
  BY DEF RowsKeepPhase
<1> QED
  BY <1>1, PhasesKept DEF Promised

\* A new lease, a row that goes on waiting or one that goes on running.
LEMMA RowKeepsPhase ==
    ASSUME RecoveryInv, NEW r, NEW row, DeliveryMoves(r, row), recoveryCase' = recoveryCase,
           r \in Revisions => row.class = delivery[r].class
                              /\ Phase(row.state) = Phase(delivery[r].state)
    PROVE  Promised
<1>1. delivery \in [Revisions -> Deliveries]
  BY DEF RecoveryInv, RecoveryTypeOK
<1>2. \A q \in Revisions : delivery'[q] = IF q = r THEN row ELSE delivery[q]
  BY <1>1 DEF DeliveryMoves
<1>3. RowsKeepPhase
  BY <1>2 DEF RowsKeepPhase
<1>4. CaseActive' = CaseActive
  BY DEF CaseActive
<1> QED
  BY <1>3, <1>4, PhasesKept DEF Promised

LEMMA WaitingPhases ==
    /\ Phase("leased") = "waiting" /\ Phase("authorized") = "waiting"
    /\ \A s \in Unbound : Phase(s) = "waiting"
    /\ \A s \in Bound : Phase(s) = "executing"
    /\ "running" \in Bound /\ "attempt_reserved" \in Bound
    /\ "leased" \in Unbound /\ "authorized" \in Unbound
  BY DEF Phase, Unbound, Bound

LEMMA LeasesArePromised ==
    ASSUME RecoveryInv
    PROVE  /\ \A i \in Instances : Acquire(i) \/ AcquireEvidence(i) \/ Relinquish(i) => Promised
           /\ \A r \in Revisions : ExpireDelivery(r) => Promised
           /\ ResetExpiredLease => Promised
           /\ \A c \in Pubs : RollbackPublication(c) => Promised
<1>0. \A q \in Revisions : delivery[q] \in Deliveries
  BY DEF RecoveryInv, RecoveryTypeOK
<1>r. Rev \in Revisions
  BY DEF RecoveryInv, RecoveryTypeOK, Rev
<1>1. ASSUME NEW i \in Instances, Acquire(i) PROVE Promised
  <2> DEFINE row == [Current EXCEPT !.state = "leased", !.owner = i, !.lease = @ + 1,
                                    !.live = TRUE]
  <2>1. row.class = Current.class /\ row.state = "leased"
    BY <1>0, <1>r DEF Current, Deliveries
  <2>2. Current.state \in Unbound
    BY <1>1 DEF Acquire, Acquirable, Unbound
  <2>3. DeliveryMoves(Rev, row) /\ recoveryCase' = recoveryCase
    BY <1>1 DEF Acquire
  <2> HIDE DEF row
  <2> QED
    BY <2>1, <2>2, <2>3, RowKeepsPhase, WaitingPhases DEF Current
<1>2. ASSUME NEW i \in Instances, AcquireEvidence(i) PROVE Promised
  <2> DEFINE row == [Current EXCEPT !.state = IF @ \in Bound THEN @ ELSE "leased",
                                    !.owner = i, !.lease = @ + 1, !.live = TRUE]
  <2>1. /\ row.class = Current.class
        /\ row.state = IF Current.state \in Bound THEN Current.state ELSE "leased"
    BY <1>0, <1>r DEF Current, Deliveries
  <2>2. Current.state \in Unbound \/ Current.state \in Bound
    BY <1>2 DEF AcquireEvidence, MayTakeEvidence, Acquirable, Unbound
  <2>3. DeliveryMoves(Rev, row) /\ recoveryCase' = recoveryCase
    BY <1>2 DEF AcquireEvidence
  <2> HIDE DEF row
  <2> QED
    BY <2>1, <2>2, <2>3, RowKeepsPhase, WaitingPhases DEF Current
<1>3. ASSUME NEW i \in Instances, Relinquish(i) PROVE Promised
  <2> DEFINE r == worker[i].rev
             row == [delivery[r] EXCEPT !.live = FALSE]
  <2>1. r \in Revisions => row.class = delivery[r].class /\ row.state = delivery[r].state
    BY <1>0 DEF Deliveries
  <2>2. (DeliveryMoves(r, row) \/ delivery' = delivery) /\ recoveryCase' = recoveryCase
    BY <1>3 DEF Relinquish
  <2> HIDE DEF row, r
  <2> QED
    BY <2>1, <2>2, RowKeepsPhase, KeptDeliveries DEF CaseActive
<1>4. ASSUME NEW r \in Revisions, ExpireDelivery(r) PROVE Promised
  <2> DEFINE row == [delivery[r] EXCEPT !.live = FALSE]
  <2>1. row.class = delivery[r].class /\ row.state = delivery[r].state
    BY <1>0 DEF Deliveries
  <2>2. DeliveryMoves(r, row) /\ recoveryCase' = recoveryCase
    BY <1>4 DEF ExpireDelivery
  <2> HIDE DEF row
  <2> QED
    BY <2>1, <2>2, RowKeepsPhase
<1>5. ASSUME ResetExpiredLease \/ \E c \in Pubs : RollbackPublication(c) PROVE Promised
  <2> DEFINE row == [Current EXCEPT !.state = "authorized", !.owner = Nobody]
  <2>1. row.class = Current.class /\ row.state = "authorized"
    BY <1>0, <1>r DEF Current, Deliveries
  <2>2. Current.state = "leased" /\ DeliveryMoves(Rev, row) /\ recoveryCase' = recoveryCase
    BY <1>5 DEF ResetExpiredLease, RollbackPublication
  <2> HIDE DEF row
  <2> QED
    BY <2>1, <2>2, RowKeepsPhase, WaitingPhases DEF Current
<1> QED
  BY <1>1, <1>2, <1>3, <1>4, <1>5

\* The attempt begins with its reservation, and its running adds nothing.
LEMMA ExecutionsArePromised ==
    ASSUME RecoveryInv, RecoveryInv', NEW i \in Instances
    PROVE  /\ ReserveAttempt(i) \/ ReserveEvidence(i) => Promised
           /\ MarkRunning(i) \/ RunEvidence(i) => Promised
<1> DEFINE r == worker[i].rev
<1>0. \A q \in Revisions : delivery[q] \in Deliveries
  BY DEF RecoveryInv, RecoveryTypeOK
<1>1. ASSUME ReserveAttempt(i) \/ ReserveEvidence(i) PROVE Promised
  <2>1. r \in Revisions
    BY <1>1 DEF RecoveryInv, WorkerKnows, WorkerRemembers, RestPcs, ReserveAttempt, ReserveEvidence
  <2>2. /\ delivery[r].state = "leased" /\ recoveryCase' = recoveryCase
        /\ \E c \in {worker[i].pub, FreshPub} :
              delivery' = [delivery EXCEPT ![r] = [delivery[r] EXCEPT
                              !.state = "attempt_reserved", !.pub = c]]
    BY <1>1 DEF ReserveAttempt, ReserveEvidence, MayReserve, DeliveryMoves
  <2> HIDE DEF r
  <2>3. /\ delivery'[r].state = "attempt_reserved" /\ delivery'[r].class = delivery[r].class
        /\ \A q \in Revisions \ {r} : delivery'[q] = delivery[q]
    BY <1>0, <2>1, <2>2 DEF Deliveries, RecoveryInv, RecoveryTypeOK
  <2> QED
    BY <2>1, <2>2, <2>3, DispatchExecutes, WaitingPhases
    DEF Promised, Dispatches!DispatchNext, CaseActive
<1>2. ASSUME MarkRunning(i) \/ RunEvidence(i) PROVE Promised
  <2> DEFINE row == [delivery[r] EXCEPT !.state = "running"]
  <2>1. /\ delivery[r].state \in Bound /\ recoveryCase' = recoveryCase
        /\ DeliveryMoves(r, row)
    BY <1>2 DEF MarkRunning, RunEvidence, MayRun, HoldsAttempt
  <2>2. r \in Revisions => row.class = delivery[r].class /\ row.state = "running"
    BY <1>0 DEF Deliveries
  <2> HIDE DEF row, r
  <2> QED
    BY <2>1, <2>2, RowKeepsPhase, WaitingPhases
<1> QED
  BY <1>1, <1>2

\* The current dispatch ends with its result, or blocked with its case.
LEMMA ResultsArePromised ==
    ASSUME RecoveryInv, RecoveryInv'
    PROVE  /\ CompleteDelivery => Promised
           /\ \A target \in {"blocked", "superseded"} : CompleteRefused(target) => Promised
           /\ \A i \in Instances : QuarantineEvidence(i) => Promised
           /\ \A c \in Pubs : BlockExpiredModel(c) \/ BlockExpiredEvidence(c) => Promised
<1>0. /\ delivery \in [Revisions -> Deliveries] /\ Rev \in Revisions
      /\ recoveryCase \in [status : {"open", "repairing", "evidencing"} \cup TerminalCases,
                           rev : Revisions]
  BY DEF RecoveryInv, RecoveryTypeOK, Rev
<1>1. ASSUME NEW r \in Revisions, NEW row, IsActive(r), DeliveryMoves(r, row),
             row.class = delivery[r].class, row.state \in TerminalStates,
             CaseActive' = CaseActive \/ ~CaseActive'
      PROVE  Promised
  <2>1. delivery'[r] = row /\ \A q \in Revisions \ {r} : delivery'[q] = delivery[q]
    BY <1>0, <1>1 DEF DeliveryMoves
  <2>2. \E k \in Classes : Dispatches!Settle(k)
    BY <1>1, <2>1, DispatchSettles
  <2> QED
    BY <2>2 DEF Promised, Dispatches!DispatchNext
<1>2. ASSUME NEW target \in {"blocked", "superseded"}, CompleteRefused(target)
      PROVE  Promised
  <2> DEFINE row == [Current EXCEPT !.state = target]
  <2>1. row.class = Current.class /\ row.state \in TerminalStates
    BY <1>0 DEF Current, Deliveries, TerminalStates
  <2>2. /\ DeliveryMoves(Rev, row) /\ IsActive(Rev) /\ CaseActive' = CaseActive
    BY <1>2 DEF CompleteRefused, IsActive, Current, CaseActive
  <2> HIDE DEF row
  <2> QED
    BY <1>0, <1>1, <2>1, <2>2 DEF Current
<1>3. ASSUME CompleteDelivery PROVE Promised
  <2> DEFINE result == IF pub[Current.pub].attempt = "verified" THEN "succeeded" ELSE "failed"
             row == [Current EXCEPT !.state = result]
  <2>1. row.class = Current.class /\ row.state \in TerminalStates
    BY <1>0 DEF Current, Deliveries, TerminalStates
  <2>2. DeliveryMoves(Rev, row) /\ IsActive(Rev) /\ CaseActive' = CaseActive
    BY <1>3 DEF CompleteDelivery, IsActive, Current, CaseActive
  <2> HIDE DEF row
  <2> QED
    BY <1>0, <1>1, <2>1, <2>2 DEF Current
<1>4. ASSUME NEW r \in Revisions, IsActive(r),
             DeliveryMoves(r, [delivery[r] EXCEPT !.state = "blocked", !.live = FALSE]),
             recoveryCase' = [recoveryCase EXCEPT !.status = "blocked"]
      PROVE  Promised
  <2> DEFINE row == [delivery[r] EXCEPT !.state = "blocked", !.live = FALSE]
  <2>1. row.class = delivery[r].class /\ row.state \in TerminalStates
    BY <1>0 DEF Deliveries, TerminalStates
  <2>2. ~CaseActive'
    BY <1>0, <1>4 DEF CaseActive, TerminalCases
  <2>3. DeliveryMoves(r, row)
    BY <1>4
  <2> HIDE DEF row
  <2> QED
    BY <1>1, <1>4, <2>1, <2>2, <2>3
<1>5. ASSUME NEW i \in Instances, QuarantineEvidence(i) PROVE Promised
  <2>1. worker[i].rev \in Revisions
    BY <1>5 DEF RecoveryInv, WorkerKnows, WorkerRemembers, RestPcs, QuarantineEvidence
  <2> QED
    BY <1>4, <1>5, <2>1 DEF QuarantineEvidence, HoldsAttempt, IsActive, Unbound
<1>6. ASSUME NEW c \in Pubs, BlockExpiredModel(c) \/ BlockExpiredEvidence(c)
      PROVE  Promised
  BY <1>0, <1>4, <1>6 DEF BlockExpiredModel, BlockExpiredEvidence, ExpiredModelOwner, IsActive,
                          Current
<1> QED
  BY <1>2, <1>3, <1>5, <1>6

\* The coordinator dispatches into a quiet case, and ends one.
LEMMA DecisionsArePromised ==
    ASSUME RecoveryInv, RecoveryInv'
    PROVE  /\ \A class \in Classes : AuthorizeRevision(class) => Promised
           /\ ResolveCase \/ SettleRefusedCase => Promised
           /\ \A target \in {"blocked", "superseded"} : EndCase(target) => Promised
           /\ \A decision \in Classes \cup {"blocked"} : AdvanceRevision(decision) => Promised
<1>0. /\ delivery \in [Revisions -> Deliveries] /\ Rev \in Revisions
      /\ recoveryCase \in [status : {"open", "repairing", "evidencing"} \cup TerminalCases,
                           rev : Revisions]
  BY DEF RecoveryInv, RecoveryTypeOK, Rev
<1>1. ASSUME NEW class \in Classes, AuthorizeRevision(class) PROVE Promised
  <2>1. Current.state = "none"
    <3>1. coordinator # "none"
      BY <1>1 DEF AuthorizeRevision, Decided, Classes
    <3> QED
      BY <3>1 DEF RecoveryInv, CaseRows, RevisionsInOrder
  <2>2. /\ delivery'[Rev].class = class /\ delivery'[Rev].state = "authorized"
        /\ \A q \in Revisions \ {Rev} : delivery'[q] = delivery[q]
    BY <1>0, <1>1 DEF AuthorizeRevision, DeliveryMoves, NoDelivery
  <2>3. CaseActive /\ CaseActive'
    BY <1>0, <1>1 DEF AuthorizeRevision, CaseActive, TerminalCases
  <2>4. \A k \in Classes : ~Dispatches!Outstanding(k)
    BY <2>1, EndedDispatchIsQuiet, OutstandingIsActive
    DEF Quiet, IsActive, Unbound, Bound, Current
  <2>5. ClassDispatch(class) = "none"
    BY <1>1 DEF AuthorizeRevision, MayAuthorize, Used, ClassDispatch
  <2>6. [k \in Classes |-> ClassDispatch(k)]' =
            [[k \in Classes |-> ClassDispatch(k)] EXCEPT ![class] = "waiting"]
    BY <1>0, <2>1, <2>2, DispatchMoves, WaitingPhases DEF Current
  <2>7. Dispatches!Dispatch(class)
    BY <2>3, <2>4, <2>5, <2>6 DEF Dispatches!Dispatch
  <2> QED
    BY <2>7 DEF Promised, Dispatches!DispatchNext
<1>2. ASSUME ~IsActive(Rev), delivery' = delivery, ~CaseActive'
      PROVE  Promised
  <2>1. RowsKeepPhase
    BY <1>2 DEF RowsKeepPhase
  <2> QED
    BY <1>2, <2>1, CaseCloses DEF Promised, Dispatches!DispatchNext
<1>3. ASSUME ResolveCase \/ SettleRefusedCase PROVE Promised
  <2>1. ~IsActive(Rev) /\ delivery' = delivery
    BY <1>3 DEF ResolveCase, SettleRefusedCase, IsActive, Current, Unbound, Bound
  <2>2. ~CaseActive'
    BY <1>0, <1>3 DEF ResolveCase, SettleRefusedCase, CaseActive, TerminalCases
  <2> QED
    BY <1>2, <2>1, <2>2
<1>4. ASSUME NEW target \in {"blocked", "superseded"}, EndCase(target) PROVE Promised
  <2>1. ~IsActive(Rev)
    BY <1>4 DEF EndCase, RecoveryInv, CaseRows, RevisionsInOrder, IsActive, Current, Unbound, Bound
  <2>2. delivery' = delivery /\ ~CaseActive'
    BY <1>0, <1>4 DEF EndCase, CaseActive, TerminalCases
  <2> QED
    BY <1>2, <2>1, <2>2
<1>5. ASSUME NEW decision \in Classes \cup {"blocked"}, AdvanceRevision(decision)
      PROVE  Promised
  BY <1>5, KeptDeliveries DEF AdvanceRevision, CaseActive, TerminalCases
<1> QED
  BY <1>1, <1>3, <1>4, <1>5

\* The end of the run settles the dispatch that is outstanding, if there is one,
\* and closes the case if that was not.
LEMMA RunEndIsPromised ==
    ASSUME RecoveryInv, RecoveryInv', NEW target \in {"failed", "cancelled"}, Terminalize(target)
    PROVE  Promised
<1>0. /\ \A r \in Revisions : delivery[r] \in Deliveries
      /\ \A c \in Pubs : pub[c] \in Publications
      /\ Rev \in Revisions
      /\ recoveryCase \in [status : {"open", "repairing", "evidencing"} \cup TerminalCases,
                           rev : Revisions]
  BY DEF RecoveryInv, RecoveryTypeOK, Rev
<1>1. \A r \in Revisions :
        /\ delivery'[r].class = delivery[r].class
        /\ delivery'[r].state =
              IF IsActive(r) THEN IF target = "failed" THEN "blocked" ELSE "superseded"
              ELSE delivery[r].state
  BY <1>0 DEF Terminalize, EndedDelivery, IsActive, Deliveries
<1>2. ~CaseActive'
  BY <1>0 DEF Terminalize, CaseActive, TerminalCases
<1>3. CASE IsActive(Rev)
  <2>1. \A r \in Revisions \ {Rev} : ~IsActive(r)
    BY <1>3 DEF RecoveryInv, CaseRows, OneStoryOwner
  <2>2. \A r \in Revisions \ {Rev} :
          delivery'[r].class = delivery[r].class /\ delivery'[r].state = delivery[r].state
    BY <1>1, <2>1
  <2>3. delivery'[Rev].state \in TerminalStates /\ delivery'[Rev].class = delivery[Rev].class
    BY <1>0, <1>1, <1>3 DEF TerminalStates
  <2>4. \E k \in Classes : Dispatches!Settle(k)
    BY <1>0, <1>2, <1>3, <2>2, <2>3, DispatchSettles
  <2> QED
    BY <2>4 DEF Promised, Dispatches!DispatchNext
<1>4. CASE ~IsActive(Rev)
  <2>1. \A r \in Revisions : ~IsActive(r)
    BY <1>4, EndedDispatchIsQuiet DEF Quiet
  <2>2. RowsKeepPhase
    BY <1>1, <2>1 DEF RowsKeepPhase
  <2> QED
    BY <1>2, <1>4, <2>2, CaseCloses DEF Promised, Dispatches!DispatchNext
<1> QED
  BY <1>3, <1>4

LEMMA PromiseKept == RecoveryInv /\ RecoveryInv' /\ [RecoveryNext]_recoveryVars => Promised
<1> SUFFICES ASSUME RecoveryInv, RecoveryInv', [RecoveryNext]_recoveryVars PROVE Promised
  OBVIOUS
<1>0. delivery' = delivery /\ recoveryCase' = recoveryCase => Promised
  BY KeptDeliveries DEF CaseActive
<1>1. ASSUME NEW i \in Instances, InstanceStep(i) PROVE Promised
  <2>1. \/ delivery' = delivery /\ recoveryCase' = recoveryCase
        \/ Acquire(i) \/ Relinquish(i) \/ ReserveAttempt(i) \/ MarkRunning(i)
    BY <1>1 DEF InstanceStep, Discover, LoseRoute, Publish, BindAttempt, FailClaiming,
                MarkStarting, FailStarting, Spawn, FailRunning, LetRun, Crash
  <2> QED
    BY <1>0, <2>1, LeasesArePromised, ExecutionsArePromised
<1>2. ASSUME NEW i \in Instances, EvidenceStep(i) PROVE Promised
  <2>1. \/ delivery' = delivery /\ recoveryCase' = recoveryCase
        \/ AcquireEvidence(i) \/ ReserveEvidence(i) \/ RunEvidence(i) \/ QuarantineEvidence(i)
    BY <1>2 DEF EvidenceStep, JudgeEvidence, CloseEvidenceClaim,
                LeaveReplayable, LoseEvidence
  <2> QED
    BY <1>0, <2>1, LeasesArePromised, ExecutionsArePromised, ResultsArePromised
<1>3. ASSUME NEW c \in Pubs, RuntimeStep(c) PROVE Promised
  BY <1>0, <1>3 DEF RuntimeStep, ChildExit, ExpireAttempt, RequestCompletion, RequestDrain,
                    MarkDrained, QuarantineSession, RecoverQuarantined, FinishAttempt,
                    ReleaseSession, AcceptCompletion
<1>4. CASE ReconcilerStep
  <2>1. \/ delivery' = delivery /\ recoveryCase' = recoveryCase
        \/ ResetExpiredLease
        \/ \E c \in Pubs : RollbackPublication(c) \/ BlockExpiredModel(c) \/ BlockExpiredEvidence(c)
    BY <1>4 DEF ReconcilerStep, RequestExpiredDrain
  <2> QED
    BY <1>0, <2>1, LeasesArePromised, ResultsArePromised
<1>5. CASE CoordinatorStep
  BY <1>0, <1>5, ResultsArePromised, DecisionsArePromised DEF CoordinatorStep, LoseDecision
<1>6. CASE RunStep
  BY <1>0, <1>6, RunEndIsPromised DEF RunStep, RequestTermination, FailUnrecovered, CompleteRun
<1>7. CASE \E r \in Revisions : ExpireDelivery(r)
  BY <1>7, LeasesArePromised
<1>8. CASE UNCHANGED recoveryVars
  BY <1>0, <1>8 DEF recoveryVars
<1> QED
  BY <1>1, <1>2, <1>3, <1>4, <1>5, <1>6, <1>7, <1>8 DEF RecoveryNext

LEMMA FirstPromise == RecoveryInit => Dispatches!DispatchInit
<1> SUFFICES ASSUME RecoveryInit PROVE Dispatches!DispatchInit
  OBVIOUS
<1>1. \A k \in Classes : ClassDispatch(k) = "none"
  BY DEF RecoveryInit, NoDelivery, ClassDispatch
<1>2. CaseActive
  BY DEF RecoveryInit, CaseActive, TerminalCases
<1> QED
  BY <1>1, <1>2 DEF Dispatches!DispatchInit

\* Whatever dies, expires or is repeated, the recovery implements the promise of
\* RecoveryDispatch: one dispatch at a time, each class at most once, executed at
\* most once and never handed out again.
THEOREM DispatchImplemented == RecoverySpec => ImplementsDispatch
<1>1. RecoveryInv /\ RecoveryInv' /\ [RecoveryNext]_recoveryVars
          => [Dispatches!DispatchNext]_(Dispatches!dispatchVars)
  BY PromiseKept DEF Promised
<1> QED
  BY <1>1, FirstPromise, RecoveryInvariant, PTL
  DEF RecoverySpec, ImplementsDispatch, Dispatches!DispatchSpec
=============================================================================
