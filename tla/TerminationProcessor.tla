------------------------ MODULE TerminationProcessor ------------------------
(***************************************************************************)
(* How a run's termination is carried out.  Spawner instances take a       *)
(* termination request in turn: a pass claims it, reads the sessions of    *)
(* the run, ends and observes the process of each, and proves the run      *)
(* drained.  Meanwhile launchers bring processes up, exit handlers and the *)
(* reconciler of terminal claims drain and release sessions of their own,  *)
(* and each acts on rows it has read some steps ago.  A pass that throws   *)
(* gives the request up without looking at who owns it by then.            *)
(*                                                                         *)
(* A session's state_version is kept, as stale quarantines are told by it. *)
(* The completion owner a claim of the request waits for is in             *)
(* RunLifecycle.                                                           *)
(***************************************************************************)
EXTENDS Naturals, FiniteSets

CONSTANTS
    Runtimes,   \* runtime sessions of the run
    Instances,  \* spawner instances
    OwnerOf,    \* [Runtimes -> Instances]: owner_instance_id
    MaxFaults,  \* crashes, overrun leases and drains that time out
    Nobody

ASSUME ProcessorAssumption ==
    /\ OwnerOf \in [Runtimes -> Instances]
    /\ MaxFaults \in Nat
    /\ Nobody \notin Runtimes \cup Instances

VARIABLES
    request,     \* the run's termination request; terminalized: the run ended
    session,     \* rows of runtime_sessions; pid: a process identity is stored
    closed,      \* runtimes whose claim has an outcome
    launch,      \* spawnAgentNow, per runtime
    child,       \* the process; taken: killed by one who answers for the claim
    handler,     \* finalizeExitedStoryRuntime, per runtime
    reconciler,  \* reconcileTerminalClaimRuntimes, per instance
    pass,        \* runRunTerminationProcessor, per instance
    up, faults

rows == <<request, session, closed>>
processes == <<launch, child>>
workers == <<handler, reconciler, pass>>
processorVars == <<rows, processes, workers, up, faults>>

-----------------------------------------------------------------------------
(* State *)

Active == {"reserved", "starting", "running", "drain_requested", "drained"}

Undrained == {"reserved", "starting", "running"}

Done == {"drained", "released"}

SessionRows == [state : Active \cup {"released", "quarantined"}, version : Nat, pid : BOOLEAN]

ASSUME NoRowAssumption == Nobody \notin SessionRows

IdleHandler == [pc |-> "none", seen |-> Nobody]
IdleReconciler == [pc |-> "idle", at |-> Nobody, seen |-> Nobody]
IdlePass == [pc |-> "idle", at |-> Nobody, seen |-> [s \in Runtimes |-> Nobody]]

ProcessorInit ==
    /\ request = [state |-> "none", owner |-> Nobody, live |-> FALSE]
    /\ session = [s \in Runtimes |-> [state |-> "reserved", version |-> 0, pid |-> FALSE]]
    /\ closed = {}
    /\ launch = [s \in Runtimes |-> "reserved"]
    /\ child = [s \in Runtimes |-> "none"]
    /\ handler = [s \in Runtimes |-> IdleHandler]
    /\ reconciler = [i \in Instances |-> IdleReconciler]
    /\ pass = [i \in Instances |-> IdlePass]
    /\ up = Instances
    /\ faults = 0

\* The run is active and has no termination.
Unchallenged == request.state = "none"

Living(s) == child[s] \in {"alive", "dying", "taken"}

\* One row of runtime_sessions moves on.
Written(s, state, pid) ==
    [session EXCEPT ![s] = [state |-> state, version |-> session[s].version + 1, pid |-> pid]]

Moved(s, state) == Written(s, state, session[s].pid)

\* quarantine: only the version that was read.
GivenUp(s, seen) ==
    IF session[s].version = seen.version /\ session[s].state \in Active
    THEN Moved(s, "quarantined") ELSE session

\* requestDrain, on a row that is not quarantined.
DrainRequested(s) == IF session[s].state \in Undrained THEN Moved(s, "drain_requested") ELSE session

\* Mutant: evidence is not reused.
MayProveOnce(s) == session[s].state = "drain_requested"

\* markDrained reuses the evidence another intent recorded.
MayProve(s) == session[s].state \in {"drain_requested", "drained"}

Proven(s) == IF session[s].state = "drained" THEN session ELSE Moved(s, "drained")

\* drainDurableRuntimeSession kills the child it tracks, and answers for the
\* claim; any other child it can only signal by the identity in the row.
Killed(i, s, seen) ==
    [child EXCEPT ![s] =
        CASE OwnerOf[s] = i /\ @ \in {"alive", "dying"} -> "taken"
          [] OwnerOf[s] # i /\ seen.pid /\ @ = "alive" -> "dying"
          [] OTHER -> @]

\* Mutant: only a tracked child is looked for.
AbsentHere(i, s, seen) == ~Living(s) \/ OwnerOf[s] # i

\* Two stable observations.  A row without a pid counts as a local process
\* that is absent, and the scan of command lines may not show the child.
Absent(i, s, seen) == ~Living(s) \/ ~seen.pid

Fault == faults < MaxFaults /\ faults' = faults + 1

-----------------------------------------------------------------------------
(* The launcher, and the process *)

MarkStarting(s) ==
    /\ launch[s] = "reserved"
    /\ Unchallenged /\ session[s].state = "reserved"
    /\ session' = Moved(s, "starting")
    /\ launch' = [launch EXCEPT ![s] = "starting"]
    /\ UNCHANGED <<request, closed, child, workers, up, faults>>

\* markStarting throws: a row still reserved is quarantined.
StartBlocked(s) ==
    /\ launch[s] = "reserved"
    /\ ~(Unchallenged /\ session[s].state = "reserved")
    /\ session' = IF session[s].state = "reserved" THEN Moved(s, "quarantined") ELSE session
    /\ launch' = [launch EXCEPT ![s] = "over"]
    /\ UNCHANGED <<request, closed, child, workers, up, faults>>

Spawn(s) ==
    /\ launch[s] = "starting"
    /\ launch' = [launch EXCEPT ![s] = "spawned"]
    /\ child' = [child EXCEPT ![s] = "alive"]
    /\ UNCHANGED <<rows, workers, up, faults>>

MarkRunning(s) ==
    /\ launch[s] = "spawned"
    /\ Unchallenged /\ session[s].state = "starting"
    /\ session' = Written(s, "running", TRUE)
    /\ launch' = [launch EXCEPT ![s] = "over"]
    /\ UNCHANGED <<request, closed, child, workers, up, faults>>

\* Mutant: the child is left to the drain that was asked for.
LeaveOwnChild(s) == UNCHANGED child

\* terminateActiveProcess, by one who leaves the claim to the exit handler.
KillOwnChild(s) == child' = [child EXCEPT ![s] = IF @ = "alive" THEN "dying" ELSE @]

\* markRunning answers drain_requested, or throws.
RunningRefused(s) ==
    /\ launch[s] = "spawned"
    /\ ~(Unchallenged /\ session[s].state = "starting")
    /\ KillOwnChild(s)
    /\ session' = IF session[s].state = "starting" THEN Moved(s, "quarantined") ELSE session
    /\ launch' = [launch EXCEPT ![s] = "over"]
    /\ UNCHANGED <<request, closed, workers, up, faults>>

LaunchStep(s) ==
    /\ OwnerOf[s] \in up
    /\ MarkStarting(s) \/ StartBlocked(s) \/ Spawn(s) \/ MarkRunning(s) \/ RunningRefused(s)

\* The exit event: its handler runs unless another answers for the claim.
ChildExits(s) ==
    /\ Living(s)
    /\ child' = [child EXCEPT ![s] = "dead"]
    /\ handler' = IF child[s] # "taken" /\ OwnerOf[s] \in up
                  THEN [handler EXCEPT ![s].pc = "due"] ELSE handler
    /\ UNCHANGED <<rows, launch, reconciler, pass, up, faults>>

\* A fenced claim mutation, before any termination.
CloseClaim(s) ==
    /\ Unchallenged
    /\ s \notin closed
    /\ session[s].state \in {"reserved", "drained"}
    /\ closed' = closed \cup {s}
    /\ UNCHANGED <<request, session, processes, workers, up, faults>>

-----------------------------------------------------------------------------
(* The exit handler *)

HandlerGoes(s, pc, seen) == handler' = [handler EXCEPT ![s] = [pc |-> pc, seen |-> seen]]

\* The session is read, and asked to drain unless it is drained or released.
HandlerAsks(s) ==
    /\ handler[s].pc = "due"
    /\ session' = IF session[s].state = "quarantined" THEN session ELSE DrainRequested(s)
    /\ CASE session[s].state \in Done -> HandlerGoes(s, "release", Nobody)
         [] session[s].state = "quarantined" -> HandlerGoes(s, "caught", Nobody)
         [] OTHER -> HandlerGoes(s, "drain", session'[s])
    /\ UNCHANGED <<request, closed, faults>>

HandlerProves(s) ==
    /\ handler[s].pc = "drain"
    /\ Absent(OwnerOf[s], s, handler[s].seen)
    /\ IF MayProve(s) THEN session' = Proven(s) /\ HandlerGoes(s, "release", Nobody)
       ELSE session' = session /\ HandlerGoes(s, "caught", Nobody)
    /\ UNCHANGED <<request, closed, faults>>

HandlerTimesOut(s) ==
    /\ handler[s].pc = "drain"
    /\ Fault
    /\ session' = GivenUp(s, handler[s].seen)
    /\ HandlerGoes(s, "caught", Nobody)
    /\ UNCHANGED <<request, closed>>

\* Only a claim with an outcome releases its runtime.
HandlerReleases(s) ==
    /\ handler[s].pc = "release"
    /\ session' = IF s \in closed /\ session[s].state = "drained" THEN Moved(s, "released") ELSE session
    /\ IF s \in closed /\ session[s].state \notin Done
       THEN HandlerGoes(s, "caught", Nobody) ELSE HandlerGoes(s, "none", Nobody)
    /\ UNCHANGED <<request, closed, faults>>

\* The catch reads the row and gives up the version it has read.
HandlerCatches(s) ==
    /\ handler[s].pc = "caught"
    /\ IF session[s].state \in {"released", "quarantined"}
       THEN HandlerGoes(s, "none", Nobody) ELSE HandlerGoes(s, "give_up", session[s])
    /\ UNCHANGED <<rows, faults>>

HandlerGivesUp(s) ==
    /\ handler[s].pc = "give_up"
    /\ session' = GivenUp(s, handler[s].seen)
    /\ HandlerGoes(s, "none", Nobody)
    /\ UNCHANGED <<request, closed, faults>>

HandlerStep(s) ==
    /\ \/ HandlerAsks(s) \/ HandlerProves(s) \/ HandlerReleases(s)
       \/ HandlerCatches(s) \/ HandlerGivesUp(s)
    /\ UNCHANGED <<processes, reconciler, pass, up>>

-----------------------------------------------------------------------------
(* The reconciler of terminal claims *)

ReconcilerGoes(i, pc, s, seen) ==
    reconciler' = [reconciler EXCEPT ![i] = [pc |-> pc, at |-> s, seen |-> seen]]

ReconcilerRests(i) == reconciler' = [reconciler EXCEPT ![i] = IdleReconciler]

\* The list leaves out runs under termination; nothing later looks again.
ReconcilerLists(i, s) ==
    /\ i \in up
    /\ reconciler[i].pc = "idle"
    /\ Unchallenged
    /\ s \in closed /\ session[s].state \in Active
    /\ ReconcilerGoes(i, "ask", s, Nobody)
    /\ UNCHANGED <<rows, processes, handler, pass, up, faults>>

ReconcilerAsks(i) ==
    LET s == reconciler[i].at IN
    /\ reconciler[i].pc = "ask"
    /\ session' = IF session[s].state = "quarantined" THEN session ELSE DrainRequested(s)
    /\ CASE session[s].state = "drained" -> ReconcilerGoes(i, "release", s, Nobody) /\ UNCHANGED child
         [] session[s].state \in {"released", "quarantined"} -> ReconcilerRests(i) /\ UNCHANGED child
         [] OTHER -> ReconcilerGoes(i, "drain", s, session'[s]) /\ child' = Killed(i, s, session'[s])
    /\ UNCHANGED <<request, closed, faults>>

ReconcilerProves(i) ==
    LET s == reconciler[i].at IN
    /\ reconciler[i].pc = "drain"
    /\ Absent(i, s, reconciler[i].seen)
    /\ IF MayProve(s) THEN session' = Proven(s) /\ ReconcilerGoes(i, "release", s, Nobody)
       ELSE session' = session /\ ReconcilerRests(i)
    /\ UNCHANGED <<request, closed, child, faults>>

ReconcilerTimesOut(i) ==
    /\ reconciler[i].pc = "drain"
    /\ Fault
    /\ session' = GivenUp(reconciler[i].at, reconciler[i].seen)
    /\ ReconcilerRests(i)
    /\ UNCHANGED <<request, closed, child>>

ReconcilerReleases(i) ==
    LET s == reconciler[i].at IN
    /\ reconciler[i].pc = "release"
    /\ session' = IF session[s].state = "drained" THEN Moved(s, "released") ELSE session
    /\ ReconcilerRests(i)
    /\ UNCHANGED <<request, closed, child, faults>>

ReconcilerStep(i) ==
    /\ ReconcilerAsks(i) \/ ReconcilerProves(i) \/ ReconcilerReleases(i)
    /\ UNCHANGED <<launch, handler, pass, up>>

-----------------------------------------------------------------------------
(* The pass of the termination processor *)

Claimable ==
    \/ request.state = "requested"
    \/ request.state = "draining" /\ ~request.live

AllDrained == \A s \in Runtimes : session[s].state \in Done

Goes(i, pc) == pass' = [pass EXCEPT ![i] = [IdlePass EXCEPT !.pc = pc]]

Rests(i) == Goes(i, "idle")

\* The sessions a pass has yet to drain.
ToDo(i) == {s \in Runtimes : pass[i].seen[s] # Nobody}

ListPending(i) ==
    /\ pass[i].pc = "idle"
    /\ Claimable \/ request.state = "drained"
    /\ Goes(i, IF request.state = "drained" THEN "terminalize" ELSE "listed")
    /\ UNCHANGED <<rows, child, faults>>

Owned(i) == [state |-> "draining", owner |-> i, live |-> TRUE]

\* Nothing of the run starts any more; a request taken meanwhile is skipped.
Claim(i) ==
    /\ pass[i].pc = "listed"
    /\ IF Claimable
       THEN /\ request' = Owned(i)
            /\ session' = [s \in Runtimes |-> DrainRequested(s)[s]]
            /\ Goes(i, "claimed")
       ELSE Rests(i) /\ UNCHANGED <<request, session>>
    /\ UNCHANGED <<closed, child, faults>>

ListSessions(i) ==
    /\ pass[i].pc = "claimed"
    /\ pass' = [pass EXCEPT ![i] = [pc |-> "draining", at |-> Nobody,
           seen |-> [s \in Runtimes |-> IF session[s].state \in Done THEN Nobody ELSE session[s]]]]
    /\ UNCHANGED <<rows, child, faults>>

KillRuntime(i, s) ==
    /\ pass[i].pc = "draining" /\ pass[i].at = Nobody
    /\ s \in ToDo(i)
    /\ child' = Killed(i, s, pass[i].seen[s])
    /\ pass' = [pass EXCEPT ![i].at = s]
    /\ UNCHANGED <<rows, faults>>

OwnsLive(i) == request.state = "draining" /\ request.owner = i /\ request.live

\* recoverQuarantinedForTermination, for a session read as quarantined.
MayRecover(i, s) ==
    \/ session[s].state \in Done
    \/ /\ OwnsLive(i)
       /\ session[s].state = "quarantined"
       /\ session[s].version = pass[i].seen[s].version

MayRecord(i, s) ==
    IF pass[i].seen[s].state = "quarantined" THEN MayRecover(i, s) ELSE MayProve(s)

\* The proof is recorded and the lease renewed; that it was lost is not noticed.
ProveRuntime(i) ==
    LET s == pass[i].at IN
    /\ pass[i].pc = "draining" /\ s # Nobody
    /\ Absent(i, s, pass[i].seen[s])
    /\ IF MayRecord(i, s)
       THEN /\ session' = IF session[s].state \in Done THEN session ELSE Moved(s, "drained")
            /\ pass' = [pass EXCEPT ![i] = [pc |-> "draining", at |-> Nobody,
                   seen |-> [pass[i].seen EXCEPT ![s] = Nobody]]]
       ELSE session' = session /\ Goes(i, "throw")
    /\ UNCHANGED <<request, closed, child, faults>>

RuntimeTimesOut(i) ==
    LET s == pass[i].at IN
    /\ pass[i].pc = "draining" /\ s # Nobody
    /\ Fault
    /\ session' = GivenUp(s, pass[i].seen[s])
    /\ Goes(i, "throw")
    /\ UNCHANGED <<request, closed, child>>

\* markDrained: a request another pass has proven is taken as proven.
MarkDrained(i) ==
    /\ pass[i].pc = "draining" /\ ToDo(i) = {}
    /\ CASE request.state = "drained" -> Goes(i, "terminalize") /\ UNCHANGED request
         [] OwnsLive(i) /\ AllDrained ->
                Goes(i, "terminalize") /\ request' = [request EXCEPT !.state = "drained", !.live = FALSE]
         [] OTHER -> Goes(i, "throw") /\ UNCHANGED request
    /\ UNCHANGED <<session, closed, child, faults>>

\* The run ends: what is drained is released, what is open closed.
Terminalize(i) ==
    /\ pass[i].pc = "terminalize"
    /\ CASE request.state = "terminalized" -> Rests(i) /\ UNCHANGED rows
         [] request.state = "drained" /\ AllDrained ->
                /\ request' = [request EXCEPT !.state = "terminalized"]
                /\ session' = [s \in Runtimes |->
                        IF session[s].state = "drained" THEN Moved(s, "released")[s] ELSE session[s]]
                /\ closed' = Runtimes
                /\ Rests(i)
         [] OTHER -> Goes(i, "throw") /\ UNCHANGED rows
    /\ UNCHANGED <<child, faults>>

\* A pass that threw gives the request up, whoever owns it by now.
QuarantineRequest(i) ==
    /\ pass[i].pc = "throw"
    /\ request' = IF request.state = "terminalized" THEN request
                  ELSE [request EXCEPT !.state = "quarantined", !.live = FALSE]
    /\ Rests(i)
    /\ UNCHANGED <<session, closed, child, faults>>

PassStep(i) ==
    /\ i \in up
    /\ \/ ListPending(i) \/ Claim(i) \/ ListSessions(i)
       \/ \E s \in Runtimes : KillRuntime(i, s)
       \/ ProveRuntime(i) \/ MarkDrained(i) \/ Terminalize(i) \/ QuarantineRequest(i)
    /\ UNCHANGED <<launch, handler, reconciler, up>>

-----------------------------------------------------------------------------
(* The rest *)

RequestTermination ==
    /\ Unchallenged
    /\ request' = [request EXCEPT !.state = "requested"]
    /\ UNCHANGED <<session, closed, processes, workers, up, faults>>

LeaseRunsOut ==
    /\ request.live
    /\ IF request.owner \in up THEN Fault ELSE UNCHANGED faults
    /\ request' = [request EXCEPT !.live = FALSE]
    /\ UNCHANGED <<session, closed, processes, workers, up>>

\* An instance dies with its launchers, handlers, reconciler and pass; its
\* children live on.  Another instance is left.
Crash(i) ==
    LET its(s) == OwnerOf[s] = i IN
    /\ i \in up /\ up # {i}
    /\ Fault
    /\ up' = up \ {i}
    /\ launch' = [s \in Runtimes |-> IF its(s) /\ launch[s] # "over" THEN "lost" ELSE launch[s]]
    /\ handler' = [s \in Runtimes |-> IF its(s) THEN IdleHandler ELSE handler[s]]
    /\ reconciler' = [reconciler EXCEPT ![i] = IdleReconciler]
    /\ pass' = [pass EXCEPT ![i] = IdlePass]
    /\ UNCHANGED <<rows, child>>

TimeOut ==
    \/ \E s \in Runtimes : HandlerTimesOut(s) /\ UNCHANGED <<processes, reconciler, pass, up>>
    \/ \E i \in Instances : ReconcilerTimesOut(i) /\ UNCHANGED <<launch, handler, pass, up>>
    \/ \E i \in Instances : RuntimeTimesOut(i) /\ UNCHANGED <<launch, handler, reconciler, up>>

ProcessorNext ==
    \/ \E s \in Runtimes : LaunchStep(s) \/ ChildExits(s) \/ CloseClaim(s) \/ HandlerStep(s)
    \/ \E i \in Instances :
          \/ \E s \in Runtimes : ReconcilerLists(i, s)
          \/ ReconcilerStep(i) \/ PassStep(i) \/ Crash(i)
    \/ RequestTermination \/ LeaseRunsOut \/ TimeOut

\* Whoever lives goes on, a killed process dies, a dead owner's lease runs out.
ProcessorFairness ==
    /\ \A s \in Runtimes :
          /\ WF_processorVars(LaunchStep(s))
          /\ WF_processorVars(child[s] # "alive" /\ ChildExits(s))
          /\ WF_processorVars(HandlerStep(s))
    /\ \A i \in Instances : WF_processorVars(ReconcilerStep(i)) /\ WF_processorVars(PassStep(i))
    /\ WF_processorVars(request.owner \notin up /\ LeaseRunsOut)

ProcessorSpec == ProcessorInit /\ [][ProcessorNext]_processorVars /\ ProcessorFairness

-----------------------------------------------------------------------------
(* Properties *)

\* The type invariant: a request has an owner exactly from its first claim on.
ProcessorTypeOK ==
    /\ request \in [state : {"none", "requested", "draining", "drained", "terminalized", "quarantined"},
                    owner : Instances \cup {Nobody}, live : BOOLEAN]
    /\ request.state \in {"draining", "drained", "terminalized"} => request.owner # Nobody
    /\ request.live => request.state = "draining"
    /\ session \in [Runtimes -> SessionRows]
    /\ closed \subseteq Runtimes
    /\ launch \in [Runtimes -> {"reserved", "starting", "spawned", "over", "lost"}]
    /\ child \in [Runtimes -> {"none", "alive", "dying", "taken", "dead"}]
    /\ handler \in [Runtimes -> [pc : {"none", "due", "drain", "release", "caught", "give_up"},
                                 seen : SessionRows \cup {Nobody}]]
    /\ reconciler \in [Instances -> [pc : {"idle", "ask", "drain", "release"},
                           at : Runtimes \cup {Nobody}, seen : SessionRows \cup {Nobody}]]
    /\ pass \in [Instances ->
           [pc : {"idle", "listed", "claimed", "draining", "terminalize", "throw"},
            at : Runtimes \cup {Nobody}, seen : [Runtimes -> SessionRows \cup {Nobody}]]]
    /\ up \subseteq Instances
    /\ faults \in 0..MaxFaults

\* Whoever drained a session, on whatever row it had read, no process that was
\* ever published as running outlives the run.
NothingRunsAfterTheEnd ==
    request.state = "terminalized" => \A s \in Runtimes : session[s].pid => child[s] = "dead"

\* A termination is given up for a reason: a crash, a lost lease or a drain
\* that timed out, or a session another intent released or gave up under it;
\* never over runtimes that are all drained.
QuarantineHasReason ==
    request.state = "quarantined" =>
        \/ faults > 0
        \/ \E s \in Runtimes : session[s].state \in {"released", "quarantined"}

\* A termination comes to an end, and with it the processes that were being
\* launched, unless their launcher died before it published them.
TerminationSettles ==
    request.state = "requested" ~>
        \/ request.state = "quarantined"
        \/ /\ request.state = "terminalized"
           /\ \A s \in Runtimes : \/ launch[s] = "lost"
                                  \/ launch[s] = "over" /\ ~Living(s)
=============================================================================
