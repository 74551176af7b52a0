--------------------- MODULE TerminationProcessorProofs ---------------------
(***************************************************************************)
(* No published process outlives its run, for every number of runtimes,    *)
(* instances and faults.  A drain looks for the process its row names, and *)
(* the row may have been read long ago: the argument is that a row read    *)
(* after drain_requested names the same process for ever (Keeps), that     *)
(* every row a drain goes by was read after it (HandlersFine,              *)
(* ReconcilersFine, PassesFine), and that a process that is dead stays so. *)
(*                                                                         *)
(* ReasonInv is about a termination that meets no fault: its pass owns it  *)
(* to the end, what the pass has found drained stays so, and it throws     *)
(* only over a session that an exit handler, the reconciler or a launcher  *)
(* has released or given up under it.                                      *)
(***************************************************************************)
EXTENDS TerminationProcessor, TLAPS

\* A session's row from its drain request on.
Fenced(s) == session[s].state \notin Undrained

\* A row that was read names the process the session has.
NamesItsProcess(s, seen) == Fenced(s) /\ seen.pid = session[s].pid

PublishedIsSpawned ==
    \A s \in Runtimes :
        /\ session[s].pid => launch[s] = "over" /\ child[s] # "none"
        /\ launch[s] = "spawned" => child[s] # "none"

DrainedIsDead == \A s \in Runtimes : session[s].state \in Done /\ session[s].pid => child[s] = "dead"

EndedIsReleased == request.state = "terminalized" => \A s \in Runtimes : session[s].state = "released"

\* Every field but the rows of the sessions and the memories of the workers.
TypedRest ==
    /\ request \in [state : {"none", "requested", "draining", "drained", "terminalized", "quarantined"},
                    owner : Instances \cup {Nobody}, live : BOOLEAN]
    /\ request.state \in {"draining", "drained", "terminalized"} => request.owner # Nobody
    /\ request.live => request.state = "draining"
    /\ closed \subseteq Runtimes
    /\ launch \in [Runtimes -> {"reserved", "starting", "spawned", "over", "lost"}]
    /\ child \in [Runtimes -> {"none", "alive", "dying", "taken", "dead"}]
    /\ up \subseteq Instances
    /\ faults \in 0..MaxFaults

Rows == [Runtimes -> SessionRows]

Handlers == [pc : {"none", "due", "drain", "release", "caught", "give_up"}, seen : SessionRows \cup {Nobody}]

Reconcilers == [pc : {"idle", "ask", "drain", "release"},
                at : Runtimes \cup {Nobody}, seen : SessionRows \cup {Nobody}]

Reads == [Runtimes -> SessionRows \cup {Nobody}]

Passes == [pc : {"idle", "listed", "claimed", "draining", "terminalize", "throw"},
           at : Runtimes \cup {Nobody}, seen : Reads]

HandlersFine ==
    /\ handler \in [Runtimes -> Handlers]
    /\ \A s \in Runtimes : handler[s].pc = "drain" => NamesItsProcess(s, handler[s].seen)

ReconcilersFine ==
    /\ reconciler \in [Instances -> Reconcilers]
    /\ \A i \in Instances :
          /\ reconciler[i].pc # "idle" => reconciler[i].at \in Runtimes
          /\ reconciler[i].pc = "drain" => NamesItsProcess(reconciler[i].at, reconciler[i].seen)

\* A pass that has claimed reads only rows that were asked to drain, and it
\* drains a session it has read.
PassesFine ==
    /\ pass \in [Instances -> Passes]
    /\ \A i \in Instances :
          /\ pass[i].pc = "claimed" => \A s \in Runtimes : Fenced(s)
          /\ \A s \in Runtimes : pass[i].seen[s] # Nobody => NamesItsProcess(s, pass[i].seen[s])
          /\ pass[i].at # Nobody => pass[i].seen[pass[i].at] # Nobody

ProcessorInv ==
    /\ TypedRest
    /\ session \in Rows
    /\ PublishedIsSpawned
    /\ DrainedIsDead
    /\ EndedIsReleased
    /\ HandlersFine
    /\ ReconcilersFine
    /\ PassesFine

\* What every step keeps of a runtime, whoever takes it.
Keeps(s) ==
    /\ Fenced(s) => Fenced(s)' /\ session'[s].pid = session[s].pid
    /\ session[s].state = "released" => session'[s].state = "released"
    /\ session'[s].pid =>
          \/ session[s].pid
          \/ /\ launch[s] = "spawned" /\ launch'[s] = "over" /\ child'[s] = child[s]
             /\ session'[s].state \notin Done
    /\ launch[s] = "over" => launch'[s] = "over"
    /\ launch'[s] = "spawned" => launch[s] = "spawned" \/ child'[s] # "none"
    /\ child[s] # "none" => child'[s] # "none"
    /\ child[s] = "dead" /\ launch[s] # "starting" => child'[s] = "dead"
    /\ session'[s].state \in Done =>
          \/ session[s].state \in Done
          \/ session[s].pid => ~Living(s) /\ child'[s] = child[s]

\* A step that keeps that, the types, and the end of the run.
Sound ==
    /\ TypedRest'
    /\ session' \in Rows
    /\ \A r \in Runtimes : Keeps(r)
    /\ request'.state = "terminalized" =>
          request.state = "terminalized" \/ \A r \in Runtimes : session'[r].state = "released"

States == Active \cup {"released", "quarantined"}

-----------------------------------------------------------------------------
(* Rows *)

\* A row that moves takes its new state and nothing else.
LEMMA MovedRow ==
    ASSUME session \in Rows, NEW s \in Runtimes, NEW st \in States
    PROVE  /\ Moved(s, st) \in Rows
           /\ Moved(s, st)[s].state = st
           /\ Moved(s, st)[s].pid = session[s].pid
           /\ \A r \in Runtimes \ {s} : Moved(s, st)[r] = session[r]
BY DEF Moved, Written, SessionRows, States, Active, Rows

\* A step that moves rows past the drain request only, or lets them be.
RowsKept ==
    /\ session' \in Rows
    /\ \A r \in Runtimes :
          /\ session'[r].pid = session[r].pid
          /\ Fenced(r) => Fenced(r)'
          /\ session[r].state = "released" => session'[r].state = "released"

NothingNewlyDone == \A r \in Runtimes : session'[r].state \in Done => session[r].state \in Done

\* One row that moves, seen as a step.
LEMMA RowMoved ==
    ASSUME session \in Rows, NEW s \in Runtimes, NEW st \in States \ Undrained,
           session' = Moved(s, st), st = "released" \/ session[s].state # "released"
    PROVE  /\ RowsKept
           /\ \A r \in Runtimes \ {s} : session'[r] = session[r]
           /\ session'[s].state = st
BY MovedRow DEF RowsKept, Fenced

\* No row moves.
LEMMA RowsUntouched ==
    ASSUME session \in Rows, session' = session
    PROVE  RowsKept /\ NothingNewlyDone
BY DEF RowsKept, Fenced, NothingNewlyDone

\* A row that moves short of a drain.
LEMMA RowGivenUp ==
    ASSUME session \in Rows, NEW s \in Runtimes, NEW st \in {"quarantined", "drain_requested"},
           session' = Moved(s, st), session[s].state # "released"
    PROVE  RowsKept /\ NothingNewlyDone
<1>1. st \in States \ Undrained /\ st \notin Done
    BY DEF States, Active, Undrained, Done
<1>2. QED
    BY <1>1, RowMoved DEF NothingNewlyDone

\* The operators that move one row short of a drain.
LEMMA RowOperators ==
    ASSUME session \in Rows, NEW s \in Runtimes, NEW seen,
           \/ session' = session
           \/ session' = GivenUp(s, seen)
           \/ session' = DrainRequested(s)
    PROVE  RowsKept /\ NothingNewlyDone
<1>1. CASE session' = session
    BY <1>1, RowsUntouched
<1>2. CASE session' = Moved(s, "quarantined") /\ session[s].state \in Active
    BY <1>2, RowGivenUp DEF Active
<1>3. CASE session' = Moved(s, "drain_requested") /\ session[s].state \in Undrained
    BY <1>3, RowGivenUp DEF Undrained
<1>4. QED
    BY <1>1, <1>2, <1>3 DEF GivenUp, DrainRequested

\* Rows that are kept, processes that are left alone and nothing newly drained
\* keep everything.
LEMMA QuietKeeps ==
    ASSUME RowsKept, UNCHANGED processes, NothingNewlyDone
    PROVE  \A r \in Runtimes : Keeps(r)
BY DEF RowsKept, Keeps, processes, Fenced, NothingNewlyDone

\* A row that was asked to drain.
LEMMA AskedIsFenced ==
    ASSUME session \in Rows, NEW s \in Runtimes, session' = DrainRequested(s), Keeps(s)
    PROVE  Fenced(s)'
<1>1. CASE session[s].state \in Undrained
    <2>1. "drain_requested" \in States \ Undrained
        BY DEF States, Active, Undrained
    <2>2. session' = Moved(s, "drain_requested")
        BY <1>1 DEF DrainRequested
    <2>3. session'[s].state = "drain_requested"
        BY <2>1, <2>2, MovedRow
    <2>4. QED
        BY <2>1, <2>3 DEF Fenced
<1>2. CASE session[s].state \notin Undrained
    BY <1>2 DEF Keeps, Fenced
<1>3. QED
    BY <1>1, <1>2

\* A signal kills, it never brings back.
LEMMA KilledKeeps ==
    ASSUME TypedRest, RowsKept, NothingNewlyDone, UNCHANGED launch,
           NEW i, NEW s \in Runtimes, NEW seen, child' = Killed(i, s, seen)
    PROVE  /\ \A r \in Runtimes : Keeps(r)
           /\ child' \in [Runtimes -> {"none", "alive", "dying", "taken", "dead"}]
BY DEF TypedRest, RowsKept, NothingNewlyDone, Keeps, Killed, Fenced

\* A drain is recorded: the process the session names was not seen to live.
LEMMA ProvenKeeps ==
    ASSUME session \in Rows, NEW s \in Runtimes, session[s].state # "released",
           session' \in {session, Moved(s, "drained")},
           session[s].pid => ~Living(s), UNCHANGED processes
    PROVE  session' \in Rows /\ \A r \in Runtimes : Keeps(r)
<1>1. CASE session' = session
    BY <1>1, RowsUntouched, QuietKeeps DEF RowsKept
<1>2. CASE session' = Moved(s, "drained")
    <2>1. "drained" \in States \ Undrained
        BY DEF States, Active, Undrained
    <2>2. /\ RowsKept
          /\ \A r \in Runtimes \ {s} : session'[r] = session[r]
        BY <1>2, <2>1, RowMoved
    <2>3. QED
        BY <2>2 DEF RowsKept, Keeps, processes, Fenced
<1>3. QED
    BY <1>1, <1>2

\* A drained session is released: it was done before.
LEMMA ReleasedKeeps ==
    ASSUME session \in Rows, NEW s \in Runtimes, UNCHANGED processes,
           \/ session' = session
           \/ session' = Moved(s, "released") /\ session[s].state = "drained"
    PROVE  session' \in Rows /\ \A r \in Runtimes : Keeps(r)
<1>1. CASE session' = session
    BY <1>1, RowsUntouched, QuietKeeps DEF RowsKept
<1>2. CASE session' = Moved(s, "released") /\ session[s].state = "drained"
    <2>1. "released" \in States \ Undrained
        BY DEF States, Active, Undrained
    <2>2. RowsKept /\ \A r \in Runtimes \ {s} : session'[r] = session[r]
        BY <1>2, <2>1, RowMoved
    <2>3. NothingNewlyDone
        BY <1>2, <2>2 DEF NothingNewlyDone, Done
    <2>4. QED
        BY <2>2, <2>3, QuietKeeps DEF RowsKept
<1>3. QED
    BY <1>1, <1>2

-----------------------------------------------------------------------------
(* Memories that are left alone stay fine *)

\* ... of the exit handlers.
LEMMA HandlersKept ==
    ASSUME HandlersFine, UNCHANGED handler, \A r \in Runtimes : Keeps(r)
    PROVE  HandlersFine'
BY DEF HandlersFine, Keeps, NamesItsProcess, Fenced

\* The same of the reconcilers.
LEMMA ReconcilersKept ==
    ASSUME ReconcilersFine, UNCHANGED reconciler, \A r \in Runtimes : Keeps(r)
    PROVE  ReconcilersFine'
BY DEF ReconcilersFine, Keeps, NamesItsProcess, Fenced

\* The same of the passes.
LEMMA PassesKept ==
    ASSUME PassesFine, UNCHANGED pass, \A r \in Runtimes : Keeps(r)
    PROVE  PassesFine'
BY DEF PassesFine, Keeps, NamesItsProcess, Fenced

\* A sound step that leaves the memories fine keeps the invariant.
LEMMA SoundKeeps ==
    ASSUME ProcessorInv, Sound, HandlersFine', ReconcilersFine', PassesFine'
    PROVE  ProcessorInv'
<1>1. PublishedIsSpawned'
    BY DEF ProcessorInv, PublishedIsSpawned, Sound, Keeps
<1>2. DrainedIsDead'
    <2>1. SUFFICES ASSUME NEW s \in Runtimes, session'[s].state \in Done, session'[s].pid
                   PROVE  child'[s] = "dead"
        BY DEF DrainedIsDead
    <2>2. Keeps(s) /\ session[s].pid /\ launch[s] = "over" /\ child[s] # "none"
        BY <2>1 DEF ProcessorInv, PublishedIsSpawned, Sound, Keeps
    <2>3. CASE session[s].state \in Done
        BY <2>2, <2>3 DEF ProcessorInv, DrainedIsDead, Keeps
    <2>4. CASE session[s].state \notin Done
        <3>1. ~Living(s) /\ child'[s] = child[s]
            BY <2>1, <2>2, <2>4 DEF Keeps
        <3>2. QED
            BY <2>2, <3>1 DEF Living, ProcessorInv, TypedRest
    <2>5. QED
        BY <2>3, <2>4
<1>3. EndedIsReleased'
    BY DEF ProcessorInv, EndedIsReleased, Sound, Keeps
<1>4. QED
    BY <1>1, <1>2, <1>3 DEF ProcessorInv, Sound

-----------------------------------------------------------------------------
(* The launcher, the process and its claim *)

\* Every step of a launcher; markRunning alone stores a process, which is there.
LEMMA LauncherSound ==
    ASSUME ProcessorInv, NEW s \in Runtimes, LaunchStep(s)
    PROVE  Sound /\ UNCHANGED workers
<1> USE DEF ProcessorInv
<1>a. {"starting", "running", "quarantined"} \subseteq States
    BY DEF States, Active
<1>1. CASE MarkStarting(s)
    <2>1. \A r \in Runtimes \ {s} : session'[r] = session[r]
        BY <1>1, <1>a, MovedRow DEF MarkStarting
    <2>2. /\ session' \in Rows /\ ~Fenced(s)
          /\ session'[s].state = "starting" /\ session'[s].pid = session[s].pid
        BY <1>1, <1>a, MovedRow DEF MarkStarting, Fenced, Undrained
    <2>3. \A r \in Runtimes : Keeps(r)
        BY <1>1, <2>1, <2>2 DEF MarkStarting, Keeps, Fenced, Done, TypedRest
    <2>4. QED
        BY <1>1, <2>2, <2>3 DEF MarkStarting, Sound, TypedRest
<1>2. CASE StartBlocked(s)
    <2>1. RowsKept /\ NothingNewlyDone
        <3>1. CASE session' = session
            BY <3>1, RowsUntouched
        <3>2. CASE session' = Moved(s, "quarantined") /\ session[s].state = "reserved"
            BY <3>2, RowGivenUp
        <3>3. QED
            BY <1>2, <3>1, <3>2 DEF StartBlocked
    <2>2. \A r \in Runtimes : Keeps(r)
        BY <1>2, <2>1 DEF StartBlocked, RowsKept, NothingNewlyDone, Keeps, Fenced, TypedRest
    <2>3. QED
        BY <1>2, <2>1, <2>2 DEF StartBlocked, Sound, TypedRest, RowsKept
<1>3. CASE Spawn(s)
    <2>1. \A r \in Runtimes : Keeps(r)
        BY <1>3 DEF Spawn, Keeps, Fenced, rows, TypedRest
    <2>2. QED
        BY <1>3, <2>1 DEF Spawn, Sound, TypedRest, rows
<1>4. CASE MarkRunning(s)
    <2>1. /\ session' \in Rows /\ session'[s].state = "running" /\ ~Fenced(s)
          /\ \A r \in Runtimes \ {s} : session'[r] = session[r]
        BY <1>4 DEF MarkRunning, Written, SessionRows, Active, Fenced, Undrained, Rows
    <2>2. \A r \in Runtimes : Keeps(r)
        BY <1>4, <2>1 DEF MarkRunning, Keeps, Fenced, Done, TypedRest
    <2>3. QED
        BY <1>4, <2>1, <2>2 DEF MarkRunning, Sound, TypedRest
<1>5. CASE RunningRefused(s)
    <2>1. RowsKept /\ NothingNewlyDone
        <3>1. CASE session' = session
            BY <3>1, RowsUntouched
        <3>2. CASE session' = Moved(s, "quarantined") /\ session[s].state = "starting"
            BY <3>2, RowGivenUp
        <3>3. QED
            BY <1>5, <3>1, <3>2 DEF RunningRefused
    <2>2. \A r \in Runtimes : Keeps(r)
        BY <1>5, <2>1 DEF RunningRefused, KillOwnChild, RowsKept, NothingNewlyDone, Keeps, Fenced, TypedRest
    <2>3. QED
        BY <1>5, <2>1, <2>2 DEF RunningRefused, KillOwnChild, Sound, TypedRest, RowsKept
<1>6. QED
    BY <1>1, <1>2, <1>3, <1>4, <1>5 DEF LaunchStep

\* Steps that leave rows and processes alone.
LEMMA AloneSound ==
    ASSUME ProcessorInv, UNCHANGED <<session, processes>>,
           TypedRest', request'.state = "terminalized" => request.state = "terminalized"
    PROVE  Sound
BY RowsUntouched, QuietKeeps DEF ProcessorInv, Sound, RowsKept

\* A process ends, and may leave its handler to do.
LEMMA ExitKeeps ==
    ASSUME ProcessorInv, NEW s \in Runtimes, ChildExits(s)
    PROVE  ProcessorInv'
<1> USE DEF ProcessorInv
<1>1. \A r \in Runtimes : Keeps(r)
    BY DEF ChildExits, Keeps, Fenced, rows, TypedRest
<1>2. Sound
    BY <1>1 DEF ChildExits, Sound, TypedRest, rows
<1>3. HandlersFine'
    <2>1. CASE handler' = handler
        BY <1>1, <2>1, HandlersKept
    <2>2. CASE handler' = [handler EXCEPT ![s].pc = "due"]
        BY <1>1, <2>2 DEF HandlersFine, Handlers, Keeps, NamesItsProcess, Fenced
    <2>3. QED
        BY <2>1, <2>2 DEF ChildExits
<1>4. QED
    BY <1>1, <1>2, <1>3, ReconcilersKept, PassesKept, SoundKeeps DEF ChildExits

\* Nobody's memory is touched.
LEMMA BystandersKeep ==
    ASSUME ProcessorInv, Sound, UNCHANGED workers
    PROVE  ProcessorInv'
BY HandlersKept, ReconcilersKept, PassesKept, SoundKeeps DEF ProcessorInv, Sound, workers

\* Steps on the request or a claim only.
LEMMA RestKeeps ==
    ASSUME ProcessorInv,
           \/ \E s \in Runtimes : CloseClaim(s)
           \/ RequestTermination
           \/ LeaseRunsOut
    PROVE  ProcessorInv'
<1>1. /\ UNCHANGED <<session, processes, workers>>
      /\ TypedRest'
      /\ request'.state = "terminalized" => request.state = "terminalized"
    <2> USE DEF ProcessorInv, TypedRest
    <2>1. ASSUME NEW s \in Runtimes, CloseClaim(s)
          PROVE  UNCHANGED <<request, session, processes, workers, up, faults>> /\ closed' \subseteq Runtimes
        BY <2>1 DEF CloseClaim
    <2>2. CASE RequestTermination
        BY <2>2 DEF RequestTermination, Unchallenged, processes
    <2>3. CASE LeaseRunsOut
        <3>1. faults' \in 0..MaxFaults
            BY <2>3, ProcessorAssumption DEF LeaseRunsOut, Fault
        <3>2. /\ request' \in [state : {"none", "requested", "draining", "drained", "terminalized", "quarantined"},
                               owner : Instances \cup {Nobody}, live : BOOLEAN]
              /\ request'.state = request.state /\ request'.owner = request.owner /\ request'.live = FALSE
            BY <2>3 DEF LeaseRunsOut
        <3>3. QED
            BY <2>3, <3>1, <3>2 DEF LeaseRunsOut, processes
    <2>4. QED
        BY <2>1, <2>2, <2>3 DEF processes
<1>2. QED
    BY <1>1, AloneSound, BystandersKeep

\* An instance dies and what it remembered with it.
LEMMA CrashKeeps ==
    ASSUME ProcessorInv, NEW i \in Instances, Crash(i)
    PROVE  ProcessorInv'
<1> USE DEF ProcessorInv
<1>1. \A r \in Runtimes : Keeps(r)
    BY DEF Crash, Keeps, Fenced, rows, TypedRest
<1>2. Sound
    BY <1>1, ProcessorAssumption DEF Crash, Sound, TypedRest, rows, Fault
<1>3. HandlersFine'
    BY <1>1 DEF Crash, HandlersFine, Handlers, IdleHandler, Keeps, NamesItsProcess, Fenced
<1>4. ReconcilersFine'
    BY <1>1 DEF Crash, ReconcilersFine, Reconcilers, IdleReconciler, Keeps, NamesItsProcess, Fenced
<1>5. PassesFine'
    BY <1>1 DEF Crash, PassesFine, Passes, Reads, IdlePass, Keeps, NamesItsProcess, Fenced
<1>6. QED
    BY <1>2, <1>3, <1>4, <1>5, SoundKeeps

-----------------------------------------------------------------------------
(* The exit handler *)

\* What a handler may turn to.
LEMMA HandlerMayGo ==
    ASSUME HandlersFine, session' \in Rows, \A r \in Runtimes : Keeps(r),
           NEW s \in Runtimes,
           NEW pc \in {"none", "due", "drain", "release", "caught", "give_up"},
           NEW seen \in SessionRows \cup {Nobody},
           HandlerGoes(s, pc, seen),
           pc = "drain" => seen = session'[s] /\ Fenced(s)'
    PROVE  HandlersFine'
BY DEF HandlersFine, Handlers, HandlerGoes, Keeps, NamesItsProcess, Fenced

\* Every step of a handler; it drains by the row its own request returned.
LEMMA HandlerKeeps ==
    ASSUME ProcessorInv, NEW s \in Runtimes, HandlerStep(s) \/ HandlerTimesOut(s),
           UNCHANGED <<processes, reconciler, pass, up>>
    PROVE  ProcessorInv'
<1> USE DEF ProcessorInv
<1>s. session[s] \in SessionRows
    BY DEF Rows
<1>1. SUFFICES Sound /\ HandlersFine'
    BY ReconcilersKept, PassesKept, SoundKeeps DEF Sound
<1>2. SUFFICES /\ TypedRest' /\ session' \in Rows /\ request' = request
               /\ \A r \in Runtimes : Keeps(r)
               /\ HandlersFine'
    BY DEF Sound
<1>3. TypedRest' /\ request' = request
    BY ProcessorAssumption
       DEF HandlerStep, HandlerAsks, HandlerProves, HandlerTimesOut, HandlerReleases, HandlerCatches,
           HandlerGivesUp, TypedRest, Fault, rows, processes
<1>4. CASE HandlerAsks(s)
    <2>1. RowsKept /\ NothingNewlyDone
        BY <1>4, RowOperators DEF HandlerAsks
    <2>2. \A r \in Runtimes : Keeps(r)
        BY <2>1, QuietKeeps
    <2>3. session' \in Rows
        BY <2>1 DEF RowsKept
    <2>4. HandlersFine'
        <3>1. CASE session[s].state \in Done
            BY <1>4, <2>2, <2>3, <3>1, HandlerMayGo DEF HandlerAsks
        <3>2. CASE session[s].state = "quarantined"
            BY <1>4, <2>2, <2>3, <3>2, HandlerMayGo DEF HandlerAsks, Done
        <3>3. CASE session[s].state \notin Done \cup {"quarantined"}
            <4>1. Fenced(s)'
                BY <1>4, <2>2, <3>3, AskedIsFenced DEF HandlerAsks
            <4>2. HandlerGoes(s, "drain", session'[s])
                BY <1>4, <3>3 DEF HandlerAsks
            <4>3. session'[s] \in SessionRows
                BY <2>3 DEF Rows
            <4>4. QED
                BY <2>2, <2>3, <4>1, <4>2, <4>3, HandlerMayGo
        <3>4. QED
            BY <3>1, <3>2, <3>3
    <2>5. QED
        BY <1>3, <2>2, <2>3, <2>4
<1>5. CASE HandlerProves(s)
    <2>1. /\ session[s].state # "released" \/ session' = session
          /\ session' \in {session, Moved(s, "drained")}
          /\ session[s].pid => ~Living(s)
        BY <1>5 DEF HandlerProves, HandlersFine, MayProve, Proven, Absent, NamesItsProcess
    <2>2. session' \in Rows /\ \A r \in Runtimes : Keeps(r)
        BY <2>1, ProvenKeeps, RowsUntouched, QuietKeeps DEF RowsKept
    <2>3. HandlersFine'
        BY <1>5, <2>2, HandlerMayGo DEF HandlerProves
    <2>4. QED
        BY <1>3, <2>2, <2>3
<1>6. CASE HandlerTimesOut(s) \/ HandlerGivesUp(s)
    <2>1. RowsKept /\ NothingNewlyDone
        BY <1>6, RowOperators DEF HandlerTimesOut, HandlerGivesUp
    <2>2. session' \in Rows /\ \A r \in Runtimes : Keeps(r)
        BY <2>1, QuietKeeps DEF RowsKept
    <2>3. HandlersFine'
        BY <1>6, <2>2, HandlerMayGo DEF HandlerTimesOut, HandlerGivesUp
    <2>4. QED
        BY <1>3, <2>2, <2>3
<1>7. CASE HandlerReleases(s)
    <2>1. session' \in Rows /\ \A r \in Runtimes : Keeps(r)
        BY <1>7, ReleasedKeeps DEF HandlerReleases
    <2>2. HandlersFine'
        BY <1>7, <2>1, HandlerMayGo DEF HandlerReleases
    <2>3. QED
        BY <1>3, <2>1, <2>2
<1>8. CASE HandlerCatches(s)
    <2>1. session' \in Rows /\ \A r \in Runtimes : Keeps(r)
        BY <1>8, RowsUntouched, QuietKeeps DEF HandlerCatches, RowsKept, rows
    <2>2. HandlersFine'
        BY <1>8, <1>s, <2>1, HandlerMayGo DEF HandlerCatches
    <2>3. QED
        BY <1>3, <2>1, <2>2
<1>9. QED
    BY <1>4, <1>5, <1>6, <1>7, <1>8 DEF HandlerStep

-----------------------------------------------------------------------------
(* The reconciler *)

\* What a reconciler may turn to.
LEMMA ReconcilerMayGo ==
    ASSUME ReconcilersFine, \A r \in Runtimes : Keeps(r),
           NEW i \in Instances, NEW s \in Runtimes,
           NEW pc \in {"idle", "ask", "drain", "release"},
           NEW seen \in SessionRows \cup {Nobody},
           ReconcilerGoes(i, pc, s, seen),
           pc = "drain" => seen = session'[s] /\ Fenced(s)'
    PROVE  ReconcilersFine'
BY DEF ReconcilersFine, Reconcilers, ReconcilerGoes, Keeps, NamesItsProcess, Fenced

\* It may rest at any time.
LEMMA ReconcilerMayRest ==
    ASSUME ReconcilersFine, \A r \in Runtimes : Keeps(r), NEW i \in Instances, ReconcilerRests(i)
    PROVE  ReconcilersFine'
BY DEF ReconcilersFine, Reconcilers, ReconcilerRests, IdleReconciler, Keeps, NamesItsProcess, Fenced

\* Listing changes nothing but the memory.
LEMMA ReconcilerListsKeeps ==
    ASSUME ProcessorInv, NEW i \in Instances, NEW s \in Runtimes, ReconcilerLists(i, s)
    PROVE  ProcessorInv'
<1> USE DEF ProcessorInv
<1>1. Sound
    BY AloneSound DEF ReconcilerLists, TypedRest, rows, processes
<1>2. ReconcilersFine'
    BY <1>1, ReconcilerMayGo DEF ReconcilerLists, Sound
<1>3. QED
    BY <1>1, <1>2, HandlersKept, PassesKept, SoundKeeps DEF ReconcilerLists, Sound

\* Every other step of a reconciler.
LEMMA ReconcilerKeeps ==
    ASSUME ProcessorInv, NEW i \in Instances, ReconcilerStep(i) \/ ReconcilerTimesOut(i),
           UNCHANGED <<launch, handler, pass, up>>
    PROVE  ProcessorInv'
<1> USE DEF ProcessorInv
<1>r. PICK s \in Runtimes : s = reconciler[i].at
    BY DEF ReconcilersFine, ReconcilerStep, ReconcilerAsks, ReconcilerProves, ReconcilerReleases,
           ReconcilerTimesOut
<1>1. SUFFICES /\ child' \in [Runtimes -> {"none", "alive", "dying", "taken", "dead"}]
               /\ session' \in Rows
               /\ \A r \in Runtimes : Keeps(r)
               /\ ReconcilersFine'
    <2>1. request' = request /\ closed' = closed /\ faults' \in 0..MaxFaults
        BY ProcessorAssumption
           DEF ReconcilerStep, ReconcilerAsks, ReconcilerProves, ReconcilerReleases, ReconcilerTimesOut,
               TypedRest, Fault
    <2>2. Sound
        BY <2>1 DEF Sound, TypedRest
    <2>3. QED
        BY <2>2, HandlersKept, PassesKept, SoundKeeps
<1>2. CASE ReconcilerAsks(i)
    <2>1. RowsKept /\ NothingNewlyDone
        BY <1>2, <1>r, RowOperators DEF ReconcilerAsks
    <2>2. session' \in Rows /\ session'[s] \in SessionRows
        BY <2>1 DEF RowsKept, Rows
    <2>3. CASE session[s].state \in Done \cup {"quarantined"}
        <3>1. child' = child
            BY <1>2, <1>r, <2>3 DEF ReconcilerAsks, Done
        <3>2. \A r \in Runtimes : Keeps(r)
            BY <2>1, <3>1, QuietKeeps DEF processes
        <3>3. ReconcilerGoes(i, "release", s, Nobody) \/ ReconcilerRests(i)
            BY <1>2, <1>r, <2>3 DEF ReconcilerAsks, Done
        <3>4. ReconcilersFine'
            BY <3>2, <3>3, ReconcilerMayGo, ReconcilerMayRest
        <3>5. QED
            BY <2>2, <3>1, <3>2, <3>4 DEF TypedRest
    <2>4. CASE session[s].state \notin Done \cup {"quarantined"}
        <3>1. /\ child' = Killed(i, s, session'[s])
              /\ ReconcilerGoes(i, "drain", s, session'[s])
              /\ session' = DrainRequested(s)
            BY <1>2, <1>r, <2>4 DEF ReconcilerAsks, Done
        <3>2. /\ \A r \in Runtimes : Keeps(r)
              /\ child' \in [Runtimes -> {"none", "alive", "dying", "taken", "dead"}]
            BY <2>1, <3>1, KilledKeeps
        <3>3. Fenced(s)'
            BY <3>1, <3>2, AskedIsFenced
        <3>4. ReconcilersFine'
            BY <2>2, <3>1, <3>2, <3>3, ReconcilerMayGo
        <3>5. QED
            BY <2>2, <3>2, <3>4
    <2>5. QED
        BY <2>3, <2>4
<1>3. CASE ReconcilerProves(i)
    <2>1. /\ session[s].state # "released" \/ session' = session
          /\ session' \in {session, Moved(s, "drained")}
          /\ session[s].pid => ~Living(s)
          /\ UNCHANGED processes
        BY <1>3, <1>r DEF ReconcilerProves, ReconcilersFine, MayProve, Proven, Absent, NamesItsProcess,
                          processes
    <2>2. session' \in Rows /\ \A r \in Runtimes : Keeps(r)
        BY <2>1, ProvenKeeps, RowsUntouched, QuietKeeps DEF RowsKept
    <2>3. ReconcilerGoes(i, "release", s, Nobody) \/ ReconcilerRests(i)
        BY <1>3, <1>r DEF ReconcilerProves
    <2>4. ReconcilersFine'
        BY <2>2, <2>3, ReconcilerMayGo, ReconcilerMayRest
    <2>5. QED
        BY <2>1, <2>2, <2>4 DEF processes, TypedRest
<1>4. CASE ReconcilerTimesOut(i)
    <2>1. RowsKept /\ NothingNewlyDone /\ UNCHANGED processes
        BY <1>4, <1>r, RowOperators DEF ReconcilerTimesOut, processes
    <2>2. session' \in Rows /\ \A r \in Runtimes : Keeps(r)
        BY <2>1, QuietKeeps DEF RowsKept
    <2>3. ReconcilersFine'
        BY <1>4, <2>2, ReconcilerMayRest DEF ReconcilerTimesOut
    <2>4. QED
        BY <2>1, <2>2, <2>3 DEF processes, TypedRest
<1>5. CASE ReconcilerReleases(i)
    <2>1. UNCHANGED processes
        BY <1>5 DEF ReconcilerReleases, processes
    <2>2. session' \in Rows /\ \A r \in Runtimes : Keeps(r)
        BY <1>5, <1>r, <2>1, ReleasedKeeps DEF ReconcilerReleases
    <2>3. ReconcilersFine'
        BY <1>5, <2>2, ReconcilerMayRest DEF ReconcilerReleases
    <2>4. QED
        BY <2>1, <2>2, <2>3 DEF processes, TypedRest
<1>6. QED
    BY <1>2, <1>3, <1>4, <1>5 DEF ReconcilerStep

-----------------------------------------------------------------------------
(* The pass *)

\* What a pass may turn to with nothing remembered.
LEMMA PassMayGo ==
    ASSUME PassesFine, \A r \in Runtimes : Keeps(r), NEW i \in Instances,
           NEW pc \in {"idle", "listed", "claimed", "draining", "terminalize", "throw"},
           Goes(i, pc),
           pc = "claimed" => \A s \in Runtimes : Fenced(s)'
    PROVE  PassesFine'
BY DEF PassesFine, Passes, Reads, Goes, IdlePass, Keeps, NamesItsProcess, Fenced

\* A pass that records, of a session it is done with, nothing any more.
LEMMA PassMayDrain ==
    ASSUME PassesFine, \A r \in Runtimes : Keeps(r), NEW i \in Instances,
           NEW at \in Runtimes \cup {Nobody}, NEW seen \in Reads,
           pass' = [pass EXCEPT ![i] = [pc |-> "draining", at |-> at, seen |-> seen]],
           \A s \in Runtimes : seen[s] \in {Nobody, pass[i].seen[s]},
           at # Nobody => seen[at] # Nobody
    PROVE  PassesFine'
BY DEF PassesFine, Passes, Reads, Keeps, NamesItsProcess, Fenced

\* Steps of a pass that move no row and no process.
LEMMA PassLooks ==
    ASSUME ProcessorInv, NEW i \in Instances, ListPending(i) \/ ListSessions(i),
           UNCHANGED <<launch, handler, reconciler, up>>
    PROVE  ProcessorInv'
<1> USE DEF ProcessorInv
<1>1. Sound
    BY AloneSound DEF ListPending, ListSessions, TypedRest, rows, processes
<1>2. PassesFine'
    <2>1. CASE ListPending(i)
        BY <1>1, <2>1, PassMayGo DEF ListPending, Sound
    <2>2. CASE ListSessions(i)
        <3> DEFINE seen == [s \in Runtimes |-> IF session[s].state \in Done THEN Nobody ELSE session[s]]
        <3>1. pass' = [pass EXCEPT ![i] = [pc |-> "draining", at |-> Nobody, seen |-> seen]]
            BY <2>2 DEF ListSessions
        <3>2. seen \in Reads
            BY DEF Reads, Rows
        <3>3. UNCHANGED session /\ \A s \in Runtimes : Fenced(s)
            BY <2>2 DEF ListSessions, PassesFine, rows
        <3>4. \A s \in Runtimes : seen[s] \in {Nobody, session[s]}
            OBVIOUS
        <3> HIDE DEF seen
        <3>5. QED
            BY <3>1, <3>2, <3>3, <3>4 DEF PassesFine, Passes, NamesItsProcess, Fenced
    <2>3. QED
        BY <2>1, <2>2
<1>3. QED
    BY <1>1, <1>2, HandlersKept, ReconcilersKept, SoundKeeps DEF Sound

\* The claim asks every session to drain.
LEMMA PassClaims ==
    ASSUME ProcessorInv, NEW i \in Instances, Claim(i), UNCHANGED <<launch, handler, reconciler, up>>
    PROVE  ProcessorInv'
<1> USE DEF ProcessorInv
<1>1. CASE Claimable
    <2>1. /\ request' = Owned(i) /\ closed' = closed /\ faults' = faults
          /\ session' = [s \in Runtimes |-> DrainRequested(s)[s]]
          /\ UNCHANGED processes /\ Goes(i, "claimed")
        BY <1>1 DEF Claim, processes
    <2>2. ASSUME NEW s \in Runtimes
          PROVE  /\ session'[s] \in SessionRows /\ Fenced(s)'
                 /\ session'[s].pid = session[s].pid
                 /\ session[s].state \notin Undrained => session'[s] = session[s]
                 /\ session[s].state \in Undrained => session'[s].state = "drain_requested"
        <3>1. "drain_requested" \in States \ Undrained
            BY DEF States, Active, Undrained
        <3>2. session'[s] = DrainRequested(s)[s]
            BY <2>1
        <3>3. CASE session[s].state \in Undrained
            BY <3>1, <3>2, <3>3, MovedRow DEF DrainRequested, Fenced, Rows
        <3>4. CASE session[s].state \notin Undrained
            BY <3>2, <3>4 DEF DrainRequested, Fenced, Rows
        <3>5. QED
            BY <3>3, <3>4
    <2>3. session' \in Rows
        BY <2>1, <2>2 DEF Rows
    <2>4. RowsKept /\ NothingNewlyDone
        BY <2>2, <2>3 DEF RowsKept, NothingNewlyDone, Fenced, Done, Undrained
    <2>5. \A r \in Runtimes : Keeps(r)
        BY <2>1, <2>4, QuietKeeps
    <2>6. Sound
        BY <2>1, <2>3, <2>5, ProcessorAssumption DEF Sound, TypedRest, Owned, processes
    <2>7. PassesFine'
        BY <2>1, <2>2, <2>5, PassMayGo
    <2>8. QED
        BY <2>5, <2>6, <2>7, HandlersKept, ReconcilersKept, SoundKeeps
<1>2. CASE ~Claimable
    <2>1. Sound
        BY <1>2, AloneSound DEF Claim, TypedRest, processes
    <2>2. PassesFine'
        BY <1>2, <2>1, PassMayGo DEF Claim, Rests, Sound
    <2>3. QED
        BY <2>1, <2>2, HandlersKept, ReconcilersKept, SoundKeeps DEF Sound
<1>3. QED
    BY <1>1, <1>2

\* A pass signals the process its row names.
LEMMA PassKills ==
    ASSUME ProcessorInv, NEW i \in Instances, NEW s \in Runtimes, KillRuntime(i, s),
           UNCHANGED <<launch, handler, reconciler, up>>
    PROVE  ProcessorInv'
<1> USE DEF ProcessorInv
<1>1. RowsKept /\ NothingNewlyDone
    BY RowsUntouched DEF KillRuntime, rows
<1>2. /\ \A r \in Runtimes : Keeps(r)
      /\ child' \in [Runtimes -> {"none", "alive", "dying", "taken", "dead"}]
    BY <1>1, KilledKeeps DEF KillRuntime
<1>3. Sound
    BY <1>1, <1>2 DEF KillRuntime, Sound, TypedRest, RowsKept, rows
<1>4. PassesFine'
    BY <1>2 DEF KillRuntime, ToDo, PassesFine, Passes, Reads, Keeps, NamesItsProcess, Fenced
<1>5. QED
    BY <1>2, <1>3, <1>4, HandlersKept, ReconcilersKept, SoundKeeps

\* A proof is recorded by a row read after the claim.
LEMMA PassProves ==
    ASSUME ProcessorInv, NEW i \in Instances, ProveRuntime(i),
           UNCHANGED <<launch, handler, reconciler, up>>
    PROVE  ProcessorInv'
<1> USE DEF ProcessorInv
<1>r. PICK s \in Runtimes : s = pass[i].at /\ s # Nobody
    BY DEF ProveRuntime, PassesFine, Passes
<1>1. pass[i].seen[s] # Nobody /\ NamesItsProcess(s, pass[i].seen[s])
    BY <1>r DEF PassesFine
<1>2. /\ session[s].state # "released" \/ session' = session
      /\ session' \in {session, Moved(s, "drained")}
      /\ session[s].pid => ~Living(s)
      /\ UNCHANGED processes
    BY <1>r, <1>1 DEF ProveRuntime, Absent, NamesItsProcess, Done, processes
<1>3. session' \in Rows /\ \A r \in Runtimes : Keeps(r)
    BY <1>2, ProvenKeeps, RowsUntouched, QuietKeeps DEF RowsKept
<1>4. Sound
    BY <1>3 DEF ProveRuntime, Sound, TypedRest
<1>5. PassesFine'
    <2>1. CASE MayRecord(i, s)
        <3> DEFINE seen == [pass[i].seen EXCEPT ![s] = Nobody]
        <3>1. pass' = [pass EXCEPT ![i] = [pc |-> "draining", at |-> Nobody, seen |-> seen]]
            BY <1>r, <2>1 DEF ProveRuntime
        <3>2. seen \in Reads /\ \A r \in Runtimes : seen[r] \in {Nobody, pass[i].seen[r]}
            BY DEF PassesFine, Passes, Reads
        <3> HIDE DEF seen
        <3>3. QED
            BY <1>3, <3>1, <3>2, PassMayDrain
    <2>2. CASE ~MayRecord(i, s)
        BY <1>r, <1>3, <2>2, PassMayGo DEF ProveRuntime
    <2>3. QED
        BY <2>1, <2>2
<1>6. QED
    BY <1>3, <1>4, <1>5, HandlersKept, ReconcilersKept, SoundKeeps

\* A drain that times out.
LEMMA PassTimesOut ==
    ASSUME ProcessorInv, NEW i \in Instances, RuntimeTimesOut(i),
           UNCHANGED <<launch, handler, reconciler, up>>
    PROVE  ProcessorInv'
<1> USE DEF ProcessorInv
<1>r. PICK s \in Runtimes : s = pass[i].at
    BY DEF RuntimeTimesOut, PassesFine, Passes
<1>1. RowsKept /\ NothingNewlyDone /\ UNCHANGED processes
    BY <1>r, RowOperators DEF RuntimeTimesOut, processes
<1>2. \A r \in Runtimes : Keeps(r)
    BY <1>1, QuietKeeps
<1>3. Sound
    BY <1>1, <1>2, ProcessorAssumption DEF RuntimeTimesOut, Sound, TypedRest, RowsKept, Fault
<1>4. PassesFine'
    BY <1>2, PassMayGo DEF RuntimeTimesOut
<1>5. QED
    BY <1>2, <1>3, <1>4, HandlersKept, ReconcilersKept, SoundKeeps

\* Steps of a pass that settle the request and leave the sessions alone.
LEMMA PassSettles ==
    ASSUME ProcessorInv, NEW i \in Instances, MarkDrained(i) \/ QuarantineRequest(i),
           UNCHANGED <<launch, handler, reconciler, up>>
    PROVE  ProcessorInv'
<1> USE DEF ProcessorInv
<1>1. UNCHANGED <<session, processes>>
    BY DEF MarkDrained, QuarantineRequest, processes
<1>2. TypedRest' /\ (request'.state = "terminalized" => request.state = "terminalized")
    BY DEF MarkDrained, QuarantineRequest, TypedRest, OwnsLive
<1>3. Sound
    BY <1>1, <1>2, AloneSound
<1>4. Goes(i, "terminalize") \/ Goes(i, "throw") \/ Goes(i, "idle")
    BY DEF MarkDrained, QuarantineRequest, Rests
<1>5. PassesFine'
    BY <1>3, <1>4, PassMayGo DEF Sound
<1>6. QED
    BY <1>3, <1>5, HandlersKept, ReconcilersKept, SoundKeeps DEF Sound

\* The end of the run releases every session.
LEMMA PassEnds ==
    ASSUME ProcessorInv, NEW i \in Instances, Terminalize(i),
           UNCHANGED <<launch, handler, reconciler, up>>
    PROVE  ProcessorInv'
<1> USE DEF ProcessorInv
<1>1. CASE UNCHANGED rows
    <2>1. Sound
        BY <1>1, AloneSound DEF Terminalize, TypedRest, rows, processes
    <2>2. Goes(i, "idle") \/ Goes(i, "throw")
        BY DEF Terminalize, Rests
    <2>3. PassesFine'
        BY <2>1, <2>2, PassMayGo DEF Sound
    <2>4. QED
        BY <2>1, <2>3, HandlersKept, ReconcilersKept, SoundKeeps DEF Sound
<1>2. CASE ~UNCHANGED rows
    <2>1. /\ request.state = "drained" /\ AllDrained
          /\ request' = [request EXCEPT !.state = "terminalized"]
          /\ session' = [s \in Runtimes |->
                 IF session[s].state = "drained" THEN Moved(s, "released")[s] ELSE session[s]]
          /\ closed' = Runtimes /\ Goes(i, "idle") /\ UNCHANGED processes /\ faults' = faults
        BY <1>2 DEF Terminalize, Rests, processes
    <2>2. ASSUME NEW s \in Runtimes
          PROVE  /\ session'[s] \in SessionRows /\ session'[s].state = "released"
                 /\ session'[s].pid = session[s].pid /\ session[s].state \in Done
        <3>1. "released" \in States
            BY DEF States
        <3>2. session[s].state \in Done
            BY <2>1 DEF AllDrained
        <3>3. session'[s] = IF session[s].state = "drained" THEN Moved(s, "released")[s] ELSE session[s]
            BY <2>1
        <3>4. QED
            BY <3>1, <3>2, <3>3, MovedRow DEF Done, Rows
    <2>3. session' \in Rows
        BY <2>1, <2>2 DEF Rows
    <2>4. RowsKept /\ NothingNewlyDone
        BY <2>2, <2>3 DEF RowsKept, NothingNewlyDone, Fenced, Undrained
    <2>5. \A r \in Runtimes : Keeps(r)
        BY <2>1, <2>4, QuietKeeps
    <2>6. Sound
        BY <2>1, <2>2, <2>3, <2>5 DEF Sound, TypedRest, processes
    <2>7. PassesFine'
        BY <2>1, <2>5, PassMayGo
    <2>8. QED
        BY <2>5, <2>6, <2>7, HandlersKept, ReconcilersKept, SoundKeeps
<1>3. QED
    BY <1>1, <1>2

-----------------------------------------------------------------------------
(* The theorems *)

\* Nothing has been read and nothing runs.
LEMMA ProcessorInitially == ProcessorInit => ProcessorInv
<1> SUFFICES ASSUME ProcessorInit PROVE ProcessorInv
    OBVIOUS
<1> USE DEF ProcessorInit
<1>1. session \in Rows
    BY DEF Rows, SessionRows, Active
<1>2. TypedRest
    BY ProcessorAssumption DEF TypedRest
<1>3. PublishedIsSpawned /\ DrainedIsDead /\ EndedIsReleased
    BY DEF PublishedIsSpawned, DrainedIsDead, EndedIsReleased
<1>4. HandlersFine /\ ReconcilersFine
    BY DEF HandlersFine, Handlers, IdleHandler, ReconcilersFine, Reconcilers, IdleReconciler
<1>5. PassesFine
    BY DEF PassesFine, Passes, Reads, IdlePass
<1>6. QED
    BY <1>1, <1>2, <1>3, <1>4, <1>5 DEF ProcessorInv

\* Every step keeps the invariant.
LEMMA ProcessorStepKeeps ==
    ProcessorInv /\ [ProcessorNext]_processorVars => ProcessorInv'
<1> SUFFICES ASSUME ProcessorInv, [ProcessorNext]_processorVars PROVE ProcessorInv'
    OBVIOUS
<1>1. ASSUME NEW s \in Runtimes, LaunchStep(s)
      PROVE  ProcessorInv'
    BY <1>1, LauncherSound, BystandersKeep
<1>2. ASSUME NEW s \in Runtimes, HandlerStep(s)
      PROVE  ProcessorInv'
    BY <1>2, HandlerKeeps DEF HandlerStep
<1>3. ASSUME NEW i \in Instances, ReconcilerStep(i)
      PROVE  ProcessorInv'
    BY <1>3, ReconcilerKeeps DEF ReconcilerStep
<1>4. ASSUME NEW i \in Instances, PassStep(i)
      PROVE  ProcessorInv'
    BY <1>4, PassLooks, PassClaims, PassKills, PassProves, PassSettles, PassEnds DEF PassStep
<1>5. CASE TimeOut
    BY <1>5, HandlerKeeps, ReconcilerKeeps, PassTimesOut DEF TimeOut, processes
<1>6. CASE UNCHANGED processorVars
    <2>1. UNCHANGED <<session, processes, workers>> /\ request' = request
        BY <1>6 DEF processorVars, rows
    <2>2. TypedRest'
        BY <1>6 DEF ProcessorInv, TypedRest, processorVars, rows, processes
    <2>3. QED
        BY <2>1, <2>2, AloneSound, BystandersKeep
<1>7. QED
    BY <1>1, <1>2, <1>3, <1>4, <1>5, <1>6, ExitKeeps, RestKeeps, CrashKeeps, ReconcilerListsKeeps
       DEF ProcessorNext

\* The inductive invariant: types, what the rows say of the processes, and
\* what every party has read.
THEOREM ProcessorInvariant == ProcessorSpec => []ProcessorInv
BY ProcessorInitially, ProcessorStepKeeps, PTL DEF ProcessorSpec

\* The types of the rows, of the processes and of what everybody has read.
THEOREM ProcessorTypesHold == ProcessorSpec => []ProcessorTypeOK
<1>1. ProcessorInv => ProcessorTypeOK
    BY DEF ProcessorInv, ProcessorTypeOK, TypedRest, Rows, HandlersFine, Handlers, ReconcilersFine,
           Reconcilers, PassesFine, Passes, Reads
<1>2. QED
    BY <1>1, ProcessorInvariant, PTL

\* No process that was published as running outlives its run, for any number of
\* runtimes, instances, crashes, overrun leases and drains that time out.
THEOREM NothingOutlivesTheRun == ProcessorSpec => []NothingRunsAfterTheEnd
<1>1. ProcessorInv => NothingRunsAfterTheEnd
    BY DEF ProcessorInv, EndedIsReleased, DrainedIsDead, NothingRunsAfterTheEnd, Done
<1>2. QED
    BY <1>1, ProcessorInvariant, PTL


-----------------------------------------------------------------------------
(* Why a termination is given up *)

\* What a session keeps that was asked to drain and found drained.
Settled(s) == session[s].state \in {"drained", "released", "quarantined"}

\* A session another intent released or gave up.
Disturbed == \E s \in Runtimes : session[s].state \in {"released", "quarantined"}

\* A pass is done with a session, or found it given up.
ReadAsOver(i, s) == pass[i].seen[s] = Nobody \/ pass[i].seen[s].state = "quarantined"

\* Without a fault a pass owns the request it works for, and one that throws
\* has met a disturbed session.
PassHasReason(i) ==
    /\ pass[i].pc \in {"claimed", "draining"} => OwnsLive(i)
    /\ pass[i].pc = "draining" => \A s \in Runtimes : ReadAsOver(i, s) => Settled(s)
    /\ pass[i].pc = "terminalize" => request.state \in {"drained", "terminalized", "quarantined"}
    /\ pass[i].pc = "throw" =>
          \/ request.state = "terminalized"
          \/ Disturbed /\ (OwnsLive(i) \/ request.state \in {"drained", "quarantined"})

RequestHasReason ==
    /\ request.state = "draining" => request.live
    /\ request.state \notin {"none", "requested"} => \A s \in Runtimes : Fenced(s)
    /\ request.state = "drained" => \A s \in Runtimes : Settled(s)
    /\ request.state = "quarantined" => Disturbed

Reasoned ==
    /\ up = Instances
    /\ RequestHasReason
    /\ \A i \in Instances : PassHasReason(i)

ReasonInv == faults = 0 => Reasoned

\* A row is fenced, settled, released and given up for good; a request to drain
\* is of a row that was not.
RowGoes(s) ==
    /\ Fenced(s) => Fenced(s)'
    /\ Settled(s) => Settled(s)'
    /\ session[s].state \in {"released", "quarantined"} => session'[s].state = session[s].state

RowsGo == \A s \in Runtimes : RowGoes(s)

\* A row that moves to a state it may move to.
LEMMA RowMovedGoes ==
    ASSUME session \in Rows, NEW s \in Runtimes, NEW st \in States, session' = Moved(s, st),
           \/ ~Fenced(s)
           \/ session[s].state = "drain_requested" /\ st \notin Undrained
           \/ session[s].state = "drained" /\ st \in {"drained", "released", "quarantined"}
    PROVE  RowsGo /\ session'[s].state = st
<1>1. /\ \A r \in Runtimes \ {s} : session'[r] = session[r]
      /\ session'[s].state = st
    BY MovedRow
<1>2. RowGoes(s)
    BY <1>1 DEF RowGoes, Fenced, Settled, Undrained
<1>3. ASSUME NEW r \in Runtimes \ {s} PROVE RowGoes(r)
    BY <1>1 DEF RowGoes, Fenced, Settled
<1>4. QED
    BY <1>1, <1>2, <1>3 DEF RowsGo

\* No row moves.
LEMMA RowsStay == session' = session => RowsGo
BY DEF RowsGo, RowGoes, Fenced, Settled

\* The operators that move one row.
LEMMA RowOperatorsGo ==
    ASSUME session \in Rows, NEW s \in Runtimes, NEW seen,
           \/ session' = session
           \/ session' = GivenUp(s, seen)
           \/ session' = DrainRequested(s)
           \/ session' = Proven(s) /\ MayProve(s)
           \/ session' = Moved(s, "released") /\ session[s].state = "drained"
    PROVE  RowsGo
<1>1. {"quarantined", "drain_requested", "drained", "released"} \subseteq States
    BY DEF States, Active
<1>2. CASE session' = session
    BY <1>2, RowsStay
<1>3. CASE session' = Moved(s, "quarantined") /\ session[s].state \in Active
    BY <1>1, <1>3, RowMovedGoes DEF Active, Fenced, Undrained
<1>4. CASE session' = Moved(s, "drain_requested") /\ session[s].state \in Undrained
    BY <1>1, <1>4, RowMovedGoes DEF Fenced
<1>5. CASE session' = Moved(s, "drained") /\ session[s].state = "drain_requested"
    BY <1>1, <1>5, RowMovedGoes DEF Undrained
<1>6. CASE session' = Moved(s, "released") /\ session[s].state = "drained"
    BY <1>1, <1>6, RowMovedGoes
<1>7. QED
    BY <1>2, <1>3, <1>4, <1>5, <1>6 DEF GivenUp, DrainRequested, Proven, MayProve

\* What settled rows keep disturbed.
LEMMA DisturbedStays == RowsGo /\ Disturbed => Disturbed'
BY DEF RowsGo, RowGoes, Disturbed

\* A pass that remembers and does the same keeps its reason.
LEMMA ReasonStays ==
    ASSUME RowsGo, request' = request, NEW i \in Instances, pass'[i] = pass[i], PassHasReason(i)
    PROVE  PassHasReason(i)'
<1>1. OwnsLive(i)' <=> OwnsLive(i)
    BY DEF OwnsLive
<1>2. \A s \in Runtimes : (ReadAsOver(i, s)' <=> ReadAsOver(i, s)) /\ (Settled(s) => Settled(s)')
    BY DEF ReadAsOver, RowsGo, RowGoes
<1>3. QED
    BY <1>1, <1>2, DisturbedStays DEF PassHasReason

\* A request that is left alone keeps its reason.
LEMMA RequestReasonStays ==
    ASSUME RowsGo, request' = request, RequestHasReason
    PROVE  RequestHasReason'
BY DisturbedStays DEF RequestHasReason, RowsGo, RowGoes

\* A step of others than the passes.
LEMMA BystanderHasReason ==
    ASSUME Reasoned, RowsGo, UNCHANGED <<request, pass, up>>
    PROVE  Reasoned'
BY ReasonStays, RequestReasonStays DEF Reasoned

\* A step of a pass that leaves the request alone.
LEMMA PasserHasReason ==
    ASSUME Reasoned, RowsGo, UNCHANGED <<request, up>>, NEW i \in Instances,
           \A j \in Instances \ {i} : pass'[j] = pass[j],
           PassHasReason(i)'
    PROVE  Reasoned'
BY ReasonStays, RequestReasonStays DEF Reasoned

-----------------------------------------------------------------------------
(* The steps that move no request *)

\* A launcher moves a row that has not been asked to drain.
LEMMA LauncherHasReason ==
    ASSUME ProcessorInv, Reasoned, NEW s \in Runtimes, LaunchStep(s)
    PROVE  Reasoned'
<1>1. session \in Rows /\ {"starting", "running", "quarantined"} \subseteq States
    BY DEF ProcessorInv, States, Active
<1>2. RowsGo
    <2>1. CASE MarkStarting(s)
        BY <1>1, <2>1, RowMovedGoes DEF MarkStarting, Fenced, Undrained
    <2>2. CASE StartBlocked(s)
        BY <1>1, <2>2, RowMovedGoes, RowsStay DEF StartBlocked, Fenced, Undrained
    <2>3. CASE Spawn(s)
        BY <2>3, RowsStay DEF Spawn, rows
    <2>4. CASE MarkRunning(s)
        <3>1. /\ session'[s].state = "running" /\ ~Fenced(s) /\ ~Settled(s)
              /\ session[s].state = "starting"
              /\ \A r \in Runtimes \ {s} : session'[r] = session[r]
            BY <1>1, <2>4 DEF MarkRunning, Written, Fenced, Settled, Undrained, Rows
        <3>2. RowGoes(s)
            BY <3>1 DEF RowGoes
        <3>3. ASSUME NEW r \in Runtimes \ {s} PROVE RowGoes(r)
            BY <3>1 DEF RowGoes, Fenced, Settled
        <3>4. QED
            BY <3>2, <3>3 DEF RowsGo
    <2>5. CASE RunningRefused(s)
        BY <1>1, <2>5, RowMovedGoes, RowsStay DEF RunningRefused, Fenced, Undrained
    <2>6. QED
        BY <2>1, <2>2, <2>3, <2>4, <2>5 DEF LaunchStep
<1>3. UNCHANGED <<request, pass, up>>
    BY DEF LaunchStep, MarkStarting, StartBlocked, Spawn, MarkRunning, RunningRefused, rows, workers
<1>4. QED
    BY <1>2, <1>3, BystanderHasReason

\* The process, its claim, its handler and the reconcilers.
LEMMA OthersHaveReason ==
    ASSUME ProcessorInv, Reasoned,
           \/ \E s \in Runtimes : ChildExits(s) \/ CloseClaim(s) \/ HandlerStep(s)
           \/ \E i \in Instances, s \in Runtimes : ReconcilerLists(i, s)
           \/ \E i \in Instances : ReconcilerStep(i)
    PROVE  Reasoned'
<1>1. session \in Rows
    BY DEF ProcessorInv
<1>2. ASSUME NEW s \in Runtimes, ChildExits(s) \/ CloseClaim(s)
      PROVE  RowsGo /\ UNCHANGED <<request, pass, up>>
    BY <1>2, RowsStay DEF ChildExits, CloseClaim, rows, workers
<1>3. ASSUME NEW s \in Runtimes, HandlerStep(s)
      PROVE  RowsGo /\ UNCHANGED <<request, pass, up>>
    <2>1. \/ session' = session
          \/ session' = GivenUp(s, handler[s].seen)
          \/ session' = DrainRequested(s)
          \/ session' = Proven(s) /\ MayProve(s)
          \/ session' = Moved(s, "released") /\ session[s].state = "drained"
        BY <1>3 DEF HandlerStep, HandlerAsks, HandlerProves, HandlerReleases, HandlerCatches, HandlerGivesUp, rows
    <2>2. UNCHANGED <<request, pass, up>>
        BY <1>3 DEF HandlerStep, HandlerAsks, HandlerProves, HandlerReleases, HandlerCatches, HandlerGivesUp, rows
    <2>3. QED
        BY <1>1, <2>1, <2>2, RowOperatorsGo
<1>4. ASSUME NEW i \in Instances, NEW s \in Runtimes, ReconcilerLists(i, s)
      PROVE  RowsGo /\ UNCHANGED <<request, pass, up>>
    BY <1>4, RowsStay DEF ReconcilerLists, rows
<1>5. ASSUME NEW i \in Instances, ReconcilerStep(i)
      PROVE  RowsGo /\ UNCHANGED <<request, pass, up>>
    <2>1. PICK s \in Runtimes : s = reconciler[i].at
        BY <1>5 DEF ProcessorInv, ReconcilersFine, ReconcilerStep, ReconcilerAsks, ReconcilerProves,
                    ReconcilerReleases
    <2>2. \/ session' = session
          \/ session' = DrainRequested(s)
          \/ session' = Proven(s) /\ MayProve(s)
          \/ session' = Moved(s, "released") /\ session[s].state = "drained"
        BY <1>5, <2>1 DEF ReconcilerStep, ReconcilerAsks, ReconcilerProves, ReconcilerReleases
    <2>3. UNCHANGED <<request, pass, up>>
        BY <1>5 DEF ReconcilerStep, ReconcilerAsks, ReconcilerProves, ReconcilerReleases
    <2>4. QED
        BY <1>1, <2>2, <2>3, RowOperatorsGo
<1>6. QED
    BY <1>2, <1>3, <1>4, <1>5, BystanderHasReason

-----------------------------------------------------------------------------
(* The steps of a pass, a request's first steps and the faults *)

\* What Goes leaves alone.
LEMMA GoesTo ==
    ASSUME ProcessorInv, NEW i \in Instances, NEW pc, Goes(i, pc)
    PROVE  pass'[i].pc = pc /\ \A j \in Instances \ {i} : pass'[j] = pass[j]
BY DEF Goes, IdlePass, ProcessorInv, PassesFine

\* A pass lists, looks at the sessions, or signals one.
LEMMA LooksHasReason ==
    ASSUME ProcessorInv, Reasoned, NEW i \in Instances,
           ListPending(i) \/ ListSessions(i) \/ \E s \in Runtimes : KillRuntime(i, s),
           UNCHANGED up
    PROVE  Reasoned'
<1>1. UNCHANGED <<request, session>> /\ RowsGo
    BY RowsStay DEF ListPending, ListSessions, KillRuntime, rows
<1>2. pass \in [Instances -> Passes] /\ PassHasReason(i)
    BY DEF ProcessorInv, PassesFine, Reasoned
<1>3. CASE ListPending(i)
    <2>1. /\ \A j \in Instances \ {i} : pass'[j] = pass[j]
          /\ \/ pass'[i].pc = "terminalize" /\ request.state = "drained"
             \/ pass'[i].pc = "listed"
        BY <1>3, GoesTo DEF ListPending
    <2>2. PassHasReason(i)'
        BY <1>1, <2>1 DEF PassHasReason
    <2>3. QED
        BY <1>1, <2>1, <2>2, PasserHasReason
<1>4. CASE ListSessions(i)
    <2> DEFINE seen == [s \in Runtimes |-> IF session[s].state \in Done THEN Nobody ELSE session[s]]
    <2>1. /\ pass' = [pass EXCEPT ![i] = [pc |-> "draining", at |-> Nobody, seen |-> seen]]
          /\ OwnsLive(i)
        BY <1>2, <1>4 DEF ListSessions, PassHasReason
    <2>2. \A s \in Runtimes : seen[s] = Nobody \/ seen[s].state = "quarantined" => Settled(s)
        <3>1. SUFFICES ASSUME NEW s \in Runtimes, seen[s] = Nobody \/ seen[s].state = "quarantined"
                       PROVE  Settled(s)
            OBVIOUS
        <3>2. CASE session[s].state \in Done
            BY <3>2 DEF Done, Settled
        <3>3. CASE session[s].state \notin Done
            <4>1. seen[s] = session[s] /\ session[s] \in SessionRows
                BY <3>3 DEF ProcessorInv, Rows
            <4>2. session[s] # Nobody
                BY <4>1, NoRowAssumption
            <4>3. QED
                BY <3>1, <4>1, <4>2 DEF Settled
        <3>4. QED
            BY <3>2, <3>3
    <2> HIDE DEF seen
    <2>3. /\ pass'[i].pc = "draining" /\ pass'[i].seen = seen
          /\ \A j \in Instances \ {i} : pass'[j] = pass[j]
        BY <1>2, <2>1
    <2>4. PassHasReason(i)'
        BY <1>1, <2>1, <2>2, <2>3 DEF PassHasReason, OwnsLive, ReadAsOver, Settled
    <2>5. QED
        BY <1>1, <2>3, <2>4, PasserHasReason
<1>5. ASSUME NEW s \in Runtimes, KillRuntime(i, s)
      PROVE  Reasoned'
    <2>1. /\ pass'[i].pc = pass[i].pc /\ pass'[i].seen = pass[i].seen
          /\ \A j \in Instances \ {i} : pass'[j] = pass[j]
        BY <1>2, <1>5 DEF KillRuntime, Passes
    <2>2. PassHasReason(i)'
        BY <1>1, <1>2, <2>1 DEF PassHasReason, OwnsLive, ReadAsOver, Settled, Disturbed
    <2>3. QED
        BY <1>1, <2>1, <2>2, PasserHasReason
<1>6. QED
    BY <1>3, <1>4, <1>5

\* The proof of a drain is refused over a disturbed session only, and it is the
\* owner of the request that may take a session back.
LEMMA ProofHasReason ==
    ASSUME ProcessorInv, Reasoned, NEW i \in Instances, ProveRuntime(i), UNCHANGED up
    PROVE  Reasoned'
<1>1. pass \in [Instances -> Passes] /\ session \in Rows /\ request' = request
    BY DEF ProcessorInv, PassesFine, ProveRuntime
<1>2. PICK s \in Runtimes : s = pass[i].at /\ s # Nobody
    BY <1>1 DEF ProveRuntime, Passes
<1>3. /\ pass[i].pc = "draining" /\ OwnsLive(i) /\ PassHasReason(i)
      /\ pass[i].seen[s] # Nobody /\ RequestHasReason
    BY <1>2 DEF ProveRuntime, Reasoned, PassHasReason, ProcessorInv, PassesFine
<1>4. Fenced(s)
    BY <1>3 DEF RequestHasReason, OwnsLive
<1>5. ASSUME NEW j \in Instances \ {i}
      PROVE  ~OwnsLive(j) /\ pass[j].pc \notin {"claimed", "draining"} /\ PassHasReason(j)
    BY <1>3 DEF OwnsLive, Reasoned, PassHasReason
<1>6. CASE MayRecord(i, s)
    <2>1. /\ session' = IF session[s].state \in Done THEN session ELSE Moved(s, "drained")
          /\ pass' = [pass EXCEPT ![i] = [pc |-> "draining", at |-> Nobody,
                 seen |-> [pass[i].seen EXCEPT ![s] = Nobody]]]
        BY <1>2, <1>6 DEF ProveRuntime
    <2>2. /\ pass'[i].pc = "draining" /\ pass'[i].seen = [pass[i].seen EXCEPT ![s] = Nobody]
          /\ \A j \in Instances \ {i} : pass'[j] = pass[j]
        BY <1>1, <2>1
    <2>3. /\ Settled(s)'
          /\ \A r \in Runtimes \ {s} : session'[r] = session[r]
        <3>1. "drained" \in States
            BY DEF States, Active
        <3>2. QED
            BY <1>1, <2>1, <3>1, MovedRow DEF Settled, Done
    <2>4. \A r \in Runtimes : (Fenced(r) => Fenced(r)') /\ (Settled(r) => Settled(r)')
        BY <2>3 DEF Settled, Fenced, Undrained
    <2>5. RequestHasReason'
        BY <1>1, <1>3, <2>4 DEF RequestHasReason, OwnsLive
    <2>6. PassHasReason(i)'
        <3>1. \A r \in Runtimes \ {s} : pass'[i].seen[r] = pass[i].seen[r]
            BY <1>1, <2>2 DEF Passes, Reads
        <3>2. \A r \in Runtimes : ReadAsOver(i, r)' => Settled(r)'
            BY <1>3, <2>3, <2>4, <3>1 DEF PassHasReason, ReadAsOver
        <3>3. QED
            BY <1>1, <1>3, <2>2, <3>2 DEF PassHasReason, OwnsLive
    <2>7. ASSUME NEW j \in Instances \ {i} PROVE PassHasReason(j)'
        BY <1>1, <1>3, <1>5, <2>2 DEF PassHasReason, OwnsLive
    <2>8. QED
        BY <2>5, <2>6, <2>7 DEF Reasoned
<1>7. CASE ~MayRecord(i, s)
    <2>1. session' = session /\ Goes(i, "throw") /\ RowsGo
        BY <1>2, <1>7, RowsStay DEF ProveRuntime
    <2>2. session[s].state \in {"released", "quarantined"}
        <3>1. CASE pass[i].seen[s].state = "quarantined"
            <4>1. Settled(s)
                BY <1>3, <3>1 DEF PassHasReason, ReadAsOver
            <4>2. QED
                BY <1>7, <3>1, <4>1 DEF MayRecord, MayRecover, Done, Settled
        <3>2. CASE pass[i].seen[s].state # "quarantined"
            <4>1. session[s].state \notin {"drain_requested", "drained"}
                BY <1>7, <3>2 DEF MayRecord, MayProve
            <4>2. session[s].state \in States
                BY <1>1 DEF Rows, SessionRows, States
            <4>3. QED
                BY <1>4, <4>1, <4>2 DEF Fenced, States, Active, Undrained
        <3>3. QED
            BY <3>1, <3>2
    <2>3. Disturbed'
        BY <2>1, <2>2 DEF Disturbed
    <2>4. /\ pass'[i].pc = "throw"
          /\ \A j \in Instances \ {i} : pass'[j] = pass[j]
        BY <2>1, GoesTo
    <2>5. PassHasReason(i)'
        BY <1>1, <1>3, <2>3, <2>4 DEF PassHasReason, OwnsLive
    <2>6. QED
        BY <1>1, <2>1, <2>4, <2>5, PasserHasReason
<1>8. QED
    BY <1>6, <1>7

\* The claim finds nobody at work for the request, and asks every session.
LEMMA ClaimHasReason ==
    ASSUME ProcessorInv, ProcessorInv', Reasoned, NEW i \in Instances, Claim(i), UNCHANGED up
    PROVE  Reasoned'
<1>1. CASE Claimable
    <2>1. /\ request' = Owned(i) /\ Goes(i, "claimed")
        BY <1>1 DEF Claim
    <2>2. request.state = "requested"
        BY <1>1 DEF Claimable, Reasoned, RequestHasReason
    <2>3. /\ pass'[i].pc = "claimed"
          /\ \A j \in Instances \ {i} : pass'[j] = pass[j]
        BY <2>1, GoesTo
    <2>4. \A s \in Runtimes : Fenced(s)'
        BY <2>3 DEF ProcessorInv, PassesFine
    <2>5. RequestHasReason'
        BY <2>1, <2>4 DEF RequestHasReason, Owned
    <2>6. PassHasReason(i)'
        BY <2>1, <2>3 DEF PassHasReason, OwnsLive, Owned
    <2>7. ASSUME NEW j \in Instances \ {i} PROVE PassHasReason(j)'
        <3>1. pass[j].pc \notin {"claimed", "draining", "terminalize", "throw"}
            BY <2>2 DEF Reasoned, PassHasReason, OwnsLive
        <3>2. QED
            BY <2>3, <3>1 DEF PassHasReason
    <2>8. QED
        BY <2>5, <2>6, <2>7 DEF Reasoned
<1>2. CASE ~Claimable
    <2>1. UNCHANGED <<request, session>> /\ Goes(i, "idle") /\ RowsGo
        BY <1>2, RowsStay DEF Claim, Rests
    <2>2. /\ pass'[i].pc = "idle"
          /\ \A j \in Instances \ {i} : pass'[j] = pass[j]
        BY <2>1, GoesTo
    <2>3. PassHasReason(i)'
        BY <2>2 DEF PassHasReason
    <2>4. QED
        BY <2>1, <2>2, <2>3, PasserHasReason
<1>3. QED
    BY <1>1, <1>2

\* Another pass's request is settled: no other pass is at work for it.
LEMMA OthersSettled ==
    ASSUME Reasoned, NEW i \in Instances, NEW j \in Instances \ {i},
           OwnsLive(i) \/ request.state \in {"drained", "terminalized", "quarantined"}
    PROVE  /\ pass[j].pc \notin {"claimed", "draining"}
           /\ pass[j].pc = "terminalize" => request.state \in {"drained", "terminalized", "quarantined"}
           /\ pass[j].pc = "throw" =>
                 \/ request.state = "terminalized"
                 \/ Disturbed /\ request.state \in {"drained", "quarantined"}
BY DEF Reasoned, PassHasReason, OwnsLive

\* A request is proven drained by its owner, over settled sessions.
LEMMA MarkHasReason ==
    ASSUME ProcessorInv, Reasoned, NEW i \in Instances, MarkDrained(i), UNCHANGED up
    PROVE  Reasoned'
<1>1. session' = session /\ RowsGo /\ pass[i].pc = "draining" /\ OwnsLive(i) /\ RequestHasReason
    BY RowsStay DEF MarkDrained, Reasoned, PassHasReason
<1>2. \A s \in Runtimes : Settled(s)
    BY <1>1 DEF MarkDrained, ToDo, ReadAsOver, PassHasReason, Reasoned
<1>3. CASE AllDrained
    <2>1. /\ request' = [request EXCEPT !.state = "drained", !.live = FALSE]
          /\ Goes(i, "terminalize")
        BY <1>1, <1>3 DEF MarkDrained, OwnsLive
    <2>2. request'.state = "drained"
        BY <2>1 DEF ProcessorInv, TypedRest
    <2>3. /\ pass'[i].pc = "terminalize"
          /\ \A j \in Instances \ {i} : pass'[j] = pass[j]
        BY <2>1, GoesTo
    <2>4. RequestHasReason'
        BY <1>1, <1>2, <2>2 DEF RequestHasReason, Settled, Fenced, Undrained
    <2>5. PassHasReason(i)'
        BY <2>2, <2>3 DEF PassHasReason
    <2>6. ASSUME NEW j \in Instances \ {i} PROVE PassHasReason(j)'
        <3>1. pass[j].pc \notin {"claimed", "draining", "terminalize", "throw"}
            BY <1>1, OthersSettled DEF OwnsLive
        <3>2. QED
            BY <2>3, <3>1 DEF PassHasReason
    <2>7. QED
        BY <2>4, <2>5, <2>6 DEF Reasoned
<1>4. CASE ~AllDrained
    <2>1. request' = request /\ Goes(i, "throw")
        BY <1>1, <1>4 DEF MarkDrained, OwnsLive
    <2>2. Disturbed
        BY <1>2, <1>4 DEF AllDrained, Settled, Done, Disturbed
    <2>3. /\ pass'[i].pc = "throw"
          /\ \A j \in Instances \ {i} : pass'[j] = pass[j]
        BY <2>1, GoesTo
    <2>4. PassHasReason(i)'
        BY <1>1, <2>1, <2>2, <2>3 DEF PassHasReason, OwnsLive, Disturbed
    <2>5. QED
        BY <1>1, <2>1, <2>3, <2>4, PasserHasReason
<1>5. QED
    BY <1>3, <1>4

\* The end of the run, or a throw over a session that was disturbed meanwhile.
LEMMA EndHasReason ==
    ASSUME ProcessorInv, ProcessorInv', Reasoned, NEW i \in Instances, Terminalize(i), UNCHANGED up
    PROVE  Reasoned'
<1>1. pass[i].pc = "terminalize" /\ PassHasReason(i) /\ RequestHasReason
    BY DEF Terminalize, Reasoned
<1>2. request.state \in {"drained", "terminalized", "quarantined"}
    BY <1>1 DEF PassHasReason
<1>3. CASE request.state = "drained" /\ AllDrained
    <2>1. request' = [request EXCEPT !.state = "terminalized"] /\ Goes(i, "idle")
        BY <1>3 DEF Terminalize, Rests
    <2>2. request'.state = "terminalized"
        BY <2>1 DEF ProcessorInv, TypedRest
    <2>3. /\ pass'[i].pc = "idle"
          /\ \A j \in Instances \ {i} : pass'[j] = pass[j]
        BY <2>1, GoesTo
    <2>4. RequestHasReason'
        BY <2>2 DEF RequestHasReason, ProcessorInv, EndedIsReleased, Fenced, Undrained
    <2>5. ASSUME NEW j \in Instances PROVE PassHasReason(j)'
        <3>1. CASE j = i
            BY <2>3, <3>1 DEF PassHasReason
        <3>2. CASE j # i
            <4>1. pass[j].pc \notin {"claimed", "draining"}
                BY <1>2, <3>2, OthersSettled
            <4>2. QED
                BY <2>2, <2>3, <3>2, <4>1 DEF PassHasReason
        <3>3. QED
            BY <3>1, <3>2
    <2>6. QED
        BY <2>4, <2>5 DEF Reasoned
<1>4. CASE ~(request.state = "drained" /\ AllDrained)
    <2>1. UNCHANGED <<request, session>> /\ RowsGo
        BY <1>4, RowsStay DEF Terminalize, rows
    <2>2. /\ \A j \in Instances \ {i} : pass'[j] = pass[j]
          /\ \/ pass'[i].pc = "idle"
             \/ pass'[i].pc = "throw" /\ request.state # "terminalized"
        BY <1>4, GoesTo DEF Terminalize, Rests
    <2>3. request.state # "terminalized" => Disturbed
        <3>1. request.state = "drained" => Disturbed
            BY <1>1, <1>4 DEF RequestHasReason, AllDrained, Settled, Done, Disturbed
        <3>2. request.state = "quarantined" => Disturbed
            BY <1>1 DEF RequestHasReason
        <3>3. QED
            BY <1>2, <3>1, <3>2
    <2>4. PassHasReason(i)'
        BY <1>2, <2>1, <2>2, <2>3 DEF PassHasReason, Disturbed
    <2>5. QED
        BY <2>1, <2>2, <2>4, PasserHasReason
<1>5. QED
    BY <1>3, <1>4

\* A pass that threw had a reason, and gives up the request for it.
LEMMA GiveUpHasReason ==
    ASSUME ProcessorInv, Reasoned, NEW i \in Instances, QuarantineRequest(i), UNCHANGED up
    PROVE  Reasoned'
<1>1. session' = session /\ RowsGo /\ pass[i].pc = "throw" /\ PassHasReason(i) /\ RequestHasReason
    BY RowsStay DEF QuarantineRequest, Reasoned
<1>2. /\ pass'[i].pc = "idle"
      /\ \A j \in Instances \ {i} : pass'[j] = pass[j]
    BY GoesTo DEF QuarantineRequest, Rests
<1>3. PassHasReason(i)'
    BY <1>2 DEF PassHasReason
<1>4. CASE request.state = "terminalized"
    <2>1. request' = request
        BY <1>4 DEF QuarantineRequest
    <2>2. QED
        BY <1>1, <1>2, <1>3, <2>1, PasserHasReason
<1>5. CASE request.state # "terminalized"
    <2>1. request'.state = "quarantined"
        BY <1>5 DEF QuarantineRequest, ProcessorInv, TypedRest
    <2>2. Disturbed /\ Disturbed' /\ (OwnsLive(i) \/ request.state \in {"drained", "quarantined"})
        BY <1>1, <1>5, DisturbedStays DEF PassHasReason
    <2>3. RequestHasReason'
        BY <1>1, <2>1, <2>2 DEF RequestHasReason, RowsGo, RowGoes, OwnsLive
    <2>4. ASSUME NEW j \in Instances \ {i} PROVE PassHasReason(j)'
        <3>1. pass[j].pc \notin {"claimed", "draining"}
            BY <2>2, OthersSettled
        <3>2. QED
            BY <1>2, <2>1, <2>2, <3>1 DEF PassHasReason
    <2>5. QED
        BY <1>3, <2>3, <2>4 DEF Reasoned
<1>6. QED
    BY <1>4, <1>5

\* A termination is asked for.
LEMMA AskHasReason ==
    ASSUME ProcessorInv, Reasoned, RequestTermination
    PROVE  Reasoned'
<1>1. /\ request.state = "none" /\ request'.state = "requested"
      /\ UNCHANGED <<session, pass, up>>
    BY DEF RequestTermination, Unchallenged, ProcessorInv, TypedRest, workers
<1>2. RequestHasReason'
    BY <1>1 DEF RequestHasReason
<1>3. ASSUME NEW j \in Instances PROVE PassHasReason(j)'
    <2>1. pass[j].pc \notin {"claimed", "draining", "terminalize", "throw"}
        BY <1>1 DEF Reasoned, PassHasReason, OwnsLive
    <2>2. QED
        BY <1>1, <2>1 DEF PassHasReason
<1>4. QED
    BY <1>1, <1>2, <1>3 DEF Reasoned

\* What counts as a fault.
LEMMA FaultCounts ==
    ASSUME ProcessorInv, Reasoned, LeaseRunsOut \/ TimeOut \/ \E i \in Instances : Crash(i)
    PROVE  faults' # 0
<1>1. faults \in Nat
    BY ProcessorAssumption DEF ProcessorInv, TypedRest
<1>2. Fault => faults' # 0
    BY <1>1 DEF Fault
<1>3. CASE LeaseRunsOut
    <2>1. request.owner \in up
        BY <1>3 DEF LeaseRunsOut, Reasoned, ProcessorInv, TypedRest
    <2>2. QED
        BY <1>2, <1>3, <2>1 DEF LeaseRunsOut
<1>4. CASE TimeOut
    BY <1>2, <1>4 DEF TimeOut, HandlerTimesOut, ReconcilerTimesOut, RuntimeTimesOut
<1>5. ASSUME NEW i \in Instances, Crash(i) PROVE faults' # 0
    BY <1>2, <1>5 DEF Crash
<1>6. QED
    BY <1>3, <1>4, <1>5

\* A fault is not undone.
LEMMA FaultsStay ==
    ASSUME ProcessorInv, [ProcessorNext]_processorVars, faults' = 0
    PROVE  faults = 0
<1>1. faults \in Nat
    BY ProcessorAssumption DEF ProcessorInv, TypedRest
<1>2. faults' = faults \/ faults' = faults + 1
    BY DEF ProcessorNext, LaunchStep, MarkStarting, StartBlocked, Spawn, MarkRunning, RunningRefused,
           ChildExits, CloseClaim, HandlerStep, HandlerAsks, HandlerProves, HandlerReleases,
           HandlerCatches, HandlerGivesUp, ReconcilerLists, ReconcilerStep, ReconcilerAsks,
           ReconcilerProves, ReconcilerReleases, PassStep, ListPending, Claim, ListSessions,
           KillRuntime, ProveRuntime, MarkDrained, Terminalize, QuarantineRequest, Crash,
           RequestTermination, LeaseRunsOut, TimeOut, HandlerTimesOut, ReconcilerTimesOut,
           RuntimeTimesOut, Fault, processorVars
<1>3. QED
    BY <1>1, <1>2

\* Every step keeps the reasons.
LEMMA ReasonStepKeeps ==
    ProcessorInv /\ ProcessorInv' /\ ReasonInv /\ [ProcessorNext]_processorVars => ReasonInv'
<1> SUFFICES ASSUME ProcessorInv, ProcessorInv', ReasonInv, [ProcessorNext]_processorVars, faults' = 0
             PROVE  Reasoned'
    BY DEF ReasonInv
<1>1. Reasoned
    BY FaultsStay DEF ReasonInv
<1>2. ASSUME NEW s \in Runtimes, LaunchStep(s) PROVE Reasoned'
    BY <1>1, <1>2, LauncherHasReason
<1>3. ASSUME NEW i \in Instances, PassStep(i) PROVE Reasoned'
    BY <1>1, <1>3, LooksHasReason, ProofHasReason, ClaimHasReason, MarkHasReason, EndHasReason,
       GiveUpHasReason DEF PassStep
<1>4. CASE UNCHANGED processorVars
    BY <1>1, <1>4, RowsStay, BystanderHasReason DEF processorVars, rows, workers
<1>5. QED
    BY <1>1, <1>2, <1>3, <1>4, OthersHaveReason, AskHasReason, FaultCounts DEF ProcessorNext

\* The second invariant: while nothing has failed, who works for a request owns
\* it, and who throws has met a session another intent released or gave up.
THEOREM ReasonInvariant == ProcessorSpec => []ReasonInv
<1>1. ProcessorInit => ReasonInv
    BY DEF ProcessorInit, ReasonInv, Reasoned, RequestHasReason, PassHasReason, IdlePass
<1>2. QED
    BY <1>1, ProcessorInvariant, ReasonStepKeeps, PTL DEF ProcessorSpec

\* A termination that nothing failed is given up over a disturbed session only,
\* never over runtimes that are all drained.
THEOREM GivenUpForAReason == ProcessorSpec => []QuarantineHasReason
<1>1. ProcessorInv /\ ReasonInv => QuarantineHasReason
    <2>1. ProcessorInv => faults = 0 \/ faults > 0
        BY ProcessorAssumption DEF ProcessorInv, TypedRest
    <2>2. QED
        BY <2>1 DEF ReasonInv, Reasoned, RequestHasReason, Disturbed, QuarantineHasReason
<1>2. QED
    BY <1>1, ProcessorInvariant, ReasonInvariant, PTL
=============================================================================
