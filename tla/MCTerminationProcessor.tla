----------------------- MODULE MCTerminationProcessor -----------------------
(* Two instances, each with a runtime of the run, one fault.  The second    *)
(* runtime runs already, ends when it is killed only and keeps its claim;   *)
(* the first is yet to start.  One instance reconciles.                     *)
EXTENDS TerminationProcessor, TLC

CONSTANTS i1, i2, s1, s2

MCInstances == {i1, i2}
MCRuntimes == {s1, s2}
MCOwnerOf == s1 :> i1 @@ s2 :> i2

MCInit ==
    /\ request = [state |-> "none", owner |-> Nobody, live |-> FALSE]
    /\ session = s1 :> [state |-> "reserved", version |-> 0, pid |-> FALSE]
              @@ s2 :> [state |-> "running", version |-> 2, pid |-> TRUE]
    /\ closed = {}
    /\ launch = s1 :> "reserved" @@ s2 :> "over"
    /\ child = s1 :> "none" @@ s2 :> "alive"
    /\ handler = [s \in Runtimes |-> IdleHandler]
    /\ reconciler = [i \in Instances |-> IdleReconciler]
    /\ pass = [i \in Instances |-> IdlePass]
    /\ up = Instances
    /\ faults = 0

MCNext ==
    /\ ProcessorNext
    /\ closed' \subseteq {s1} \/ request'.state = "terminalized"
    /\ reconciler'[i1].pc = "idle"
    /\ child[s2] = "alive" => child'[s2] # "dead"

MCSpec == MCInit /\ [][MCNext]_processorVars /\ ProcessorFairness
=============================================================================
