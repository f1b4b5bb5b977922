------------------------------- MODULE DagRun -------------------------------
(***************************************************************************)
(* What running a plan promises, whoever runs it: the kernel's synchronous *)
(* Runtime.execute or the concurrent Executor.  A task starts only after   *)
(* everything it depends on has completed, a failure blocks exactly the    *)
(* tasks behind it, a cancelled run spares what is running, and a run is   *)
(* closed, with a verdict on its tasks, only when no task is left over.    *)
(***************************************************************************)
EXTENDS TaskGraph

CONSTANTS Tasks, Deps

VARIABLES
    phase,    \* "closed": no run, "open": a run goes on, "lost": its thread died
    status,   \* the statuses of the tasks of the latest run
    verdict   \* Run.status

vars == <<phase, status, verdict>>

Init ==
    /\ phase = "closed"
    /\ status = [t \in Tasks |-> "PENDING"]
    /\ verdict = "RUNNING"

Launch ==
    /\ phase # "open" /\ phase' = "open"
    /\ status' = [t \in Tasks |-> "PENDING"]
    /\ verdict' = "RUNNING"

(* A resumed run starts from results recorded earlier, dependencies first. *)
Replay(S) ==
    /\ phase = "open"
    /\ \A t \in Tasks : status[t] = "PENDING"
    /\ \A t \in S : Deps[t] \subseteq S
    /\ status' = [t \in Tasks |-> IF t \in S THEN "COMPLETED" ELSE "PENDING"]
    /\ UNCHANGED <<phase, verdict>>

Runnable(t) == status[t] = "PENDING" /\ \A d \in Deps[t] : status[d] = "COMPLETED"

Start(t) ==
    /\ phase = "open" /\ Runnable(t)
    /\ status' = [status EXCEPT ![t] = "RUNNING"]
    /\ UNCHANGED <<phase, verdict>>

Complete(t) ==
    /\ phase = "open" /\ status[t] = "RUNNING"
    /\ status' = [status EXCEPT ![t] = "COMPLETED"]
    /\ UNCHANGED <<phase, verdict>>

(* A task fails while it runs, or is turned away the moment it would start. *)
Fails(t) ==
    /\ phase = "open"
    /\ status[t] = "RUNNING" \/ Runnable(t)
    /\ \E hit \in SUBSET {u \in Tasks : status[u] = "PENDING"} :
          status' = [u \in Tasks |-> IF u = t THEN "FAILED"
                                     ELSE IF u \in hit THEN "BLOCKED" ELSE status[u]]
    /\ BlockedConsistent(Deps, status')
    /\ UNCHANGED <<phase, verdict>>

CancelTheRest ==
    /\ phase = "open"
    /\ \A t \in Tasks : status[t] # "RUNNING"
    /\ status' = CancelRest(status)
    /\ UNCHANGED <<phase, verdict>>

(* A run may be cancelled after its last task: its verdict still says so. *)
Finish ==
    /\ phase = "open" /\ phase' = "closed"
    /\ Done(status)
    /\ \E cancelled \in BOOLEAN :
          /\ (\E t \in Tasks : status[t] = "CANCELLED") => cancelled
          /\ verdict' = FinalStatus({status[t] : t \in Tasks}, cancelled)
    /\ UNCHANGED status

Abandon ==
    /\ phase = "open" /\ phase' = "lost"
    /\ UNCHANGED <<status, verdict>>

Next ==
    \/ Launch \/ CancelTheRest \/ Finish \/ Abandon
    \/ \E S \in SUBSET Tasks : Replay(S)
    \/ \E t \in Tasks : Start(t) \/ Complete(t) \/ Fails(t)

Spec == Init /\ [][Next]_vars
=============================================================================
