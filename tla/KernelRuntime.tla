---------------------------- MODULE KernelRuntime ----------------------------
(***************************************************************************)
(* nexus.kernel.runtime.Runtime.execute, the synchronous single-threaded   *)
(* way to run a plan, called again and again on the same Plan object.      *)
(* Unlike the Executor it submits the plan's own Task objects to a new     *)
(* scheduler, so status lives in the plan and outlives the run.            *)
(***************************************************************************)
EXTENDS TaskGraph

CONSTANTS
    Tasks, Deps, Rank,   \* the plan, as in Executor
    Unbound,             \* tasks whose handler lookup may find nothing
    Fatal,               \* tasks whose handler may raise a BaseException
    MaxRuns              \* bound: calls of execute

ASSUME GraphAssumption ==
    /\ Deps \in [Tasks -> SUBSET Tasks]
    /\ Acyclic(Deps)
    /\ Rank \in [Tasks -> Int]
    /\ \A t, u \in Tasks : Rank[t] = Rank[u] => t = u
ASSUME RunsAssumption == MaxRuns \in Nat

VARIABLES
    pc,        \* position in execute
    status,    \* Task.status of the plan's tasks
    results,   \* Run.task_results, the statuses they hold
    outcome,   \* Run.status
    batch,     \* what is left of the ready list
    calls,     \* history: invocations of each handler over all runs
    runs       \* calls of execute so far

vars == <<pc, status, results, outcome, batch, calls, runs>>

Init ==
    /\ pc = "idle"
    /\ status = [t \in Tasks |-> "PENDING"]
    /\ results = [t \in Tasks |-> "NONE"]
    /\ outcome = "RUNNING"
    /\ batch = {}
    /\ calls = [t \in Tasks |-> 0]
    /\ runs = 0

Execute ==
    /\ pc \in {"idle", "ended", "lost"} /\ runs < MaxRuns
    /\ pc' = "test" /\ runs' = runs + 1
    /\ results' = [t \in Tasks |-> "NONE"] /\ outcome' = "RUNNING"
    /\ batch' = {}
    /\ UNCHANGED <<status, calls>>

(* while not scheduler.done(): the ready list, or leave when it is empty. *)
LoopTest ==
    /\ pc = "test"
    /\ batch' = IF Done(status) THEN {} ELSE Ready(Deps, status)
    /\ pc' = IF batch' = {} THEN "fill" ELSE "start"
    /\ UNCHANGED <<status, results, outcome, calls, runs>>

NextInBatch(t) ==
    /\ pc = "start" /\ t \in batch
    /\ \A u \in batch : Rank[t] <= Rank[u]

AfterTask(t) == IF batch = {t} THEN "test" ELSE "start"

(* _execute_task: started, and failed at once for want of a handler. *)
NoHandler(t) ==
    /\ NextInBatch(t) /\ t \in Unbound
    /\ status' = Fail(Deps, [status EXCEPT ![t] = "RUNNING"], t)
    /\ results' = [results EXCEPT ![t] = "FAILED"]
    /\ batch' = batch \ {t} /\ pc' = AfterTask(t)
    /\ UNCHANGED <<outcome, calls, runs>>

(* ... or started, with its handler entered. *)
CallHandler(t) ==
    /\ NextInBatch(t)
    /\ status' = [status EXCEPT ![t] = "RUNNING"]
    /\ calls' = [calls EXCEPT ![t] = @ + 1]
    /\ pc' = "handler"
    /\ UNCHANGED <<results, outcome, batch, runs>>

Current(t) ==
    /\ pc = "handler" /\ t \in batch
    /\ \A u \in batch : Rank[t] <= Rank[u]

HandlerReturns(t) ==
    /\ Current(t)
    /\ status' = [status EXCEPT ![t] = "COMPLETED"]
    /\ results' = [results EXCEPT ![t] = "COMPLETED"]
    /\ batch' = batch \ {t} /\ pc' = AfterTask(t)
    /\ UNCHANGED <<outcome, calls, runs>>

HandlerRaises(t) ==
    /\ Current(t)
    /\ status' = Fail(Deps, status, t)
    /\ results' = [results EXCEPT ![t] = "FAILED"]
    /\ batch' = batch \ {t} /\ pc' = AfterTask(t)
    /\ UNCHANGED <<outcome, calls, runs>>

(* What is not an Exception goes through execute to its caller. *)
HandlerExits(t) ==
    /\ Current(t) /\ t \in Fatal
    /\ pc' = "lost"
    /\ UNCHANGED <<status, results, outcome, batch, calls, runs>>

Fill ==
    /\ pc = "fill" /\ pc' = "ended"
    /\ results' = [t \in Tasks |-> IF results[t] = "NONE" THEN status[t]
                                   ELSE results[t]]
    /\ outcome' = FinalStatus({results'[t] : t \in Tasks}, FALSE)
    /\ UNCHANGED <<status, batch, calls, runs>>

Step == LoopTest \/ Fill \/ \E t \in Tasks : \/ NoHandler(t) \/ CallHandler(t)
                                             \/ HandlerReturns(t) \/ HandlerRaises(t)
                                             \/ HandlerExits(t)

Rest == pc \in {"idle", "ended", "lost"} /\ UNCHANGED vars

Next == Execute \/ Step \/ Rest

Spec == Init /\ [][Next]_vars

-----------------------------------------------------------------------------
(* Properties. *)

(* Types; the result of a task is one of its statuses. *)
TypeOK ==
    /\ pc \in {"idle", "test", "start", "handler", "fill", "ended", "lost"}
    /\ status \in [Tasks -> TaskStatus]
    /\ results \in [Tasks -> TaskStatus \cup {"NONE"}]
    /\ outcome \in RunStatus
    /\ batch \in SUBSET Tasks
    /\ calls \in [Tasks -> Nat]
    /\ runs \in 0 .. MaxRuns

(* However often a plan is executed, and whatever was left by an execution  *)
(* that an exit cut short, no handler of the plan is invoked twice.         *)
HandlersRunOnce == \A t \in Tasks : calls[t] <= 1

Dag == INSTANCE DagRun WITH
          phase <- IF pc \in {"idle", "ended"} THEN "closed"
                   ELSE IF pc = "lost" THEN "lost" ELSE "open",
          verdict <- outcome

(* The first execution of a plan is a correct run of it.  A later one is    *)
(* not: it does not start from pending tasks.                               *)
ImplementsDagRun ==
    Dag!Init /\ [][runs' <= 1 => Dag!Next \/ UNCHANGED Dag!vars]_vars
=============================================================================
