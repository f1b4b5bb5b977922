----------------------------- MODULE Scheduler -----------------------------
(***************************************************************************)
(* nexus.kernel.scheduler.Scheduler as its callers use it: graphs are      *)
(* submitted, possibly in several batches, the ready tasks are started,    *)
(* and each started task completes or fails; any task may be cancelled.    *)
(* A request the class rejects raises and changes nothing, so rejections   *)
(* are the guards of the actions.  The two graph algorithms of the class   *)
(* are also written out as the code runs them.                             *)
(***************************************************************************)
EXTENDS TaskGraph, SequencesExt

CONSTANTS
    Ids,         \* task ids
    MaxSubmits   \* bound: batches submitted to one scheduler

ASSUME SubmitsAssumption == MaxSubmits \in Nat
ASSUME IdsAssumption == IsFiniteSet(Ids)

VARIABLES
    deps,     \* depends_on of every known task
    status,   \* Task.status of every known task
    late,     \* history: tasks submitted behind a task already failed
    submits   \* number of batches so far

vars == <<deps, status, late, submits>>

Known == DOMAIN status

Init ==
    /\ deps = <<>> /\ status = <<>>
    /\ late = {} /\ submits = 0

(* submit: new ids only, a closed graph, and no cycle in the whole of it. *)
Combined(batch) == [t \in Known \cup DOMAIN batch |->
                       IF t \in Known THEN deps[t] ELSE batch[t]]

Acceptable(batch) ==
    /\ DOMAIN batch \cap Known = {}
    /\ \A t \in DOMAIN batch : batch[t] \subseteq Known \cup DOMAIN batch
    /\ Acyclic(Combined(batch))

BehindFailure(batch) ==
    {t \in DOMAIN batch :
        \E d \in batch[t] \cap Known : status[d] \in {"FAILED", "BLOCKED"}}

Submit(batch) ==
    /\ submits < MaxSubmits /\ submits' = submits + 1
    /\ Acceptable(batch)
    /\ deps' = Combined(batch)
    /\ status' = [t \in Known \cup DOMAIN batch |->
                     IF t \in Known THEN status[t] ELSE "PENDING"]
    /\ late' = late \cup BehindFailure(batch)

Start(t) ==
    /\ t \in Ready(deps, status)
    /\ status[t] \in {"PENDING", "READY"}
    /\ status' = [status EXCEPT ![t] = "RUNNING"]
    /\ UNCHANGED <<deps, late, submits>>

Complete(t) ==
    /\ status[t] = "RUNNING"
    /\ status' = [status EXCEPT ![t] = "COMPLETED"]
    /\ UNCHANGED <<deps, late, submits>>

FailTask(t) ==
    /\ status[t] = "RUNNING"
    /\ status' = Fail(deps, status, t)
    /\ UNCHANGED <<deps, late, submits>>

Cancel(t) ==
    /\ status[t] \notin TerminalStatus
    /\ status' = [status EXCEPT ![t] = "CANCELLED"]
    /\ UNCHANGED <<deps, late, submits>>

Batches == UNION {[S -> SUBSET Ids] : S \in (SUBSET (Ids \ Known)) \ {{}}}

Next ==
    \/ \E batch \in Batches : Submit(batch)
    \/ \E t \in Known : Start(t) \/ Complete(t) \/ FailTask(t) \/ Cancel(t)

Spec == Init /\ [][Next]_vars

-----------------------------------------------------------------------------
(* _check_acyclic, Kahn's algorithm: what its loop holds after k turns.     *)
KahnStart(graph) ==
    [indegree |-> [t \in DOMAIN graph |-> Cardinality(graph[t])], visited |-> 0,
     queue |-> SetToSeq({t \in DOMAIN graph : Cardinality(graph[t]) = 0})]

KahnTurn(graph, s) ==
    LET tid == Last(s.queue)
        left == [u \in DOMAIN graph |->
                    IF tid \in graph[u] THEN s.indegree[u] - 1 ELSE s.indegree[u]]
    IN  [indegree |-> left, visited |-> s.visited + 1,
         queue |-> Front(s.queue)
                   \o SetToSeq({u \in DOMAIN graph : tid \in graph[u] /\ left[u] = 0})]

KahnLoop(graph) ==
    LET loop[k \in 0 .. Cardinality(DOMAIN graph)] ==
            IF k = 0 THEN KahnStart(graph)
            ELSE LET s == loop[k - 1] IN IF s.queue = <<>> THEN s ELSE KahnTurn(graph, s)
    IN  loop

(* No task is popped twice, so the loop ends within one turn per task.      *)
KahnAccepts(graph) ==
    LET end == KahnLoop(graph)[Cardinality(DOMAIN graph)]
    IN  end.queue = <<>> /\ end.visited = Cardinality(DOMAIN graph)

(* _block_dependents, a depth-first search: the statuses and the children   *)
(* still to be looked at, in all the calls that are open, after k looks.    *)
Children(graph, t) == SetToSeq({u \in DOMAIN graph : t \in graph[u]})

Look(graph, s) ==
    LET child == Head(s.todo)
    IN  IF s.st[child] \in TerminalStatus THEN [s EXCEPT !.todo = Tail(s.todo)]
        ELSE [st |-> [s.st EXCEPT ![child] = "BLOCKED"],
              todo |-> Children(graph, child) \o Tail(s.todo)]

Edges(graph) == {e \in (DOMAIN graph) \X (DOMAIN graph) : e[1] \in graph[e[2]]}

(* No dependency is followed twice, so the search ends within one look per  *)
(* dependency.                                                              *)
BlockDependents(graph, st, t) ==
    LET walk[k \in 0 .. Cardinality(Edges(graph))] ==
            IF k = 0 THEN [st |-> st, todo |-> Children(graph, t)]
            ELSE LET s == walk[k - 1] IN IF s.todo = <<>> THEN s ELSE Look(graph, s)
    IN  walk[Cardinality(Edges(graph))]

-----------------------------------------------------------------------------
(* A graph whose tasks all end makes progress: when something is left and   *)
(* nothing runs, either a task is ready, or a task was cancelled (cancel    *)
(* does not cascade), or was submitted behind a failure.                    *)
NeverStuck ==
    \/ Done(status)
    \/ \E t \in Known : status[t] \in {"RUNNING", "CANCELLED"}
    \/ Ready(deps, status) # {}
    \/ late # {}

(* The cascade is the depth-first search, whatever has already failed, been *)
(* blocked or been cancelled when a running task fails.                     *)
CascadeIsDepthFirst ==
    \A t \in Known : status[t] = "RUNNING" =>
        BlockDependents(deps, [status EXCEPT ![t] = "FAILED"], t)
            = [st |-> Fail(deps, status, t), todo |-> <<>>]

(* The cycle test is Kahn's algorithm on every closed graph that could be   *)
(* submitted next.                                                          *)
CycleTestIsKahn ==
    submits < MaxSubmits =>
        \A batch \in Batches :
            (\A t \in DOMAIN batch : batch[t] \subseteq Known \cup DOMAIN batch)
            => (Acyclic(Combined(batch)) <=> KahnAccepts(Combined(batch)))
=============================================================================
