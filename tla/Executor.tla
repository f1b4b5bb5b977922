------------------------------ MODULE Executor ------------------------------
(***************************************************************************)
(* nexus.executor.Executor running one plan, again and again, over the     *)
(* kernel primitives it uses: the scheduler, the state manager, a session  *)
(* and a thread pool.                                                      *)
(*                                                                         *)
(* Three kinds of process interleave.  The dispatcher is the thread inside *)
(* Executor._run; pc says which statement of the loop it is about to       *)
(* execute, one value per point where it reads something other threads     *)
(* write.  The workers are the pool's threads, each inside _invoke and a   *)
(* handler.  The callers launch runs and use the Job: they pause, unpause  *)
(* and cancel it, end the session and stop the runtime, at any moment.     *)
(*                                                                         *)
(* Scheduler, run record and in-flight table belong to the dispatcher      *)
(* alone, so a stretch of its code between two reads of shared state is    *)
(* one step here.                                                          *)
(***************************************************************************)
EXTENDS TaskGraph, Sequences

CONSTANTS
    Tasks,        \* the ids of the plan's tasks
    Deps,         \* Deps[t]: the ids in t.depends_on
    Rank,         \* position of t in the (-priority, submission) order
    MaxAttempts,  \* RetryPolicy.max_attempts
    MaxWorkers,   \* size of the thread pool
    Unbound,      \* tasks whose handler lookup may find nothing
    Guarded,      \* tasks SecurityGuard.check may reject
    Poison,       \* tasks whose output copy.deepcopy cannot copy
    Fatal,        \* tasks whose handler may raise a BaseException
    AllowPause,   \* whether callers use pause, unpause and submit(paused)
    MaxRuns,      \* bound: runs launched for the plan
    MaxEnds       \* bound: times a session is ended or the runtime stopped

ASSUME GraphAssumption ==
    /\ Deps \in [Tasks -> SUBSET Tasks]
    /\ Acyclic(Deps)
    /\ Rank \in [Tasks -> Int]
ASSUME BoundAssumption ==
    /\ MaxAttempts \in Nat \ {0} /\ MaxWorkers \in Nat \ {0}
    /\ MaxRuns \in Nat /\ MaxEnds \in Nat
    /\ AllowPause \in BOOLEAN

VARIABLES
    pc,           \* the dispatcher's position in _run
    status,       \* Task.status of the run's own task copies
    results,      \* Run.task_results
    outcome,      \* Run.status
    attempt,      \* the attempt number kept beside each in-flight future
    future,       \* what became of the task's latest future
    queue,        \* the pool's work queue
    batch,        \* what is left of the ready list being dispatched
    finished,     \* what is left of the futures cf.wait returned
    cancelFlag,   \* Job._cancel
    resumeFlag,   \* Job._resume
    interactive,  \* a caller holds the Job (submit, not execute or resume)
    resuming,     \* the run was launched by resume
    replayed,     \* tasks whose results came from the checkpoint
    wm,           \* tasks whose writes are in the session's namespace
    session,      \* the session's status
    up,           \* Runtime.running
    ckpt,         \* the plan's checkpoint in the state manager
    calls,        \* history: invocations of each task's handler in this run
    runs, ends    \* counters of the bounded environment actions

job    == <<cancelFlag, resumeFlag, interactive, resuming>>
record == <<status, results, outcome, replayed>>
pool   == <<attempt, future, queue, calls>>
work   == <<batch, finished>>
memory == <<wm, session, up, ends>>
vars   == <<pc, record, pool, work, job, memory, ckpt, runs>>

-----------------------------------------------------------------------------
Inactive == {"idle", "ended", "dead"}
Live     == {"queued", "unbound", "running", "wrote"}
Settled  == {"ok", "error", "fatal"}

NoResult     == [status |-> "NONE", attempts |-> 0]
Result(s, n) == [status |-> s, attempts |-> n]
NoCheckpoint == [completed |-> {}, memory |-> {}, taken |-> FALSE]

Inflight == {t \in Tasks : future[t] # "none"}
Busy     == {t \in Tasks : future[t] \in {"running", "wrote"}}
Paused   == ~resumeFlag /\ ~cancelFlag
Completed(res) == {t \in Tasks : res[t].status = "COMPLETED"}

Init ==
    /\ pc = "idle"
    /\ status = [t \in Tasks |-> "PENDING"]
    /\ results = [t \in Tasks |-> NoResult]
    /\ outcome = "RUNNING" /\ replayed = {}
    /\ attempt = [t \in Tasks |-> 0] /\ future = [t \in Tasks |-> "none"]
    /\ queue = <<>> /\ calls = [t \in Tasks |-> 0]
    /\ batch = {} /\ finished = {}
    /\ cancelFlag = FALSE /\ resumeFlag = TRUE
    /\ interactive = FALSE /\ resuming = FALSE
    /\ wm = {} /\ session = "none" /\ up = TRUE
    /\ ckpt = NoCheckpoint
    /\ runs = 0 /\ ends = 0

-----------------------------------------------------------------------------
(***************************************************************************)
(* The callers.                                                            *)
(***************************************************************************)
Launch(isJob, isResume, running) ==
    /\ pc \in Inactive /\ runs < MaxRuns
    /\ pc' = "boot" /\ runs' = runs + 1
    /\ interactive' = isJob /\ resuming' = isResume
    /\ cancelFlag' = FALSE /\ resumeFlag' = running
    /\ status' = [t \in Tasks |-> "PENDING"]
    /\ results' = [t \in Tasks |-> NoResult]
    /\ outcome' = "RUNNING" /\ replayed' = {}
    /\ attempt' = [t \in Tasks |-> 0] /\ future' = [t \in Tasks |-> "none"]
    /\ queue' = <<>> /\ calls' = [t \in Tasks |-> 0]
    /\ batch' = {} /\ finished' = {}
    /\ UNCHANGED <<memory, ckpt>>

(* submit: refused unless the runtime runs; only here a caller gets a Job. *)
Submit == up /\ \E running \in BOOLEAN :
                   /\ running \/ AllowPause
                   /\ Launch(TRUE, FALSE, running)

(* execute and resume keep their Job to themselves. *)
Execute == Launch(FALSE, FALSE, TRUE)
Resume  == ckpt.taken /\ Launch(FALSE, TRUE, TRUE)

HoldsJob == interactive /\ pc \notin Inactive

Pause ==
    /\ HoldsJob /\ AllowPause
    /\ resumeFlag' = FALSE
    /\ UNCHANGED <<pc, record, pool, work, cancelFlag, interactive, resuming,
                   memory, ckpt, runs>>

Unpause ==
    /\ HoldsJob /\ AllowPause
    /\ resumeFlag' = TRUE
    /\ UNCHANGED <<pc, record, pool, work, cancelFlag, interactive, resuming,
                   memory, ckpt, runs>>

Cancel ==
    /\ HoldsJob
    /\ cancelFlag' = TRUE /\ resumeFlag' = TRUE
    /\ UNCHANGED <<pc, record, pool, work, interactive, resuming,
                   memory, ckpt, runs>>

(* SessionManager.end: idempotent, and it drops the session's namespace. *)
EndSession ==
    /\ session = "active" /\ ends < MaxEnds
    /\ session' = "ended" /\ wm' = {} /\ ends' = ends + 1
    /\ UNCHANGED <<pc, record, pool, work, job, up, ckpt, runs>>

(* Runtime.stop ends every active session first. *)
StopRuntime ==
    /\ up /\ ends < MaxEnds
    /\ up' = FALSE /\ ends' = ends + 1
    /\ IF session = "active"
       THEN session' = "ended" /\ wm' = {}
       ELSE UNCHANGED <<session, wm>>
    /\ UNCHANGED <<pc, record, pool, work, job, ckpt, runs>>

StartRuntime ==
    /\ ~up /\ up' = TRUE
    /\ UNCHANGED <<pc, record, pool, work, job, wm, session, ends, ckpt, runs>>

-----------------------------------------------------------------------------
(***************************************************************************)
(* The dispatcher: the prologue of _run.                                   *)
(***************************************************************************)

(* The runtime was stopped meanwhile: _run raises, and no Run ever appears. *)
BootRefused ==
    /\ pc = "boot" /\ ~up
    /\ pc' = "dead"
    /\ UNCHANGED <<record, pool, work, job, memory, ckpt, runs>>

(* Fault: the replayed results are kept but their tasks are left pending. *)
BootReplaysResultsOnly ==
    /\ pc = "boot" /\ up
    /\ pc' = "loop"
    /\ session' = "active" /\ wm' = IF resuming THEN ckpt.memory ELSE {}
    /\ replayed' = IF resuming THEN ckpt.completed ELSE {}
    /\ results' = [t \in Tasks |->
                     IF t \in replayed' THEN Result("COMPLETED", 1) ELSE NoResult]
    /\ UNCHANGED <<status, outcome, pool, work, job, up, ends, ckpt, runs>>

(* Fault: the snapshot is not restored on resume. *)
BootWithoutRestore ==
    /\ pc = "boot" /\ up
    /\ pc' = "loop"
    /\ session' = "active" /\ wm' = {}
    /\ replayed' = IF resuming THEN ckpt.completed ELSE {}
    /\ status' = [t \in Tasks |->
                     IF t \in replayed' THEN "COMPLETED" ELSE "PENDING"]
    /\ results' = [t \in Tasks |->
                     IF t \in replayed' THEN Result("COMPLETED", 1) ELSE NoResult]
    /\ UNCHANGED <<outcome, pool, work, job, up, ends, ckpt, runs>>

(* The session is the caller's, active or not, or a new one.  A resumed run *)
(* puts the snapshot in place of the namespace and replays what completed.  *)
Boot ==
    /\ pc = "boot" /\ up
    /\ pc' = "loop"
    /\ \E mine \in BOOLEAN :
          /\ mine => session # "none"
          /\ session' = IF mine THEN session ELSE "active"
          /\ wm' = IF resuming THEN ckpt.memory ELSE IF mine THEN wm ELSE {}
    /\ replayed' = IF resuming THEN ckpt.completed ELSE {}
    /\ status' = [t \in Tasks |->
                     IF t \in replayed' THEN "COMPLETED" ELSE "PENDING"]
    /\ results' = [t \in Tasks |->
                     IF t \in replayed' THEN Result("COMPLETED", 1) ELSE NoResult]
    /\ UNCHANGED <<outcome, pool, work, job, up, ends, ckpt, runs>>

(***************************************************************************)
(* The dispatch loop, one action per statement that reads shared state.    *)
(***************************************************************************)

(* Fault: a cancelled run does not wait for what is in flight. *)
LoopTestSkipsDrain ==
    /\ pc = "loop"
    /\ pc' = IF ~cancelFlag THEN "scan" ELSE "sweep"
    /\ UNCHANGED <<record, pool, work, job, memory, ckpt, runs>>

(* while not job.cancelled, and the test after the loop. *)
LoopTest ==
    /\ pc = "loop"
    /\ pc' = IF ~cancelFlag THEN "scan"
             ELSE IF Inflight # {} THEN "drain" ELSE "sweep"
    /\ UNCHANGED <<record, pool, work, job, memory, ckpt, runs>>

(* Fault: a task whose dependencies are still running counts as ready. *)
ScanEager ==
    /\ pc = "scan"
    /\ batch' = IF Paused THEN {}
                ELSE {t \in Tasks : /\ status[t] = "PENDING"
                                    /\ \A d \in Deps[t] :
                                          status[d] \in {"RUNNING", "COMPLETED"}}
    /\ pc' = IF batch' = {} THEN "check" ELSE "batch"
    /\ UNCHANGED <<record, pool, finished, job, memory, ckpt, runs>>

(* if not job.paused: the ready list is computed once, before its tasks run. *)
Scan ==
    /\ pc = "scan"
    /\ batch' = IF Paused THEN {} ELSE Ready(Deps, status)
    /\ pc' = IF batch' = {} THEN "check" ELSE "batch"
    /\ UNCHANGED <<record, pool, finished, job, memory, ckpt, runs>>

(* Fault: the checkpoint is taken before the result is recorded. *)
SaveCheckpointEarly(res, next) ==
    /\ ckpt' = [completed |-> Completed(results), memory |-> wm, taken |-> TRUE]
    /\ pc' = next

(* Fault: a resumed run saves its own results without the replayed ones. *)
SaveCheckpointOwn(res, next) ==
    /\ ckpt' = [completed |-> Completed(res) \ replayed, memory |-> wm, taken |-> TRUE]
    /\ pc' = next

(* _save_checkpoint: deepcopy of an output may raise, and nothing in _run   *)
(* catches it; the thread leaves through the pool's __exit__.               *)
SaveCheckpoint(res, next) ==
    IF Completed(res) \cap Poison = {}
    THEN /\ ckpt' = [completed |-> Completed(res), memory |-> wm, taken |-> TRUE]
         /\ pc' = next
    ELSE pc' = "dying" /\ UNCHANGED ckpt

NextInBatch(t) ==
    /\ pc = "batch" /\ t \in batch
    /\ \A u \in batch : Rank[t] <= Rank[u]
    /\ batch' = batch \ {t}

AfterDispatch(t) == IF batch = {t} THEN "check" ELSE "batch"

(* _dispatch, first attempt: started, then refused by the security guard or *)
(* for want of a handler; the task fails without ever reaching the pool.    *)
DispatchRefused(t) ==
    /\ NextInBatch(t)
    /\ t \in Guarded \cup Unbound
    /\ status' = Fail(Deps, [status EXCEPT ![t] = "RUNNING"], t)
    /\ results' = [results EXCEPT ![t] = Result("FAILED", 1)]
    /\ SaveCheckpoint(results', AfterDispatch(t))
    /\ UNCHANGED <<outcome, replayed, pool, finished, job, memory, runs>>

(* _dispatch, first attempt: started and handed to the pool. *)
Dispatch(t) ==
    /\ NextInBatch(t)
    /\ pc' = AfterDispatch(t)
    /\ status' = [status EXCEPT ![t] = "RUNNING"]
    /\ attempt' = [attempt EXCEPT ![t] = 1]
    /\ future' = [future EXCEPT ![t] = "queued"]
    /\ queue' = Append(queue, t)
    /\ UNCHANGED <<results, outcome, replayed, calls, finished, job, memory,
                   ckpt, runs>>

(* if not inflight: poll again while paused, otherwise leave the loop. *)
Check ==
    /\ pc = "check"
    /\ pc' = IF Inflight # {} THEN "wait"
             ELSE IF Paused /\ ~Done(status) THEN "loop" ELSE "sweep"
    /\ UNCHANGED <<record, pool, work, job, memory, ckpt, runs>>

(* Fault: only successful futures are collected. *)
WaitForSuccess ==
    /\ pc = "wait"
    /\ finished' = {t \in Inflight : future[t] = "ok"}
    /\ pc' = IF finished' = {} THEN "loop" ELSE "settle"
    /\ UNCHANGED <<record, pool, batch, job, memory, ckpt, runs>>

(* cf.wait with a timeout: whatever has finished, possibly nothing. *)
Wait ==
    /\ pc = "wait"
    /\ finished' = {t \in Inflight : future[t] \in Settled}
    /\ pc' = IF finished' = {} THEN "loop" ELSE "settle"
    /\ UNCHANGED <<record, pool, batch, job, memory, ckpt, runs>>

(* After a cancel: cf.wait for everything in flight. *)
Drain ==
    /\ pc = "drain"
    /\ \A t \in Inflight : future[t] \in Settled
    /\ finished' = Inflight
    /\ pc' = "flush"
    /\ UNCHANGED <<record, pool, batch, job, memory, ckpt, runs>>

(***************************************************************************)
(* _settle, for a future of the loop ("settle") or of the drain ("flush"). *)
(***************************************************************************)
Settling(t) ==
    /\ pc \in {"settle", "flush"} /\ t \in finished
    /\ finished' = finished \ {t}

AfterSettle(t) ==
    IF finished # {t} THEN pc ELSE IF pc = "settle" THEN "loop" ELSE "sweep"

(* Fault: one attempt too many. *)
AllowRetryOnceMore(t) == pc = "settle" /\ ~cancelFlag /\ attempt[t] <= MaxAttempts

(* Fault: the cancel flag is not consulted before a retry. *)
AllowRetryCancelled(t) == pc = "settle" /\ attempt[t] < MaxAttempts

AllowRetry(t) == pc = "settle" /\ ~cancelFlag /\ attempt[t] < MaxAttempts

(* The handler is looked up again; the security guard is not asked again. *)
Retry(t) ==
    /\ Settling(t)
    /\ future[t] = "error" /\ AllowRetry(t)
    /\ pc' = AfterSettle(t)
    /\ \E found \in {"queued"} \cup (IF t \in Unbound THEN {"unbound"} ELSE {}) :
          future' = [future EXCEPT ![t] = found]
    /\ attempt' = [attempt EXCEPT ![t] = @ + 1]
    /\ queue' = Append(queue, t)
    /\ UNCHANGED <<record, calls, batch, job, memory, ckpt, runs>>

SettleFailure(t) ==
    /\ Settling(t)
    /\ future[t] = "error" /\ ~AllowRetry(t)
    /\ status' = Fail(Deps, status, t)
    /\ results' = [results EXCEPT ![t] = Result("FAILED", attempt[t])]
    /\ future' = [future EXCEPT ![t] = "none"]
    /\ SaveCheckpoint(results', AfterSettle(t))
    /\ UNCHANGED <<outcome, replayed, attempt, queue, calls, batch, job, memory,
                   runs>>

SettleSuccess(t) ==
    /\ Settling(t)
    /\ future[t] = "ok"
    /\ status' = [status EXCEPT ![t] = "COMPLETED"]
    /\ results' = [results EXCEPT ![t] = Result("COMPLETED", attempt[t])]
    /\ future' = [future EXCEPT ![t] = "none"]
    /\ SaveCheckpoint(results', AfterSettle(t))
    /\ UNCHANGED <<outcome, replayed, attempt, queue, calls, batch, job, memory,
                   runs>>

(* future.result() re-raises what _invoke does not catch. *)
SettleFatal(t) ==
    /\ Settling(t)
    /\ future[t] = "fatal"
    /\ future' = [future EXCEPT ![t] = "none"]
    /\ pc' = "dying"
    /\ UNCHANGED <<record, attempt, queue, calls, batch, job, memory, ckpt, runs>>

(* The pool's __exit__ joins the workers, queued work included. *)
Die ==
    /\ pc = "dying"
    /\ \A t \in Tasks : future[t] \notin Live
    /\ pc' = "dead"
    /\ UNCHANGED <<record, pool, work, job, memory, ckpt, runs>>

(***************************************************************************)
(* The epilogue of _run.                                                   *)
(***************************************************************************)
Sweep ==
    /\ pc = "sweep"
    /\ pc' = "close"
    /\ status' = IF cancelFlag THEN CancelRest(status) ELSE status
    /\ UNCHANGED <<results, outcome, replayed, pool, work, job, memory, ckpt, runs>>

Close ==
    /\ pc = "close"
    /\ pc' = "ended"
    /\ results' = [t \in Tasks |-> IF results[t] = NoResult
                                   THEN Result(status[t], 1) ELSE results[t]]
    /\ outcome' = FinalStatus({results'[t].status : t \in Tasks}, cancelFlag)
    /\ UNCHANGED <<status, replayed, pool, work, job, memory, ckpt, runs>>

-----------------------------------------------------------------------------
(* Fault: once the run is cancelled, queued work is never taken up. *)
StartWorkerUnlessCancelled ==
    /\ ~cancelFlag
    /\ queue # <<>> /\ Cardinality(Busy) < MaxWorkers
    /\ LET t == Head(queue) IN
         /\ future' = [future EXCEPT ![t] =
                          IF @ = "unbound" THEN "error" ELSE "running"]
         /\ calls' = [calls EXCEPT ![t] = @ + 1]
    /\ queue' = Tail(queue)
    /\ UNCHANGED <<pc, record, attempt, work, job, memory, ckpt, runs>>

(***************************************************************************)
(* The workers.  A handler writes its working memory before it returns and *)
(* may raise before or after the write.                                    *)
(***************************************************************************)
StartWorker ==
    /\ queue # <<>> /\ Cardinality(Busy) < MaxWorkers
    /\ LET t == Head(queue) IN
         /\ future' = [future EXCEPT ![t] =
                          IF @ = "unbound" THEN "error" ELSE "running"]
         /\ calls' = [calls EXCEPT ![t] = @ + 1]
    /\ queue' = Tail(queue)
    /\ UNCHANGED <<pc, record, attempt, work, job, memory, ckpt, runs>>

WriteMemory(t) ==
    /\ future[t] = "running"
    /\ future' = [future EXCEPT ![t] = "wrote"]
    /\ wm' = wm \cup {t}
    /\ UNCHANGED <<pc, record, attempt, queue, calls, work, job, session, up,
                   ends, ckpt, runs>>

HandlerEnds(t, from, how) ==
    /\ future[t] \in from
    /\ future' = [future EXCEPT ![t] = how]
    /\ UNCHANGED <<pc, record, attempt, queue, calls, work, job, memory, ckpt, runs>>

HandlerReturns(t) == HandlerEnds(t, {"wrote"}, "ok")
HandlerRaises(t)  == HandlerEnds(t, {"running", "wrote"}, "error")
HandlerExits(t)   == t \in Fatal /\ HandlerEnds(t, {"running", "wrote"}, "fatal")

-----------------------------------------------------------------------------
Callers == \/ Submit \/ Execute \/ Resume
           \/ Pause \/ Unpause \/ Cancel
           \/ EndSession \/ StopRuntime \/ StartRuntime

Dispatcher ==
    \/ BootRefused \/ Boot
    \/ LoopTest \/ Scan \/ Check \/ Wait \/ Drain
    \/ Die \/ Sweep \/ Close
    \/ \E t \in Tasks : \/ DispatchRefused(t) \/ Dispatch(t)
                        \/ Retry(t) \/ SettleFailure(t) \/ SettleSuccess(t)
                        \/ SettleFatal(t)

Handler(t) == WriteMemory(t) \/ HandlerReturns(t) \/ HandlerRaises(t) \/ HandlerExits(t)

(* Between runs nothing has to happen. *)
Rest == pc \in Inactive /\ UNCHANGED vars

Next == Callers \/ Dispatcher \/ StartWorker \/ (\E t \in Tasks : Handler(t)) \/ Rest

Spec == Init /\ [][Next]_vars

(***************************************************************************)
(* Threads that can run do run, and handlers terminate.  Callers owe       *)
(* nothing: a job may stay paused for ever.                                *)
(***************************************************************************)
Fairness == /\ WF_vars(Dispatcher)
            /\ WF_vars(StartWorker)
            /\ \A t \in Tasks : WF_vars(Handler(t))

FairSpec == Spec /\ Fairness

-----------------------------------------------------------------------------
(***************************************************************************)
(* Properties.                                                             *)
(***************************************************************************)
Positions == Inactive \cup {"boot", "loop", "scan", "batch", "check", "wait",
                           "settle", "drain", "flush", "sweep", "close", "dying"}
ResultType == [status : TaskStatus \cup {"NONE"}, attempts : 0..MaxAttempts]
CkptType == [completed : SUBSET Tasks, memory : SUBSET Tasks, taken : BOOLEAN]
FutureType == {"none"} \cup Live \cup Settled

FlagsOK == /\ cancelFlag \in BOOLEAN /\ resumeFlag \in BOOLEAN
           /\ interactive \in BOOLEAN /\ resuming \in BOOLEAN /\ up \in BOOLEAN

DataOK ==
    /\ pc \in Positions
    /\ status \in [Tasks -> TaskStatus]
    /\ results \in [Tasks -> ResultType]
    /\ outcome \in RunStatus
    /\ attempt \in [Tasks -> 0..MaxAttempts]
    /\ future \in [Tasks -> FutureType]
    /\ queue \in Seq(Tasks)
    /\ batch \in SUBSET Tasks /\ finished \in SUBSET Tasks
    /\ replayed \in SUBSET Tasks
    /\ wm \in SUBSET Tasks
    /\ session \in {"none", "active", "ended"}
    /\ ckpt \in CkptType
    /\ calls \in [Tasks -> Nat]
    /\ runs \in 0..MaxRuns /\ ends \in 0..MaxEnds

(* Types; no task is attempted more than MaxAttempts times. *)
TypeOK == DataOK /\ FlagsOK

DispatcherLive == pc \notin Inactive \cup {"boot", "dying"}

(* A task runs, and hence completes or fails, only after everything it      *)
(* depends on has completed: with retries, refusals, cancels and resumes in *)
(* between (the loop of Executor._run over Scheduler.ready).                *)
DependencyOrder ==
    \A t \in Tasks : status[t] \in {"RUNNING", "COMPLETED", "FAILED"} =>
                        \A d \in Deps[t] : status[d] = "COMPLETED"

(* Scheduler.start, complete and fail raise on an illegal request, and      *)
(* nothing catches that in the dispatcher.  The ready list, computed once,  *)
(* stays legal while refusals in the middle of it block other tasks, and    *)
(* the futures held are those of exactly the tasks that run.                *)
NoSchedulerError ==
    /\ pc = "batch" => batch \subseteq Ready(Deps, status)
    /\ DispatcherLive => \A t \in Tasks : status[t] = "RUNNING" <=> t \in Inflight

(* A task is blocked exactly when something it depends on failed or is      *)
(* itself blocked, at every moment, with several branches failing in any    *)
(* order (Scheduler._block_dependents).                                     *)
BlockedIffBehindFailure == BlockedConsistent(Deps, status)

(* A resumed run never executes again what it replayed from a checkpoint.   *)
ReplayedNotReexecuted ==
    \A t \in replayed : calls[t] = 0 /\ status[t] = "COMPLETED"

(* At every moment of a run that has recorded a result, the checkpoint      *)
(* holds exactly the tasks the run record counts as completed: whatever     *)
(* interrupts the process next, resume loses no settled task and invents    *)
(* none.                                                                    *)
CheckpointCurrent ==
    /\ DispatcherLive
    /\ \E t \in Tasks : results[t].status \in {"COMPLETED", "FAILED"} /\ t \notin replayed
    => ckpt.completed = Completed(results)

(* A resumed run starts from a sound state: what the checkpoint calls       *)
(* completed includes everything it depends on (Executor._save_checkpoint). *)
CheckpointDownClosed == \A t \in ckpt.completed : Deps[t] \subseteq ckpt.completed

(* The checkpoint holds the working memory its completed tasks had written, *)
(* so that a resumed run finds what they produced.                          *)
CheckpointHasMemory == ckpt.completed \subseteq ckpt.memory

(* A run that is not cancelled leaves its loop only when every task is done.*)
NoTaskLeftBehind ==
    pc \in {"sweep", "close", "ended"} /\ ~cancelFlag => Done(status)

(* What cancel does guarantee: at most the one ready list already being     *)
(* dispatched, or about to be read, still goes out; nothing is retried.     *)
CancelBoundsDispatch ==
    [][cancelFlag /\ pc' # "boot" =>
          /\ \A t \in Tasks : attempt'[t] > attempt[t] => pc = "batch" /\ attempt[t] = 0
          /\ pc' = "scan" => pc = "scan"]_vars

(* A run that was cancelled ends, however it was paused (Job.cancel). *)
CancelEndsRun == cancelFlag /\ pc \notin Inactive ~> pc \in Inactive

(* A run that is not paused for ever ends (Job.wait returns). *)
RunEnds == pc \notin Inactive ~> pc \in Inactive \/ Paused

(* The executor implements the abstract run. *)
Dag == INSTANCE DagRun WITH
          phase <- IF pc \in {"idle", "ended"} THEN "closed"
                   ELSE IF pc = "dead" THEN "lost" ELSE "open",
          verdict <- outcome
ImplementsDagRun == Dag!Spec
=============================================================================
