--------------------------- MODULE ExecutorProofs ---------------------------
(***************************************************************************)
(* Proofs about Executor, for every plan, pool size, retry bound and fault *)
(* assumption.  The argument is one inductive invariant, IInv: TypeOK is   *)
(* proved by itself first, then each action is shown to preserve the rest. *)
(***************************************************************************)
EXTENDS Executor, FiniteSetTheorems, TLAPS

-----------------------------------------------------------------------------
(***************************************************************************)
(* The inductive invariant behind the safety properties: what ties pc, the *)
(* scheduler's statuses, the run record, the futures and the two work      *)
(* lists together.                                                         *)
(***************************************************************************)
StatusInv ==
    \A t \in Tasks : /\ status[t] # "READY"
                     /\ status[t] = "CANCELLED" => cancelFlag /\ pc \in {"close", "ended"}

BatchInv == pc = "batch" => batch \subseteq Ready(Deps, status)

QueueInv ==
    /\ \A i \in DOMAIN queue : future[queue[i]] \in {"queued", "unbound"}
    /\ \A i, j \in DOMAIN queue : queue[i] = queue[j] => i = j

FutureInv ==
    /\ DispatcherLive => \A t \in Tasks : status[t] = "RUNNING" <=> t \in Inflight
    /\ \A t \in finished : future[t] \in Settled
    /\ pc \in {"drain", "flush"} => cancelFlag
    /\ pc = "flush" => Inflight = finished
    /\ pc \in {"boot", "sweep", "close"} => Inflight = {}

BootInv == pc = "boot" => \A t \in Tasks : status[t] = "PENDING" /\ results[t] = NoResult

(* A result is recorded for exactly the tasks that completed or failed; the *)
(* epilogue adds the others.                                                *)
ResultsInv ==
    \A t \in Tasks :
        \/ results[t] = NoResult /\ status[t] \notin {"COMPLETED", "FAILED"}
        \/ /\ results[t].status = status[t]
           /\ status[t] \in {"COMPLETED", "FAILED"} \/ pc = "ended"

IInv ==
    /\ TypeOK /\ StatusInv /\ BatchInv /\ QueueInv /\ FutureInv /\ BootInv
    /\ ResultsInv /\ DependencyOrder /\ BlockedIffBehindFailure
    /\ CheckpointDownClosed

(* Without pauses, an empty ready list means that every task is done.       *)
NoPauseInv ==
    ~AllowPause =>
        /\ resumeFlag
        /\ pc = "batch" => Ready(Deps, status) \subseteq batch
        /\ pc = "check" => Ready(Deps, status) = {}
        /\ pc = "sweep" => cancelFlag \/ Done(status)
        /\ pc \in {"close", "ended"} => Done(status)

(* What a resumed run replayed has no future, and was never invoked.        *)
ReplayInv ==
    /\ \A t \in replayed : calls[t] = 0 /\ status[t] = "COMPLETED" /\ future[t] = "none"
    /\ pc = "boot" => replayed = {} /\ \A t \in Tasks : calls[t] = 0

(* Until a session is ended, what a completed task wrote, or one that is     *)
(* about to complete, is in the namespace and goes into every checkpoint.   *)
MemoryInv ==
    ends = 0 =>
        /\ CheckpointHasMemory
        /\ \A t \in Tasks : results[t].status = "COMPLETED" \/ future[t] \in {"wrote", "ok"}
                           => t \in wm

(* The attempts of a task are counted from its start.                       *)
AttemptInv == \A t \in Tasks : status[t] = "PENDING" => attempt[t] = 0

-----------------------------------------------------------------------------

(* The lemmas about the operators of TaskGraph are proved with Scheduler;   *)
(* what that module is instantiated with does not matter to them.           *)
Graph == INSTANCE SchedulerProofs
         WITH deps <- Deps, status <- status, late <- {}, submits <- 0,
              Ids <- {}, MaxSubmits <- 0

LEMMA GraphOperators ==
    /\ Graph!IdsAssumption
    /\ \A D, st, t : Graph!Fail(D, st, t) = Fail(D, st, t)
    /\ Graph!TaskStatus = TaskStatus
    /\ \A D, st : Graph!BlockedConsistent(D, st) = BlockedConsistent(D, st)
    /\ \A D : Graph!Acyclic(D) = Acyclic(D)
    /\ \A D, st : Graph!Ready(D, st) = Ready(D, st)
    /\ \A st : Graph!Done(st) = Done(st)
<1>1. Graph!IdsAssumption
  BY FS_EmptySet, Zenon DEF Graph!IdsAssumption, IsFiniteSet, Graph!IsFiniteSet
<1> QED
  BY <1>1 DEF Fail, Graph!Fail, Blocked, Graph!Blocked,
     ClosedUnderBlocking, Graph!ClosedUnderBlocking,
     TerminalStatus, Graph!TerminalStatus, TaskStatus, Graph!TaskStatus,
     BlockedConsistent, Graph!BlockedConsistent, Acyclic, Graph!Acyclic,
     Ready, Graph!Ready, Done, Graph!Done


USE GraphAssumption, BoundAssumption

(* Failing any task leaves every status a status. *)
LEMMA FailType ==
    ASSUME NEW st \in [Tasks -> TaskStatus], NEW t \in Tasks
    PROVE  Fail(Deps, st, t) \in [Tasks -> TaskStatus]
BY DEF Fail, TaskStatus

(* Rejecting a task starts it first; that intermediate state is one too. *)
LEMMA FailStartedType ==
    ASSUME NEW st \in [Tasks -> TaskStatus], NEW t \in Tasks
    PROVE  Fail(Deps, [st EXCEPT ![t] = "RUNNING"], t) \in [Tasks -> TaskStatus]
<1>1. [st EXCEPT ![t] = "RUNNING"] \in [Tasks -> TaskStatus]
  BY DEF TaskStatus
<1> QED
  BY <1>1, FailType

LEMMA FinalStatusType ==
    ASSUME NEW S, NEW c \in BOOLEAN
    PROVE  FinalStatus(S, c) \in RunStatus
BY DEF FinalStatus, RunStatus

(* Writing a checkpoint, or failing to. *)
LEMMA SaveCheckpointType ==
    ASSUME NEW res, NEW next, SaveCheckpoint(res, next),
           wm \in SUBSET Tasks, ckpt \in CkptType
    PROVE  /\ ckpt' \in CkptType
           /\ pc' = next \/ pc' = "dying"
<1> DEFINE C == Completed(res)
<1>1. C \in SUBSET Tasks
  BY DEF Completed
<1> HIDE DEF C
<1>2. [completed |-> C, memory |-> wm, taken |-> TRUE] \in CkptType
  BY <1>1 DEF CkptType
<1> QED
  BY <1>2 DEF SaveCheckpoint, C

(* Results of a run fit their type. *)
LEMMA ResultTypes ==
    /\ NoResult \in ResultType
    /\ \A s \in TaskStatus, n \in 0..MaxAttempts : Result(s, n) \in ResultType
    /\ 1 \in 0..MaxAttempts /\ 0 \in 0..MaxAttempts
BY DEF NoResult, Result, ResultType

-----------------------------------------------------------------------------
LEMMA InitDataOK == Init => DataOK
<1> SUFFICES ASSUME Init PROVE DataOK
  OBVIOUS
<1>1. ckpt \in CkptType
  BY DEF Init, NoCheckpoint, CkptType
<1>2. results \in [Tasks -> ResultType]
  BY ResultTypes DEF Init
<1>3. queue \in Seq(Tasks)
  BY DEF Init
<1>4. /\ status \in [Tasks -> TaskStatus] /\ outcome \in RunStatus
      /\ attempt \in [Tasks -> 0..MaxAttempts]
      /\ future \in [Tasks -> FutureType]
      /\ calls \in [Tasks -> Nat]
  BY DEF Init, TaskStatus, RunStatus, FutureType
<1>5. /\ batch \in SUBSET Tasks /\ finished \in SUBSET Tasks
      /\ replayed \in SUBSET Tasks /\ wm \in SUBSET Tasks
      /\ session \in {"none", "active", "ended"}
      /\ runs \in 0..MaxRuns /\ ends \in 0..MaxEnds /\ pc \in Inactive
  BY DEF Init, Inactive
<1> QED
  BY <1>1, <1>2, <1>3, <1>4, <1>5 DEF DataOK, Positions

LEMMA CallersDataOK == DataOK /\ Callers => DataOK'
<1> SUFFICES ASSUME DataOK, Callers PROVE DataOK'
  OBVIOUS
<1> USE DEF DataOK, job, record, pool, work, memory
<1>1. ASSUME NEW j \in BOOLEAN, NEW r \in BOOLEAN, NEW run \in BOOLEAN,
             Launch(j, r, run)
      PROVE  DataOK'
  BY <1>1, ResultTypes DEF Launch, TaskStatus, RunStatus, FutureType, Positions, Inactive
<1>2. CASE Submit \/ Execute \/ Resume
  BY <1>1, <1>2 DEF Submit, Execute, Resume
<1>3. CASE Pause \/ Unpause \/ Cancel
  BY <1>3 DEF Pause, Unpause, Cancel
<1>4. CASE EndSession \/ StopRuntime \/ StartRuntime
  BY <1>4 DEF EndSession, StopRuntime, StartRuntime
<1> QED
  BY <1>2, <1>3, <1>4 DEF Callers

LEMMA DispatcherDataOK == TypeOK /\ Dispatcher => DataOK'
<1> SUFFICES ASSUME DataOK, cancelFlag \in BOOLEAN, Dispatcher PROVE DataOK'
  BY DEF TypeOK, FlagsOK
<1> USE DEF job, record, pool, work, memory
<1>1. CASE BootRefused
  BY <1>1 DEF DataOK, BootRefused, Positions, Inactive
<1>2. CASE Boot
  <2>1. /\ ckpt.completed \in SUBSET Tasks /\ ckpt.memory \in SUBSET Tasks
        /\ "COMPLETED" \in TaskStatus /\ "PENDING" \in TaskStatus
    BY DEF DataOK, CkptType, TaskStatus
  <2> QED
    BY <1>2, <2>1, ResultTypes DEF DataOK, Boot, Positions
<1>3. CASE LoopTest \/ Check \/ Drain \/ Die
  BY <1>3 DEF DataOK, LoopTest, Check, Drain, Die, Inflight, Inactive, Positions
<1>4. CASE Scan
  BY <1>4 DEF DataOK, Scan, Ready, Positions
<1>5. CASE Wait
  BY <1>5 DEF DataOK, Wait, Inflight, Positions
<1>6. CASE Sweep
  BY <1>6 DEF DataOK, Sweep, CancelRest, TaskStatus, Positions
<1>7. CASE Close
  <2>1. outcome' \in RunStatus
    BY <1>7, FinalStatusType DEF Close, DataOK
  <2> QED
    BY <1>7, <2>1, ResultTypes DEF DataOK, Close, Inactive, Positions
<1>8. ASSUME NEW t \in Tasks, DispatchRefused(t)
      PROVE  DataOK'
  <2>1. /\ status' \in [Tasks -> TaskStatus]
        /\ AfterDispatch(t) \in {"check", "batch"}
    BY <1>8, FailStartedType DEF DispatchRefused, DataOK, AfterDispatch
  <2>2. /\ ckpt' \in CkptType
        /\ pc' = AfterDispatch(t) \/ pc' = "dying"
    BY <1>8, <2>1, SaveCheckpointType DEF DispatchRefused, DataOK
  <2> QED
    BY <1>8, <2>1, <2>2, ResultTypes
       DEF DispatchRefused, DataOK, NextInBatch, TaskStatus, Positions
<1>9. ASSUME NEW t \in Tasks, Dispatch(t)
      PROVE  DataOK'
  BY <1>9 DEF Dispatch, DataOK, NextInBatch, AfterDispatch, TaskStatus, Live, FutureType,
                 Positions
<1>10. ASSUME NEW t \in Tasks, Settling(t)
       PROVE  AfterSettle(t) \in {"settle", "flush", "loop", "sweep"}
  BY <1>10 DEF Settling, AfterSettle
<1>11. ASSUME NEW t \in Tasks, Retry(t)
       PROVE  DataOK'
  BY <1>10, <1>11 DEF Retry, DataOK, Settling, AllowRetry, Live, FutureType, Positions
<1>12. ASSUME NEW t \in Tasks, SettleFailure(t)
       PROVE  DataOK'
  <2>1. status' \in [Tasks -> TaskStatus]
    BY <1>12, FailType DEF SettleFailure, DataOK
  <2>2. /\ ckpt' \in CkptType
        /\ pc' = AfterSettle(t) \/ pc' = "dying"
    BY <1>10, <1>12, SaveCheckpointType DEF SettleFailure, DataOK
  <2>3. AfterSettle(t) \in {"settle", "flush", "loop", "sweep"}
    BY <1>10, <1>12 DEF SettleFailure
  <2> QED
    BY <1>12, <2>1, <2>2, <2>3, ResultTypes
       DEF SettleFailure, DataOK, Settling, TaskStatus, FutureType, Positions
<1>13. ASSUME NEW t \in Tasks, SettleSuccess(t)
       PROVE  DataOK'
  <2>1. /\ ckpt' \in CkptType
        /\ pc' = AfterSettle(t) \/ pc' = "dying"
    BY <1>10, <1>13, SaveCheckpointType DEF SettleSuccess, DataOK
  <2>2. AfterSettle(t) \in {"settle", "flush", "loop", "sweep"}
    BY <1>10, <1>13 DEF SettleSuccess
  <2> QED
    BY <1>13, <2>1, <2>2, ResultTypes
       DEF SettleSuccess, DataOK, Settling, TaskStatus, FutureType, Positions
<1>14. ASSUME NEW t \in Tasks, SettleFatal(t)
       PROVE  DataOK'
  BY <1>14 DEF SettleFatal, DataOK, Settling, FutureType, Positions
<1> QED
  BY <1>1, <1>2, <1>3, <1>4, <1>5, <1>6, <1>7, <1>8, <1>9, <1>11, <1>12, <1>13,
     <1>14 DEF Dispatcher

LEMMA WorkersDataOK ==
    DataOK /\ (StartWorker \/ \E t \in Tasks : Handler(t)) => DataOK'
<1> SUFFICES ASSUME DataOK, StartWorker \/ \E t \in Tasks : Handler(t)
             PROVE  DataOK'
  OBVIOUS
<1> USE DEF DataOK, job, record, pool, work, memory
<1>1. CASE StartWorker
  <2> DEFINE t == Head(queue)
  <2>1. t \in Tasks /\ Tail(queue) \in Seq(Tasks)
    BY <1>1 DEF StartWorker
  <2>2. /\ queue' = Tail(queue)
        /\ \E f \in {"error", "running"} : future' = [future EXCEPT ![t] = f]
        /\ calls' = [calls EXCEPT ![t] = @ + 1]
    BY <1>1 DEF StartWorker
  <2> HIDE DEF t
  <2>3. future' \in [Tasks -> FutureType] /\ calls' \in [Tasks -> Nat]
    BY <2>1, <2>2 DEF Live, Settled, FutureType
  <2> QED
    BY <1>1, <2>1, <2>2, <2>3 DEF StartWorker
<1>2. ASSUME NEW t \in Tasks, Handler(t)
      PROVE  DataOK'
  BY <1>2 DEF Handler, WriteMemory, HandlerReturns, HandlerRaises, HandlerExits,
              HandlerEnds, Live, Settled, FutureType
<1> QED
  BY <1>1, <1>2

LEMMA NextDataOK == TypeOK /\ [Next]_vars => DataOK'
<1> SUFFICES ASSUME TypeOK, [Next]_vars PROVE DataOK'
  OBVIOUS
<1>1. DataOK
  BY DEF TypeOK
<1>2. CASE UNCHANGED vars
  BY <1>1, <1>2 DEF DataOK, vars, job, record, pool, work, memory
<1>3. CASE Rest
  BY <1>1, <1>3 DEF Rest, DataOK, vars, job, record, pool, work, memory
<1> QED
  BY <1>1, <1>2, <1>3, CallersDataOK, DispatcherDataOK, WorkersDataOK DEF Next

(* The flags are set and cleared, or left alone, by every action. *)
LEMMA InitFlagsOK == Init => FlagsOK
BY Zenon DEF Init, FlagsOK

LEMMA NextFlagsOK == FlagsOK /\ [Next]_vars => FlagsOK'
<1> SUFFICES ASSUME FlagsOK, [Next]_vars PROVE FlagsOK'
  OBVIOUS
<1> USE DEF FlagsOK, job, memory
<1>1. ASSUME NEW j \in BOOLEAN, NEW r \in BOOLEAN, NEW run \in BOOLEAN,
             Launch(j, r, run)
      PROVE  FlagsOK'
  BY <1>1, Zenon DEF Launch
<1>2. CASE Submit \/ Execute \/ Resume
  BY <1>1, <1>2, Zenon DEF Submit, Execute, Resume
<1>3. CASE Pause \/ Unpause \/ Cancel
  BY <1>3, Zenon DEF Pause, Unpause, Cancel
<1>4. CASE EndSession \/ StopRuntime \/ StartRuntime
  BY <1>4, Zenon DEF EndSession, StopRuntime, StartRuntime
<1>5. CASE Dispatcher
  BY <1>5, Zenon DEF Dispatcher, BootRefused, Boot, LoopTest, Scan, Check, Wait, Drain, Die,
     Sweep, Close, DispatchRefused, Dispatch, Retry, SettleFailure, SettleSuccess, SettleFatal
<1>6. CASE StartWorker
  BY <1>6, Zenon DEF StartWorker
<1>7. ASSUME NEW t \in Tasks, Handler(t)
      PROVE  FlagsOK'
  BY <1>7, Zenon DEF Handler, WriteMemory, HandlerReturns, HandlerRaises, HandlerExits,
                     HandlerEnds
<1>8. CASE Rest \/ UNCHANGED vars
  BY <1>8, Zenon DEF Rest, vars
<1> QED
  BY <1>2, <1>3, <1>4, <1>5, <1>6, <1>7, <1>8, Zenon DEF Next, Callers

(* Every reachable state is well typed: in particular no result, future,    *)
(* checkpoint or queue entry ever names something outside the plan, and no  *)
(* task is attempted more than MaxAttempts times.                           *)
THEOREM TypeCorrect == Spec => []TypeOK
<1>1. Init => TypeOK
  BY InitDataOK, InitFlagsOK DEF TypeOK
<1>2. TypeOK /\ [Next]_vars => TypeOK'
  BY NextDataOK, NextFlagsOK DEF TypeOK
<1> QED
  BY <1>1, <1>2, PTL DEF Spec
-----------------------------------------------------------------------------
(***************************************************************************)
(* The inductive invariant.  SchedInv is IInv without TypeOK; the lemmas    *)
(* below show action by action that it is preserved.                       *)
(***************************************************************************)
SchedInv ==
    /\ StatusInv /\ BatchInv /\ QueueInv /\ FutureInv /\ BootInv
    /\ ResultsInv /\ DependencyOrder /\ BlockedIffBehindFailure
    /\ CheckpointDownClosed

(* What only the scheduler's statuses say survives when they do not change. *)
LEMMA StatusFrame ==
    ASSUME DependencyOrder, BlockedIffBehindFailure, status' = status
    PROVE  DependencyOrder' /\ BlockedIffBehindFailure'
BY DEF DependencyOrder, BlockedIffBehindFailure, BlockedConsistent

LEMMA QueueFrame ==
    ASSUME QueueInv, queue' = queue, future' = future
    PROVE  QueueInv'
BY DEF QueueInv

LEMMA CkptFrame ==
    ASSUME CheckpointDownClosed, ckpt' = ckpt
    PROVE  CheckpointDownClosed'
BY DEF CheckpointDownClosed

(* Pausing, cancelling and ending sessions touch nothing the dispatcher     *)
(* tracks.                                                                  *)
LEMMA CallerFlags ==
    ASSUME TypeOK, SchedInv,
           UNCHANGED <<pc, status, results, future, queue, batch, finished, ckpt>>,
           cancelFlag => cancelFlag'
    PROVE  SchedInv'
<1> USE DEF SchedInv
<1>1. StatusInv' /\ BatchInv' /\ BootInv' /\ ResultsInv'
  BY DEF StatusInv, BatchInv, BootInv, ResultsInv, Ready
<1>2. FutureInv'
  BY DEF FutureInv, DispatcherLive, Inflight
<1> QED
  BY <1>1, <1>2, StatusFrame, QueueFrame, CkptFrame

LEMMA LaunchInv ==
    ASSUME TypeOK, SchedInv, NEW j, NEW r, NEW run, Launch(j, r, run)
    PROVE  SchedInv'
<1> USE DEF SchedInv, Launch, memory
<1>1. StatusInv' /\ BatchInv' /\ BootInv' /\ ResultsInv'
  BY DEF StatusInv, BatchInv, BootInv, ResultsInv
<1>2. FutureInv'
  BY DEF FutureInv, DispatcherLive, Inflight
<1>3. QueueInv'
  BY DEF QueueInv
<1>4. DependencyOrder' /\ BlockedIffBehindFailure'
  BY DEF DependencyOrder, BlockedIffBehindFailure, BlockedConsistent
<1> QED
  BY <1>1, <1>2, <1>3, <1>4, CkptFrame

LEMMA CallersInv == TypeOK /\ SchedInv /\ Callers => SchedInv'
<1> SUFFICES ASSUME TypeOK, SchedInv, Callers PROVE SchedInv'
  OBVIOUS
<1> USE DEF record, pool, work, job, memory
<1>1. CASE Submit \/ Execute \/ Resume
  BY <1>1, LaunchInv DEF Submit, Execute, Resume
<1>2. CASE Pause \/ Unpause \/ EndSession \/ StopRuntime \/ StartRuntime
  <2>1. /\ UNCHANGED <<pc, status, results, future, queue, batch, finished, ckpt>>
        /\ cancelFlag' = cancelFlag
    BY <1>2 DEF Pause, Unpause, EndSession, StopRuntime, StartRuntime
  <2> QED
    BY <2>1, CallerFlags
<1>3. CASE Cancel
  <2>1. /\ UNCHANGED <<pc, status, results, future, queue, batch, finished, ckpt>>
        /\ cancelFlag'
    BY <1>3 DEF Cancel
  <2> QED
    BY <2>1, CallerFlags
<1> QED
  BY <1>1, <1>2, <1>3 DEF Callers

-----------------------------------------------------------------------------
(* Steps that only move the dispatcher on. *)
LEMMA ControlInv ==
    ASSUME TypeOK, SchedInv, BootRefused \/ LoopTest \/ Check \/ Die
    PROVE  SchedInv'
<1> USE DEF SchedInv, record, pool, work, job, memory
<1>1. /\ UNCHANGED <<status, results, future, queue, batch, finished, ckpt, cancelFlag>>
      /\ pc' # "boot" /\ pc \notin {"batch", "close", "ended"}
      /\ pc' \notin {"close", "ended", "batch", "flush"}
  BY DEF BootRefused, LoopTest, Check, Die
<1>2. StatusInv' /\ BatchInv' /\ BootInv'
  BY <1>1 DEF StatusInv, BatchInv, BootInv
<1>3. ResultsInv'
  BY <1>1 DEF ResultsInv
<1>4. FutureInv'
  BY <1>1 DEF FutureInv, DispatcherLive, Inflight, BootRefused, LoopTest, Check, Die,
              Inactive
<1> QED
  BY <1>1, <1>2, <1>3, <1>4, StatusFrame, QueueFrame, CkptFrame

LEMMA BootPreserves ==
    ASSUME TypeOK, SchedInv, Boot
    PROVE  SchedInv'
<1> USE DEF SchedInv, Boot, pool, work, job
<1>1. replayed' \in SUBSET Tasks /\ \A t \in replayed' : Deps[t] \subseteq replayed'
  BY DEF CheckpointDownClosed, TypeOK, DataOK, CkptType
<1>2. \A t \in Tasks : /\ status'[t] = IF t \in replayed' THEN "COMPLETED" ELSE "PENDING"
                       /\ results'[t] = IF t \in replayed' THEN Result("COMPLETED", 1)
                                        ELSE NoResult
  OBVIOUS
<1>3. DOMAIN status' = Tasks
  OBVIOUS
<1>4. DependencyOrder' /\ BlockedIffBehindFailure'
  BY <1>1, <1>2, <1>3 DEF DependencyOrder, BlockedIffBehindFailure, BlockedConsistent
<1>5. StatusInv' /\ BootInv' /\ BatchInv'
  BY <1>2 DEF StatusInv, BootInv, BatchInv
<1>6. ResultsInv'
  BY <1>2 DEF ResultsInv, Result
<1>7. FutureInv'
  BY <1>2 DEF FutureInv, DispatcherLive, Inflight
<1> QED
  BY <1>4, <1>5, <1>6, <1>7, QueueFrame, CkptFrame

LEMMA ScanWaitDrainInv ==
    ASSUME TypeOK, SchedInv, Scan \/ Wait \/ Drain
    PROVE  SchedInv'
<1> USE DEF SchedInv, record, pool, work, job, memory
<1>1. /\ UNCHANGED <<status, results, future, queue, ckpt, cancelFlag>>
      /\ pc \in {"scan", "wait", "drain"}
      /\ pc' \notin {"boot", "close", "ended", "drain"}
  BY DEF Scan, Wait, Drain
<1>2. StatusInv' /\ BootInv' /\ ResultsInv'
  BY <1>1 DEF StatusInv, BootInv, ResultsInv
<1>3. BatchInv'
  BY <1>1 DEF BatchInv, Scan, Wait, Drain, Ready
<1>4. FutureInv'
  BY <1>1 DEF FutureInv, DispatcherLive, Inflight, Scan, Wait, Drain, Inactive
<1> QED
  BY <1>1, <1>2, <1>3, <1>4, StatusFrame, QueueFrame, CkptFrame
-----------------------------------------------------------------------------
(* The checkpoint a step writes, if it writes one, holds the tasks that are *)
(* completed after the step, and those are closed under dependencies.       *)
LEMMA SaveIsClosed ==
    ASSUME TypeOK', ResultsInv', DependencyOrder', CheckpointDownClosed,
           NEW next, SaveCheckpoint(results', next)
    PROVE  CheckpointDownClosed'
<1>1. \A t \in Tasks : results'[t].status = "COMPLETED" => status'[t] = "COMPLETED"
  BY DEF ResultsInv, NoResult
<1>2. \A t \in Tasks : status'[t] = "COMPLETED" => results'[t].status = "COMPLETED"
  BY DEF ResultsInv
<1>3. \A t \in Completed(results') : Deps[t] \subseteq Completed(results')
  BY <1>1, <1>2 DEF Completed, DependencyOrder
<1>4. CASE ckpt' = ckpt
  BY <1>4, CkptFrame
<1>5. CASE ckpt'.completed = Completed(results')
  BY <1>5, <1>3 DEF CheckpointDownClosed
<1> QED
  BY <1>4, <1>5 DEF SaveCheckpoint

(* What failing task t does to the invariant's view of the statuses. *)
LEMMA FailRunning ==
    ASSUME NEW st \in [Tasks -> TaskStatus], NEW t \in Tasks, st[t] = "RUNNING",
           \A u \in Tasks : st[u] \notin {"READY", "CANCELLED"},
           \A u \in Tasks : st[u] \in {"RUNNING", "COMPLETED", "FAILED"} =>
                               \A d \in Deps[u] : st[d] = "COMPLETED",
           BlockedConsistent(Deps, st),
           NEW new, new = Fail(Deps, st, t)
    PROVE  /\ new \in [Tasks -> TaskStatus] /\ new[t] = "FAILED"
           /\ \A u \in Tasks \ {t} :
                 \/ new[u] = st[u]
                 \/ /\ st[u] = "PENDING" /\ new[u] = "BLOCKED"
                    /\ \E d \in Deps[u] : st[d] # "COMPLETED"
           /\ BlockedConsistent(Deps, new)
           /\ \A u \in Tasks : new[u] \in {"RUNNING", "COMPLETED", "FAILED"} =>
                               \A d \in Deps[u] : new[d] = "COMPLETED"
<1>1. t \notin Deps[t]
  BY GraphOperators, Graph!NoSelfDependency
<1>2. /\ new \in [Tasks -> TaskStatus] /\ new[t] = "FAILED"
      /\ \A u \in Tasks \ {t} :
            \/ new[u] = st[u]
            \/ /\ st[u] = "PENDING" /\ new[u] = "BLOCKED"
               /\ \E d \in Deps[u] : st[d] # "COMPLETED"
      /\ BlockedConsistent(Deps, new)
  BY <1>1, GraphOperators, Graph!FailEffect
<1>3. \A u \in Tasks : st[u] = "COMPLETED" => new[u] = "COMPLETED"
  BY <1>2
<1> QED
  BY <1>2, <1>3

LEMMA DispatchInv ==
    ASSUME TypeOK, SchedInv, NEW t \in Tasks, Dispatch(t)
    PROVE  SchedInv'
<1> USE DEF SchedInv, Dispatch, NextInBatch, job
<1>1. /\ status \in [Tasks -> TaskStatus] /\ future \in [Tasks -> FutureType]
      /\ queue \in Seq(Tasks)
  BY DEF TypeOK, DataOK
<1>2. /\ pc = "batch" /\ pc' \in {"check", "batch"}
      /\ status[t] = "PENDING" /\ \A d \in Deps[t] : status[d] = "COMPLETED"
  BY DEF BatchInv, Ready, AfterDispatch
<1>3. /\ status'[t] = "RUNNING" /\ \A u \in Tasks \ {t} : status'[u] = status[u]
      /\ future'[t] = "queued" /\ \A u \in Tasks \ {t} : future'[u] = future[u]
      /\ DOMAIN status' = Tasks
  BY <1>1
<1>4. future[t] = "none"
  BY <1>1, <1>2 DEF FutureInv, DispatcherLive, Inactive, Inflight
<1>5. StatusInv' /\ BootInv' /\ ResultsInv'
  BY <1>2, <1>3 DEF StatusInv, BootInv, ResultsInv
<1>6. BatchInv'
  <2>1. \A u \in batch' : u \in batch /\ u # t
    OBVIOUS
  <2>2. \A u \in Tasks : status[u] = "COMPLETED" => status'[u] = "COMPLETED"
    BY <1>2, <1>3
  <2> QED
    BY <1>1, <1>2, <1>3, <2>1, <2>2 DEF BatchInv, Ready
<1>7. QueueInv'
  <2>1. \A i \in DOMAIN queue : queue[i] \in Tasks /\ queue[i] # t
    BY <1>1, <1>4 DEF QueueInv
  <2> QED
    BY <1>1, <1>3, <2>1 DEF QueueInv
<1>8. FutureInv'
  BY <1>1, <1>2, <1>3, <1>4 DEF FutureInv, DispatcherLive, Inactive, Inflight, Settled
<1>9. DependencyOrder'
  BY <1>2, <1>3 DEF DependencyOrder
<1>10. BlockedIffBehindFailure'
  <2>1. \A u \in Tasks : status'[u] \in {"FAILED", "BLOCKED"} <=> status[u] \in {"FAILED", "BLOCKED"}
    BY <1>2, <1>3
  <2>2. \A u \in Tasks : status'[u] = "BLOCKED" <=> status[u] = "BLOCKED"
    BY <1>2, <1>3
  <2> QED
    BY <1>1, <1>3, <2>1, <2>2 DEF BlockedIffBehindFailure, BlockedConsistent
<1> QED
  BY <1>5, <1>6, <1>7, <1>8, <1>9, <1>10, CkptFrame

(* What turning a ready task away does to the statuses.                     *)
LEMMA RefusedEffect ==
    ASSUME TypeOK, SchedInv, NEW t \in Tasks, DispatchRefused(t)
    PROVE  /\ pc = "batch"
           /\ status[t] = "PENDING" /\ \A d \in Deps[t] : status[d] = "COMPLETED"
           /\ \A u \in Tasks : status[u] \notin {"READY", "CANCELLED"}
           /\ status' \in [Tasks -> TaskStatus] /\ status'[t] = "FAILED"
           /\ \A u \in Tasks \ {t} :
                 \/ status'[u] = status[u]
                 \/ /\ status[u] = "PENDING" /\ status'[u] = "BLOCKED"
                    /\ \E d \in Deps[u] : status[d] # "COMPLETED"
           /\ BlockedConsistent(Deps, status')
           /\ \A u \in Tasks : status'[u] \in {"RUNNING", "COMPLETED", "FAILED"} =>
                               \A d \in Deps[u] : status'[d] = "COMPLETED"
<1> USE DEF SchedInv, NextInBatch, job, pool
<1> DEFINE st == [status EXCEPT ![t] = "RUNNING"]
<1>1. /\ status \in [Tasks -> TaskStatus] /\ results \in [Tasks -> ResultType]
  BY DEF TypeOK, DataOK
<1>2. /\ pc = "batch"
      /\ status[t] = "PENDING" /\ \A d \in Deps[t] : status[d] = "COMPLETED"
  BY DEF BatchInv, Ready, DispatchRefused
<1>3. /\ st \in [Tasks -> TaskStatus] /\ st[t] = "RUNNING"
      /\ \A u \in Tasks \ {t} : st[u] = status[u]
  BY <1>1 DEF TaskStatus
<1>4. status' = Fail(Deps, st, t)
  BY DEF DispatchRefused
<1> HIDE DEF st
<1>5. \A u \in Tasks : status[u] \notin {"READY", "CANCELLED"}
  BY <1>2 DEF StatusInv
<1>6. /\ \A u \in Tasks : st[u] \notin {"READY", "CANCELLED"}
      /\ \A u \in Tasks : st[u] \in {"RUNNING", "COMPLETED", "FAILED"} =>
                               \A d \in Deps[u] : st[d] = "COMPLETED"
  BY <1>2, <1>3, <1>5 DEF DependencyOrder
<1>7. BlockedConsistent(Deps, st)
  <2>1. \A u \in Tasks : st[u] \in {"FAILED", "BLOCKED"} <=> status[u] \in {"FAILED", "BLOCKED"}
    BY <1>2, <1>3
  <2>2. \A u \in Tasks : st[u] = "BLOCKED" <=> status[u] = "BLOCKED"
    BY <1>2, <1>3
  <2> QED
    BY <1>1, <1>3, <2>1, <2>2 DEF BlockedIffBehindFailure, BlockedConsistent
<1>8. /\ status' \in [Tasks -> TaskStatus] /\ status'[t] = "FAILED"
      /\ \A u \in Tasks \ {t} :
            \/ status'[u] = status[u]
            \/ /\ status[u] = "PENDING" /\ status'[u] = "BLOCKED"
               /\ \E d \in Deps[u] : status[d] # "COMPLETED"
      /\ BlockedConsistent(Deps, status')
      /\ \A u \in Tasks : status'[u] \in {"RUNNING", "COMPLETED", "FAILED"} =>
                               \A d \in Deps[u] : status'[d] = "COMPLETED"
  <2>1. /\ status' \in [Tasks -> TaskStatus] /\ status'[t] = "FAILED"
        /\ \A u \in Tasks \ {t} :
              \/ status'[u] = st[u]
              \/ /\ st[u] = "PENDING" /\ status'[u] = "BLOCKED"
                 /\ \E d \in Deps[u] : st[d] # "COMPLETED"
        /\ BlockedConsistent(Deps, status')
        /\ \A u \in Tasks : status'[u] \in {"RUNNING", "COMPLETED", "FAILED"} =>
                               \A d \in Deps[u] : status'[d] = "COMPLETED"
    BY <1>3, <1>4, <1>6, <1>7, FailRunning
  <2>2. \A u \in Tasks : status[u] = "COMPLETED" => st[u] = "COMPLETED"
    BY <1>2, <1>3
  <2> QED
    BY <2>1, <2>2, <1>3
<1> QED
  BY <1>2, <1>5, <1>8

LEMMA DispatchRefusedInv ==
    ASSUME TypeOK, SchedInv, NEW t \in Tasks, DispatchRefused(t), TypeOK'
    PROVE  SchedInv'
<1> USE DEF SchedInv, NextInBatch, job, pool
<1>1. /\ status \in [Tasks -> TaskStatus] /\ results \in [Tasks -> ResultType]
  BY DEF TypeOK, DataOK
<1>2. /\ pc = "batch"
      /\ status[t] = "PENDING" /\ \A d \in Deps[t] : status[d] = "COMPLETED"
  BY RefusedEffect
<1>5. \A u \in Tasks : status[u] \notin {"READY", "CANCELLED"}
  BY RefusedEffect
<1>8. /\ status' \in [Tasks -> TaskStatus] /\ status'[t] = "FAILED"
      /\ \A u \in Tasks \ {t} :
            \/ status'[u] = status[u]
            \/ /\ status[u] = "PENDING" /\ status'[u] = "BLOCKED"
               /\ \E d \in Deps[u] : status[d] # "COMPLETED"
      /\ BlockedConsistent(Deps, status')
      /\ \A u \in Tasks : status'[u] \in {"RUNNING", "COMPLETED", "FAILED"} =>
                               \A d \in Deps[u] : status'[d] = "COMPLETED"
  BY RefusedEffect
<1>9. /\ pc' \in {"check", "batch", "dying"} /\ batch' = batch \ {t}
      /\ batch' # {} => pc' \in {"batch", "dying"}
      /\ UNCHANGED <<future, queue, finished, cancelFlag>>
  BY DEF DispatchRefused, SaveCheckpoint, AfterDispatch
<1>10. /\ results'[t] = Result("FAILED", 1)
       /\ \A u \in Tasks \ {t} : results'[u] = results[u]
  BY <1>1 DEF DispatchRefused
<1>11. StatusInv' /\ BootInv'
  BY <1>2, <1>5, <1>8, <1>9 DEF StatusInv, BootInv
<1>12. ResultsInv'
  BY <1>2, <1>8, <1>10 DEF ResultsInv, Result
<1>13. BatchInv'
  <2>1. ASSUME NEW u \in batch'
        PROVE  u \in Ready(Deps, status')
    <3>1. /\ u \in Tasks \ {t} /\ status[u] = "PENDING"
          /\ \A d \in Deps[u] : status[d] = "COMPLETED"
      BY <1>1, <1>2, <1>9, <2>1 DEF BatchInv, Ready
    <3>2. \A d \in Tasks : status[d] = "COMPLETED" => status'[d] = "COMPLETED"
      BY <1>2, <1>8
    <3> QED
      BY <1>8, <3>1, <3>2 DEF Ready
  <2> QED
    BY <2>1 DEF BatchInv
<1>14. FutureInv'
  BY <1>2, <1>8, <1>9 DEF FutureInv, DispatcherLive, Inactive, Inflight
<1>15. DependencyOrder' /\ BlockedIffBehindFailure'
  BY <1>8 DEF DependencyOrder, BlockedIffBehindFailure
<1>16. CheckpointDownClosed'
  BY <1>12, <1>15, SaveIsClosed DEF DispatchRefused
<1> QED
  BY <1>9, <1>11, <1>12, <1>13, <1>14, <1>15, <1>16, QueueFrame

-----------------------------------------------------------------------------
(* Every settled future belongs to a running task. *)
LEMMA SettlingFacts ==
    ASSUME TypeOK, SchedInv, NEW t \in Tasks, Settling(t)
    PROVE  /\ pc \in {"settle", "flush"} /\ t \in finished
           /\ finished' = finished \ {t}
           /\ status[t] = "RUNNING" /\ future[t] \in Settled /\ t \in Inflight
           /\ AfterSettle(t) \in {pc, "loop", "sweep"}
           /\ AfterSettle(t) = "sweep" => pc = "flush" /\ finished' = {}
BY DEF SchedInv, Settling, FutureInv, DispatcherLive, Inactive, Inflight, Settled,
       AfterSettle

LEMMA QueueTyped == TypeOK => \A i \in DOMAIN queue : queue[i] \in Tasks
BY DEF TypeOK, DataOK

(* Taking a settled future out of the in-flight table. *)
LEMMA QueueWithout ==
    ASSUME TypeOK, QueueInv, NEW t \in Tasks, future[t] \in Settled,
           queue' = queue, \A u \in Tasks \ {t} : future'[u] = future[u]
    PROVE  QueueInv'
<1>1. \A i \in DOMAIN queue : queue[i] \in Tasks /\ queue[i] # t
  BY QueueTyped DEF QueueInv, Settled
<1> QED
  BY <1>1 DEF QueueInv

LEMMA FuturesWithout ==
    ASSUME FutureInv, pc \in {"settle", "flush"}, NEW t \in finished, finished \subseteq Tasks,
           finished' = finished \ {t}, cancelFlag' = cancelFlag, future'[t] = "none",
           \A u \in Tasks \ {t} : future'[u] = future[u],
           status'[t] # "RUNNING",
           \A u \in Tasks \ {t} : status'[u] = "RUNNING" <=> status[u] = "RUNNING",
           pc' \in {pc, "loop", "sweep", "dying"},
           pc' = "sweep" => pc = "flush" /\ finished' = {}
    PROVE  FutureInv'
<1>1. Inflight' = Inflight \ {t}
  BY DEF Inflight
<1>2. \A u \in finished' : future'[u] \in Settled
  BY DEF FutureInv
<1>3. pc \in {"settle", "flush"} => \A u \in Tasks : status[u] = "RUNNING" <=> u \in Inflight
  BY DEF FutureInv, DispatcherLive, Inactive
<1>4. \A u \in Tasks : status'[u] = "RUNNING" <=> u \in Inflight'
  BY <1>1, <1>3
<1>5. /\ pc' \in {"drain", "flush"} => cancelFlag'
      /\ pc' = "flush" => Inflight' = finished'
      /\ pc' \in {"boot", "sweep", "close"} => Inflight' = {}
  BY <1>1 DEF FutureInv
<1> QED
  BY <1>2, <1>4, <1>5 DEF FutureInv

LEMMA RetryInv ==
    ASSUME TypeOK, SchedInv, NEW t \in Tasks, Retry(t)
    PROVE  SchedInv'
<1> USE DEF SchedInv, job, record
<1>1. /\ status \in [Tasks -> TaskStatus] /\ future \in [Tasks -> FutureType]
      /\ queue \in Seq(Tasks)
  BY DEF TypeOK, DataOK
<1>2. /\ pc = "settle" /\ t \in finished /\ finished' = finished \ {t}
      /\ status[t] = "RUNNING" /\ future[t] = "error"
      /\ pc' \in {"settle", "loop"}
  BY SettlingFacts DEF Retry, AllowRetry, AfterSettle
<1>3. /\ UNCHANGED <<status, results, ckpt, cancelFlag, batch>>
      /\ queue' = Append(queue, t)
      /\ future'[t] \in {"queued", "unbound"}
      /\ \A u \in Tasks \ {t} : future'[u] = future[u]
  BY <1>1 DEF Retry
<1>4. StatusInv' /\ BootInv' /\ ResultsInv' /\ BatchInv'
  BY <1>2, <1>3 DEF StatusInv, BootInv, ResultsInv, BatchInv
<1>5. QueueInv'
  <2>1. \A i \in DOMAIN queue : queue[i] \in Tasks /\ queue[i] # t
    BY <1>1, <1>2 DEF QueueInv
  <2> QED
    BY <1>1, <1>3, <2>1 DEF QueueInv
<1>6. FutureInv'
  <2>1. Inflight' = Inflight
    BY <1>2, <1>3 DEF Inflight
  <2>2. \A u \in finished' : future'[u] \in Settled
    BY <1>2, <1>3 DEF FutureInv, TypeOK, DataOK
  <2>3. \A u \in Tasks : status'[u] = "RUNNING" <=> u \in Inflight'
    BY <1>2, <1>3, <2>1 DEF FutureInv, DispatcherLive, Inactive
  <2> QED
    BY <1>2, <2>2, <2>3 DEF FutureInv
<1> QED
  BY <1>3, <1>4, <1>5, <1>6, StatusFrame, CkptFrame

(* What giving up on a running task does to the statuses.                   *)
LEMMA FailureEffect ==
    ASSUME TypeOK, SchedInv, NEW t \in Tasks, SettleFailure(t)
    PROVE  /\ status[t] = "RUNNING"
           /\ status' \in [Tasks -> TaskStatus] /\ status'[t] = "FAILED"
           /\ \A u \in Tasks \ {t} :
                 \/ status'[u] = status[u]
                 \/ status[u] = "PENDING" /\ status'[u] = "BLOCKED"
           /\ BlockedConsistent(Deps, status')
           /\ \A u \in Tasks : status'[u] \in {"RUNNING", "COMPLETED", "FAILED"} =>
                               \A d \in Deps[u] : status'[d] = "COMPLETED"
<1>1. status \in [Tasks -> TaskStatus]
  BY DEF TypeOK, DataOK
<1>2. pc \in {"settle", "flush"} /\ status[t] = "RUNNING" /\ status' = Fail(Deps, status, t)
  BY SettlingFacts DEF SettleFailure
<1>3. \A u \in Tasks : status[u] \notin {"READY", "CANCELLED"}
  BY <1>2 DEF SchedInv, StatusInv
<1>4. BlockedConsistent(Deps, status)
  BY DEF SchedInv, BlockedIffBehindFailure
<1>5. \A u \in Tasks : status[u] \in {"RUNNING", "COMPLETED", "FAILED"} =>
                             \A d \in Deps[u] : status[d] = "COMPLETED"
  BY DEF SchedInv, DependencyOrder
<1> QED
  BY <1>1, <1>2, <1>3, <1>4, <1>5, FailRunning

LEMMA SettleFailureInv ==
    ASSUME TypeOK, SchedInv, NEW t \in Tasks, SettleFailure(t), TypeOK'
    PROVE  SchedInv'
<1> USE DEF SchedInv, job
<1>1. /\ status \in [Tasks -> TaskStatus] /\ results \in [Tasks -> ResultType]
      /\ future \in [Tasks -> FutureType]
  BY DEF TypeOK, DataOK
<1>2. Settling(t)
  BY DEF SettleFailure
<1>3. /\ pc \in {"settle", "flush"} /\ t \in finished /\ finished' = finished \ {t}
      /\ status[t] = "RUNNING" /\ t \in Inflight
      /\ AfterSettle(t) \in {pc, "loop", "sweep"}
      /\ AfterSettle(t) = "sweep" => pc = "flush" /\ finished' = {}
  BY <1>2, SettlingFacts
<1>4. pc' = AfterSettle(t) \/ pc' = "dying"
  BY DEF SettleFailure, SaveCheckpoint
<1>5. /\ UNCHANGED <<queue, cancelFlag, batch>>
      /\ future'[t] = "none" /\ \A u \in Tasks \ {t} : future'[u] = future[u]
      /\ results'[t] = Result("FAILED", attempt[t])
      /\ \A u \in Tasks \ {t} : results'[u] = results[u]
      /\ status' = Fail(Deps, status, t)
  BY <1>1 DEF SettleFailure
<1>6. \A u \in Tasks : status[u] \notin {"READY", "CANCELLED"}
  BY <1>3 DEF StatusInv
<1>7. /\ status' \in [Tasks -> TaskStatus] /\ status'[t] = "FAILED"
      /\ \A u \in Tasks \ {t} :
            \/ status'[u] = status[u]
            \/ status[u] = "PENDING" /\ status'[u] = "BLOCKED"
      /\ BlockedConsistent(Deps, status')
      /\ \A u \in Tasks : status'[u] \in {"RUNNING", "COMPLETED", "FAILED"} =>
                               \A d \in Deps[u] : status'[d] = "COMPLETED"
  BY FailureEffect
<1>8. StatusInv' /\ BootInv' /\ BatchInv'
  BY <1>3, <1>4, <1>6, <1>7 DEF StatusInv, BootInv, BatchInv
<1>9. ResultsInv'
  BY <1>3, <1>4, <1>5, <1>7 DEF ResultsInv, Result
<1>10. QueueInv'
  BY <1>2, <1>5, QueueWithout, SettlingFacts
<1>11. FutureInv'
  <2>1. finished \subseteq Tasks /\ pc' \in {pc, "loop", "sweep", "dying"}
    BY <1>3, <1>4 DEF TypeOK, DataOK
  <2> QED
    BY <1>3, <1>4, <1>5, <1>7, <2>1, FuturesWithout
<1>12. DependencyOrder' /\ BlockedIffBehindFailure'
  BY <1>7 DEF DependencyOrder, BlockedIffBehindFailure
<1>13. CheckpointDownClosed'
  BY <1>9, <1>12, SaveIsClosed DEF SettleFailure
<1> QED
  BY <1>8, <1>9, <1>10, <1>11, <1>12, <1>13

LEMMA SettleSuccessInv ==
    ASSUME TypeOK, SchedInv, NEW t \in Tasks, SettleSuccess(t), TypeOK'
    PROVE  SchedInv'
<1> USE DEF SchedInv, job
<1>1. /\ status \in [Tasks -> TaskStatus] /\ results \in [Tasks -> ResultType]
      /\ future \in [Tasks -> FutureType]
  BY DEF TypeOK, DataOK
<1>2. Settling(t)
  BY DEF SettleSuccess
<1>3. /\ pc \in {"settle", "flush"} /\ t \in finished /\ finished' = finished \ {t}
      /\ status[t] = "RUNNING" /\ t \in Inflight
      /\ AfterSettle(t) \in {pc, "loop", "sweep"}
      /\ AfterSettle(t) = "sweep" => pc = "flush" /\ finished' = {}
  BY <1>2, SettlingFacts
<1>4. pc' = AfterSettle(t) \/ pc' = "dying"
  BY DEF SettleSuccess, SaveCheckpoint
<1>5. /\ UNCHANGED <<queue, cancelFlag, batch>>
      /\ future'[t] = "none" /\ \A u \in Tasks \ {t} : future'[u] = future[u]
      /\ results'[t] = Result("COMPLETED", attempt[t])
      /\ \A u \in Tasks \ {t} : results'[u] = results[u]
      /\ status'[t] = "COMPLETED" /\ \A u \in Tasks \ {t} : status'[u] = status[u]
      /\ DOMAIN status' = Tasks
  BY <1>1 DEF SettleSuccess
<1>6. StatusInv' /\ BootInv' /\ BatchInv'
  BY <1>3, <1>4, <1>5 DEF StatusInv, BootInv, BatchInv
<1>7. ResultsInv'
  BY <1>3, <1>4, <1>5 DEF ResultsInv, Result
<1>8. QueueInv'
  BY <1>2, <1>5, QueueWithout, SettlingFacts
<1>9. FutureInv'
  <2>1. finished \subseteq Tasks /\ pc' \in {pc, "loop", "sweep", "dying"}
    BY <1>3, <1>4 DEF TypeOK, DataOK
  <2> QED
    BY <1>3, <1>4, <1>5, <2>1, FuturesWithout
<1>10. DependencyOrder'
  BY <1>3, <1>5 DEF DependencyOrder
<1>11. BlockedIffBehindFailure'
  <2>1. \A u \in Tasks : status'[u] \in {"FAILED", "BLOCKED"} <=> status[u] \in {"FAILED", "BLOCKED"}
    BY <1>3, <1>5
  <2>2. \A u \in Tasks : status'[u] = "BLOCKED" <=> status[u] = "BLOCKED"
    BY <1>3, <1>5
  <2> QED
    BY <1>1, <1>5, <2>1, <2>2 DEF BlockedIffBehindFailure, BlockedConsistent
<1>12. CheckpointDownClosed'
  BY <1>7, <1>10, SaveIsClosed DEF SettleSuccess
<1> QED
  BY <1>6, <1>7, <1>8, <1>9, <1>10, <1>11, <1>12

LEMMA SettleFatalInv ==
    ASSUME TypeOK, SchedInv, NEW t \in Tasks, SettleFatal(t)
    PROVE  SchedInv'
<1> USE DEF SchedInv, job, record
<1>1. future \in [Tasks -> FutureType]
  BY DEF TypeOK, DataOK
<1>2. /\ pc \in {"settle", "flush"} /\ finished' = finished \ {t} /\ pc' = "dying"
      /\ future[t] = "fatal"
      /\ UNCHANGED <<status, results, ckpt, cancelFlag, batch, queue>>
      /\ future'[t] = "none" /\ \A u \in Tasks \ {t} : future'[u] = future[u]
  BY <1>1 DEF SettleFatal, Settling
<1>3. StatusInv' /\ BootInv' /\ ResultsInv' /\ BatchInv'
  BY <1>2 DEF StatusInv, BootInv, ResultsInv, BatchInv
<1>4. QueueInv'
  BY <1>2, QueueWithout DEF Settled
<1>5. FutureInv'
  BY <1>2 DEF FutureInv, DispatcherLive, TypeOK, DataOK
<1> QED
  BY <1>2, <1>3, <1>4, <1>5, StatusFrame, CkptFrame

LEMMA SweepInv ==
    ASSUME TypeOK, SchedInv, Sweep
    PROVE  SchedInv'
<1> USE DEF SchedInv, Sweep, job, pool, work, memory
<1>1. /\ status \in [Tasks -> TaskStatus]
      /\ \A t \in Tasks : status[t] # "RUNNING"
  BY DEF TypeOK, DataOK, FutureInv, DispatcherLive, Inactive
<1>2. /\ DOMAIN status' = Tasks
      /\ \A t \in Tasks : \/ status'[t] = status[t]
                          \/ /\ cancelFlag /\ status'[t] = "CANCELLED"
                             /\ status[t] \notin TerminalStatus
  BY <1>1 DEF CancelRest
<1>3. \A t \in Tasks : /\ status'[t] = "COMPLETED" <=> status[t] = "COMPLETED"
                       /\ status'[t] = "FAILED" <=> status[t] = "FAILED"
                       /\ status'[t] = "BLOCKED" <=> status[t] = "BLOCKED"
                       /\ status'[t] # "RUNNING"
  BY <1>1, <1>2 DEF TerminalStatus
<1>4. StatusInv' /\ BatchInv' /\ BootInv'
  BY <1>2 DEF StatusInv, BatchInv, BootInv
<1>5. ResultsInv'
  <2>1. ASSUME NEW t \in Tasks
        PROVE  \/ results[t] = NoResult /\ status'[t] \notin {"COMPLETED", "FAILED"}
               \/ results[t].status = status'[t] /\ status'[t] \in {"COMPLETED", "FAILED"}
    BY <1>3 DEF ResultsInv
  <2> QED
    BY <2>1 DEF ResultsInv
<1>6. FutureInv'
  BY <1>1, <1>3 DEF FutureInv, DispatcherLive, Inactive, Inflight
<1>7. DependencyOrder' /\ BlockedIffBehindFailure'
  BY <1>1, <1>2, <1>3 DEF DependencyOrder, BlockedIffBehindFailure, BlockedConsistent
<1> QED
  BY <1>4, <1>5, <1>6, <1>7, QueueFrame, CkptFrame

LEMMA CloseInv ==
    ASSUME TypeOK, SchedInv, Close
    PROVE  SchedInv'
<1> USE DEF SchedInv, job, pool, work, memory
<1>1. /\ pc = "close" /\ pc' = "ended"
      /\ UNCHANGED <<status, future, queue, finished, ckpt, cancelFlag>>
      /\ \A t \in Tasks : results'[t] = IF results[t] = NoResult
                                        THEN Result(status[t], 1) ELSE results[t]
  BY DEF Close
<1>2. StatusInv' /\ BatchInv' /\ BootInv'
  BY <1>1 DEF StatusInv, BatchInv, BootInv
<1>3. ResultsInv'
  <2>1. ASSUME NEW t \in Tasks
        PROVE  results'[t].status = status'[t]
    <3>1. CASE results[t] = NoResult
      <4>1. results'[t] = Result(status[t], 1)
        BY <1>1, <3>1
      <4> QED
        BY <1>1, <4>1 DEF Result
    <3>2. CASE results[t] # NoResult
      BY <1>1, <3>2 DEF ResultsInv
    <3> QED
      BY <3>1, <3>2
  <2> QED
    BY <1>1, <2>1 DEF ResultsInv
<1>4. FutureInv'
  BY <1>1 DEF FutureInv, DispatcherLive, Inactive, Inflight
<1> QED
  BY <1>1, <1>2, <1>3, <1>4, StatusFrame, QueueFrame, CkptFrame

-----------------------------------------------------------------------------
(* A worker that changes what became of one live future. *)
LEMMA LiveFuture ==
    ASSUME FutureInv, finished \subseteq Tasks, NEW t \in Tasks, future[t] \in Live,
           future'[t] # "none", \A u \in Tasks \ {t} : future'[u] = future[u],
           UNCHANGED <<pc, status, finished, cancelFlag>>
    PROVE  FutureInv'
<1>1. Inflight' = Inflight
  BY DEF Inflight, Live
<1>2. t \notin finished
  BY DEF FutureInv, Live, Settled
<1> QED
  BY <1>1, <1>2 DEF FutureInv, DispatcherLive

LEMMA StartWorkerInv ==
    ASSUME TypeOK, SchedInv, StartWorker
    PROVE  SchedInv'
<1> USE DEF SchedInv, record, work, job, memory
<1> DEFINE t == Head(queue)
<1>1. /\ queue \in Seq(Tasks) /\ queue # <<>> /\ future \in [Tasks -> FutureType]
      /\ finished \subseteq Tasks
  BY DEF TypeOK, DataOK, StartWorker
<1>2. /\ t \in Tasks /\ t = queue[1] /\ 1 \in DOMAIN queue
  BY <1>1
<1>3. /\ queue' = Tail(queue)
      /\ \E f \in {"error", "running"} : future' = [future EXCEPT ![t] = f]
      /\ UNCHANGED <<pc, status, results, batch, finished, cancelFlag, ckpt>>
  BY DEF StartWorker
<1>4. future[t] \in Live
  BY <1>2 DEF QueueInv, Live
<1> HIDE DEF t
<1>5. future'[t] # "none" /\ \A u \in Tasks \ {t} : future'[u] = future[u]
  BY <1>1, <1>2, <1>3
<1>6. FutureInv'
  BY <1>1, <1>2, <1>3, <1>4, <1>5, LiveFuture
<1>7. QueueInv'
  <2>1. ASSUME NEW i \in DOMAIN queue'
        PROVE  /\ i + 1 \in DOMAIN queue /\ queue'[i] = queue[i + 1]
               /\ queue[i + 1] \in Tasks \ {t}
    <3>1. /\ i \in 1..(Len(queue) - 1) /\ queue'[i] = queue[i + 1]
          /\ Len(queue) \in Nat /\ DOMAIN queue = 1..Len(queue)
      BY <1>1, <1>3, <2>1
    <3>2. i + 1 \in DOMAIN queue /\ i + 1 # 1
      BY <3>1
    <3>3. queue[i + 1] # t
      BY <1>2, <3>2 DEF QueueInv
    <3> QED
      BY <1>1, <3>1, <3>2, <3>3
  <2>2. \A i \in DOMAIN queue' : future'[queue'[i]] \in {"queued", "unbound"}
    BY <1>5, <2>1 DEF QueueInv
  <2>3. ASSUME NEW i \in DOMAIN queue', NEW j \in DOMAIN queue', queue'[i] = queue'[j]
        PROVE  i = j
    <3>1. i + 1 = j + 1
      BY <2>1, <2>3 DEF QueueInv
    <3>2. i \in Int /\ j \in Int
      BY <1>1, <1>3
    <3> QED
      BY <3>1, <3>2
  <2> QED
    BY <2>2, <2>3 DEF QueueInv
<1>8. StatusInv' /\ BatchInv' /\ BootInv' /\ ResultsInv'
  BY <1>3 DEF StatusInv, BatchInv, BootInv, ResultsInv, Ready
<1> QED
  BY <1>3, <1>6, <1>7, <1>8, StatusFrame, CkptFrame

LEMMA HandlerInv ==
    ASSUME TypeOK, SchedInv, NEW t \in Tasks, Handler(t)
    PROVE  SchedInv'
<1> USE DEF SchedInv, record, work, job, memory
<1>1. future \in [Tasks -> FutureType] /\ finished \subseteq Tasks
  BY DEF TypeOK, DataOK
<1>2. /\ future[t] \in {"running", "wrote"}
      /\ future'[t] # "none" /\ \A u \in Tasks \ {t} : future'[u] = future[u]
      /\ UNCHANGED <<pc, status, results, queue, batch, finished, cancelFlag, ckpt>>
  BY <1>1 DEF Handler, WriteMemory, HandlerReturns, HandlerRaises, HandlerExits, HandlerEnds
<1>3. FutureInv'
  BY <1>1, <1>2, LiveFuture DEF Live
<1>4. QueueInv'
  <2>1. \A i \in DOMAIN queue : queue[i] \in Tasks \ {t}
    BY <1>2, QueueTyped DEF QueueInv
  <2> QED
    BY <1>2, <2>1 DEF QueueInv
<1>5. StatusInv' /\ BatchInv' /\ BootInv' /\ ResultsInv'
  BY <1>2 DEF StatusInv, BatchInv, BootInv, ResultsInv, Ready
<1> QED
  BY <1>2, <1>3, <1>4, <1>5, StatusFrame, CkptFrame

-----------------------------------------------------------------------------
LEMMA DispatcherInv == TypeOK /\ SchedInv /\ Dispatcher /\ TypeOK' => SchedInv'
<1> SUFFICES ASSUME TypeOK, SchedInv, Dispatcher, TypeOK' PROVE SchedInv'
  OBVIOUS
<1>1. CASE BootRefused \/ LoopTest \/ Check \/ Die
  BY <1>1, ControlInv
<1>2. CASE Boot
  BY <1>2, BootPreserves
<1>3. CASE Scan \/ Wait \/ Drain
  BY <1>3, ScanWaitDrainInv
<1>4. CASE Sweep
  BY <1>4, SweepInv
<1>5. CASE Close
  BY <1>5, CloseInv
<1>6. ASSUME NEW t \in Tasks, DispatchRefused(t) \/ Dispatch(t)
      PROVE  SchedInv'
  BY <1>6, DispatchRefusedInv, DispatchInv
<1>7. ASSUME NEW t \in Tasks,
             Retry(t) \/ SettleFailure(t) \/ SettleSuccess(t) \/ SettleFatal(t)
      PROVE  SchedInv'
  BY <1>7, RetryInv, SettleFailureInv, SettleSuccessInv, SettleFatalInv
<1> QED
  BY <1>1, <1>2, <1>3, <1>4, <1>5, <1>6, <1>7 DEF Dispatcher

LEMMA StutterInv == SchedInv /\ UNCHANGED vars => SchedInv'
BY DEF SchedInv, vars, record, pool, work, job, StatusInv, BatchInv, QueueInv, FutureInv,
       BootInv, ResultsInv, DependencyOrder, BlockedIffBehindFailure, CheckpointDownClosed,
       DispatcherLive, Inflight

LEMMA InitSchedInv == Init => SchedInv
<1> SUFFICES ASSUME Init PROVE SchedInv
  OBVIOUS
<1> USE DEF Init
<1>1. StatusInv /\ BatchInv /\ QueueInv /\ FutureInv /\ BootInv /\ ResultsInv
  BY DEF StatusInv, BatchInv, QueueInv, FutureInv, BootInv, ResultsInv, DispatcherLive,
         Inactive, Inflight
<1>2. DependencyOrder /\ BlockedIffBehindFailure
  BY DEF DependencyOrder, BlockedIffBehindFailure, BlockedConsistent
<1>3. CheckpointDownClosed
  BY DEF CheckpointDownClosed, NoCheckpoint
<1> QED
  BY <1>1, <1>2, <1>3 DEF SchedInv

(* The inductive invariant holds in every reachable state, for every plan,  *)
(* pool size, retry bound and choice of faults.                             *)
THEOREM IInvariant == Spec => []IInv
<1>1. Init => TypeOK /\ SchedInv
  BY InitDataOK, InitFlagsOK, InitSchedInv DEF TypeOK
<1>2. TypeOK /\ SchedInv /\ [Next]_vars => TypeOK' /\ SchedInv'
  <2> SUFFICES ASSUME TypeOK, SchedInv, [Next]_vars PROVE TypeOK' /\ SchedInv'
    OBVIOUS
  <2>1. TypeOK'
    BY NextDataOK, NextFlagsOK DEF TypeOK
  <2>2. CASE Callers
    BY <2>1, <2>2, CallersInv
  <2>3. CASE Dispatcher
    BY <2>1, <2>3, DispatcherInv
  <2>4. CASE StartWorker \/ \E t \in Tasks : Handler(t)
    BY <2>1, <2>4, StartWorkerInv, HandlerInv
  <2>5. CASE Rest \/ UNCHANGED vars
    BY <2>1, <2>5, StutterInv DEF Rest
  <2> QED
    BY <2>2, <2>3, <2>4, <2>5 DEF Next
<1>3. TypeOK /\ SchedInv => IInv
  BY DEF IInv, SchedInv
<1> QED
  BY <1>1, <1>2, <1>3, PTL DEF Spec

(* No task runs, completes or fails before everything it depends on has     *)
(* completed: the executor dispatches only from the scheduler's ready set.  *)
THEOREM DependencyOrderHolds == Spec => []DependencyOrder
<1>1. IInv => DependencyOrder
  BY DEF IInv
<1> QED
  BY <1>1, IInvariant, PTL

(* The dispatcher never asks the scheduler for an illegal transition:       *)
(* what it starts is ready, what it settles is running.                     *)
THEOREM NoSchedulerErrorHolds == Spec => []NoSchedulerError
<1>1. IInv => NoSchedulerError
  BY DEF IInv, NoSchedulerError, BatchInv, FutureInv
<1> QED
  BY <1>1, IInvariant, PTL

(* A task is blocked exactly when it stands behind a failure, whatever the  *)
(* order in which branches fail, are retried, or are cancelled.             *)
THEOREM BlockedIffBehindFailureHolds == Spec => []BlockedIffBehindFailure
<1>1. IInv => BlockedIffBehindFailure
  BY DEF IInv
<1> QED
  BY <1>1, IInvariant, PTL

(* Whatever checkpoint a resume may find, the tasks it calls completed      *)
(* include everything those tasks depend on.                                *)
THEOREM CheckpointDownClosedHolds == Spec => []CheckpointDownClosed
<1>1. IInv => CheckpointDownClosed
  BY DEF IInv
<1> QED
  BY <1>1, IInvariant, PTL

-----------------------------------------------------------------------------
(***************************************************************************)
(* Resumed runs.                                                           *)
(***************************************************************************)

LEMMA IInvParts == IInv <=> TypeOK /\ SchedInv
BY DEF IInv, SchedInv

(* Which statuses a step can change at all: a run that has begun never goes *)
(* back on a task that ended, and nothing becomes pending again.            *)
LEMMA StatusMoves ==
    ASSUME IInv, [Next]_vars, pc # "boot", pc' # "boot", NEW t \in Tasks
    PROVE  \/ status'[t] = status[t]
           \/ status[t] = "PENDING" /\ status'[t] # "PENDING"
           \/ status[t] = "RUNNING" /\ status'[t] # "PENDING"
<1> USE DEF record
<1>1. /\ status \in [Tasks -> TaskStatus] /\ TypeOK /\ SchedInv
  BY IInvParts DEF TypeOK, DataOK
<1>2. ASSUME NEW u \in Tasks, DispatchRefused(u)
      PROVE  \/ status'[t] = status[t]
             \/ status[t] = "PENDING" /\ status'[t] # "PENDING"
  BY <1>1, <1>2, RefusedEffect
<1>3. ASSUME NEW u \in Tasks, SettleFailure(u)
      PROVE  \/ status'[t] = status[t]
             \/ status[t] = "PENDING" /\ status'[t] # "PENDING"
             \/ status[t] = "RUNNING" /\ status'[t] # "PENDING"
  BY <1>1, <1>3, FailureEffect
<1>4. ASSUME NEW u \in Tasks, Dispatch(u)
      PROVE  \/ status'[t] = status[t]
             \/ status[t] = "PENDING" /\ status'[t] # "PENDING"
  BY <1>1, <1>4 DEF Dispatch, NextInBatch, SchedInv, BatchInv, Ready
<1>5. ASSUME NEW u \in Tasks, SettleSuccess(u)
      PROVE  \/ status'[t] = status[t]
             \/ status[t] = "RUNNING" /\ status'[t] # "PENDING"
  BY <1>1, <1>5, SettlingFacts DEF SettleSuccess
<1>6. CASE Sweep
  BY <1>1, <1>6 DEF Sweep, CancelRest, TerminalStatus, TaskStatus, SchedInv, StatusInv
<1>7. CASE Callers
  BY <1>7 DEF Callers, Submit, Execute, Resume, Launch, Pause, Unpause, Cancel, EndSession,
              StopRuntime, StartRuntime
<1>8. CASE \/ BootRefused \/ Boot \/ LoopTest \/ Scan \/ Check \/ Wait \/ Drain \/ Die \/ Close
           \/ \E u \in Tasks : Retry(u) \/ SettleFatal(u)
  BY <1>8 DEF BootRefused, Boot, LoopTest, Scan, Check, Wait, Drain, Die, Close, Retry,
              SettleFatal
<1>9. CASE StartWorker \/ (\E u \in Tasks : Handler(u)) \/ Rest \/ UNCHANGED vars
  BY <1>9 DEF StartWorker, Handler, WriteMemory, HandlerReturns, HandlerRaises, HandlerExits,
              HandlerEnds, Rest, vars
<1> QED
  BY <1>2, <1>3, <1>4, <1>5, <1>6, <1>7, <1>8, <1>9 DEF Next, Dispatcher

(* The steps before the first reading of the job: a launch, then the        *)
(* prologue or its refusal.                                                 *)
LEMMA AroundBoot ==
    ASSUME [Next]_vars
    PROVE  /\ pc = "boot" /\ pc' # "boot" => Boot \/ BootRefused
           /\ pc # "boot" /\ pc' = "boot" => \E j, r, run : Launch(j, r, run)
           /\ pc = "boot" /\ pc' = "boot" =>
                UNCHANGED <<status, results, replayed, attempt, ckpt>>
<1> USE DEF record, pool
<1>1. CASE Submit \/ Execute \/ Resume
  <2>1. \E j, r, run : Launch(j, r, run)
    BY <1>1 DEF Submit, Execute, Resume
  <2>2. pc # "boot"
    BY <2>1 DEF Launch, Inactive
  <2> QED
    BY <2>1, <2>2
<1>2. CASE Pause \/ Unpause \/ Cancel \/ EndSession \/ StopRuntime \/ StartRuntime
  BY <1>2 DEF Pause, Unpause, Cancel, EndSession, StopRuntime, StartRuntime
<1>3. CASE Dispatcher
  <2>1. CASE Boot \/ BootRefused
    <3>1. pc = "boot" /\ pc' # "boot"
      BY <2>1 DEF Boot, BootRefused
    <3> QED
      BY <2>1, <3>1
  <2>2. ASSUME ~Boot, ~BootRefused
        PROVE  pc # "boot" /\ pc' # "boot"
    BY <1>3, <2>2 DEF Dispatcher, LoopTest, Scan, Check, Wait, Drain, Die, Sweep, Close,
       DispatchRefused, Dispatch, Retry, SettleFailure, SettleSuccess, SettleFatal,
       NextInBatch, AfterDispatch, Settling, AfterSettle, SaveCheckpoint
  <2> QED
    BY <2>1, <2>2
<1>4. CASE StartWorker \/ (\E u \in Tasks : Handler(u)) \/ Rest \/ UNCHANGED vars
  BY <1>4 DEF StartWorker, Handler, WriteMemory, HandlerReturns, HandlerRaises, HandlerExits,
              HandlerEnds, Rest, vars
<1> QED
  BY <1>1, <1>2, <1>3, <1>4 DEF Next, Callers

(* A worker only ever takes up a task that was handed to the pool, and the  *)
(* dispatcher hands over a task once: when it starts it.                    *)
LEMMA NoFutureNoCall ==
    ASSUME IInv, [Next]_vars, ~\E j, r, run : Launch(j, r, run),
           NEW t \in Tasks, future[t] = "none",
           pc = "boot" \/ status[t] # "PENDING"
    PROVE  future'[t] = "none" /\ calls'[t] = calls[t]
<1> USE DEF pool
<1>1. /\ TypeOK /\ SchedInv /\ future \in [Tasks -> FutureType] /\ calls \in [Tasks -> Nat]
      /\ queue \in Seq(Tasks)
  BY IInvParts DEF TypeOK, DataOK
<1>2. CASE Callers
  BY <1>2 DEF Callers, Submit, Execute, Resume, Pause, Unpause, Cancel, EndSession,
              StopRuntime, StartRuntime
<1>3. CASE StartWorker
  <2> DEFINE u == Head(queue)
  <2>1. u \in Tasks /\ u = queue[1] /\ 1 \in DOMAIN queue
    BY <1>1, <1>3 DEF StartWorker
  <2>2. u # t
    BY <1>1, <2>1 DEF SchedInv, QueueInv
  <2>3. /\ \E f \in {"error", "running"} : future' = [future EXCEPT ![u] = f]
        /\ calls' = [calls EXCEPT ![u] = @ + 1]
    BY <1>3 DEF StartWorker
  <2> HIDE DEF u
  <2> QED
    BY <1>1, <2>1, <2>2, <2>3
<1>4. ASSUME NEW u \in Tasks, Handler(u)
      PROVE  future'[t] = "none" /\ calls'[t] = calls[t]
  BY <1>1, <1>4 DEF Handler, WriteMemory, HandlerReturns, HandlerRaises, HandlerExits,
                    HandlerEnds
<1>5. CASE Rest \/ UNCHANGED vars
  BY <1>5 DEF Rest, vars
<1>6. ASSUME NEW u \in Tasks, Dispatch(u)
      PROVE  future'[t] = "none" /\ calls'[t] = calls[t]
  <2>1. u # t
    BY <1>1, <1>6 DEF Dispatch, NextInBatch, SchedInv, BatchInv, Ready
  <2> QED
    BY <1>1, <1>6, <2>1 DEF Dispatch
<1>7. ASSUME NEW u \in Tasks, Retry(u)
      PROVE  future'[t] = "none" /\ calls'[t] = calls[t]
  <2>1. u # t
    BY <1>7 DEF Retry
  <2> QED
    BY <1>1, <1>7, <2>1 DEF Retry
<1>8. ASSUME NEW u \in Tasks,
             DispatchRefused(u) \/ SettleFailure(u) \/ SettleSuccess(u) \/ SettleFatal(u)
      PROVE  future'[t] = "none" /\ calls'[t] = calls[t]
  BY <1>1, <1>8 DEF DispatchRefused, SettleFailure, SettleSuccess, SettleFatal
<1>9. CASE BootRefused \/ Boot \/ LoopTest \/ Scan \/ Check \/ Wait \/ Drain \/ Die \/ Sweep
           \/ Close
  BY <1>9 DEF BootRefused, Boot, LoopTest, Scan, Check, Wait, Drain, Die, Sweep, Close
<1> QED
  BY <1>2, <1>3, <1>4, <1>5, <1>6, <1>7, <1>8, <1>9 DEF Next, Dispatcher

(* What a run replayed is fixed once it has begun.                          *)
LEMMA ReplayedFixed ==
    ASSUME [Next]_vars, pc # "boot", pc' # "boot"
    PROVE  replayed' = replayed
<1> USE DEF record
<1>1. CASE Callers
  BY <1>1 DEF Callers, Submit, Execute, Resume, Launch, Pause, Unpause, Cancel, EndSession,
              StopRuntime, StartRuntime
<1>2. CASE Dispatcher
  BY <1>2 DEF Dispatcher, BootRefused, Boot, LoopTest, Scan, Check, Wait, Drain, Die, Sweep,
              Close, DispatchRefused, Dispatch, Retry, SettleFailure, SettleSuccess, SettleFatal
<1>3. CASE StartWorker \/ (\E u \in Tasks : Handler(u)) \/ Rest \/ UNCHANGED vars
  BY <1>3 DEF StartWorker, Handler, WriteMemory, HandlerReturns, HandlerRaises, HandlerExits,
              HandlerEnds, Rest, vars
<1> QED
  BY <1>1, <1>2, <1>3 DEF Next

LEMMA ReplayStep ==
    ASSUME IInv, ReplayInv, [Next]_vars
    PROVE  ReplayInv'
<1>1. TypeOK /\ SchedInv /\ replayed \in SUBSET Tasks /\ ckpt \in CkptType
  BY IInvParts DEF TypeOK, DataOK
<1>2. CASE \E j, r, run : Launch(j, r, run)
  BY <1>2 DEF Launch, ReplayInv
<1>3. CASE pc = "boot" /\ ~\E j, r, run : Launch(j, r, run)
  <2>1. \A t \in Tasks : future[t] = "none" /\ calls[t] = 0
    BY <1>1, <1>3 DEF SchedInv, FutureInv, Inflight, ReplayInv
  <2>2. \A t \in Tasks : future'[t] = "none" /\ calls'[t] = 0
    BY <1>3, <2>1, NoFutureNoCall
  <2>3. CASE Boot
    <3>1. \/ replayed' = {}
          \/ replayed' = ckpt.completed
      BY <2>3 DEF Boot
    <3>2. replayed' \subseteq Tasks /\ \A t \in replayed' : status'[t] = "COMPLETED"
      BY <1>1, <2>3, <3>1 DEF Boot, CkptType
    <3>3. pc' # "boot"
      BY <2>3 DEF Boot
    <3> QED
      BY <2>2, <3>2, <3>3 DEF ReplayInv
  <2>4. CASE BootRefused
    BY <1>3, <2>2, <2>4 DEF BootRefused, ReplayInv, record
  <2>5. CASE pc' = "boot"
    BY <1>3, <2>2, <2>5, AroundBoot DEF ReplayInv
  <2> QED
    BY <1>3, <2>3, <2>4, <2>5, AroundBoot
<1>4. CASE pc # "boot" /\ ~\E j, r, run : Launch(j, r, run)
  <2>1. pc' # "boot" /\ replayed' = replayed
    BY <1>4, AroundBoot, ReplayedFixed
  <2>2. ASSUME NEW t \in replayed
        PROVE  calls'[t] = 0 /\ status'[t] = "COMPLETED" /\ future'[t] = "none"
    <3>1. t \in Tasks /\ calls[t] = 0 /\ status[t] = "COMPLETED" /\ future[t] = "none"
      BY <1>1, <2>2 DEF ReplayInv
    <3>2. future'[t] = "none" /\ calls'[t] = calls[t]
      BY <1>4, <3>1, NoFutureNoCall
    <3>3. status'[t] = "COMPLETED"
      BY <1>4, <2>1, <3>1, StatusMoves
    <3> QED
      BY <3>1, <3>2, <3>3
  <2> QED
    BY <2>1, <2>2 DEF ReplayInv
<1> QED
  BY <1>2, <1>3, <1>4

(* Resuming a run never executes again a task whose result it took from the *)
(* checkpoint, whatever fails, is retried or is cancelled in the resumed    *)
(* run (Executor.resume, _run's replay of task_results).                    *)
THEOREM ReplayedNotReexecutedHolds == Spec => []ReplayedNotReexecuted
<1>1. Init => ReplayInv
  BY DEF Init, ReplayInv
<1>2. IInv /\ ReplayInv /\ [Next]_vars => ReplayInv'
  BY ReplayStep
<1>3. ReplayInv => ReplayedNotReexecuted
  BY DEF ReplayInv, ReplayedNotReexecuted
<1> QED
  BY <1>1, <1>2, <1>3, IInvariant, PTL DEF Spec

-----------------------------------------------------------------------------
(***************************************************************************)
(* What the checkpoint holds.                                              *)
(***************************************************************************)

(* A step of a run that has begun leaves the run record and the checkpoint  *)
(* alone, or saves the record it has just changed, or is the last one.      *)
LEMMA SaveMoves ==
    ASSUME [Next]_vars, pc # "boot", pc' # "boot"
    PROVE  \/ UNCHANGED <<results, ckpt>> /\ (DispatcherLive' => DispatcherLive)
           \/ \E next : SaveCheckpoint(results', next)
           \/ pc' = "ended" /\ ckpt' = ckpt
<1> USE DEF record, DispatcherLive, Inactive
<1>1. CASE Callers
  BY <1>1 DEF Callers, Submit, Execute, Resume, Launch, Pause, Unpause, Cancel, EndSession,
              StopRuntime, StartRuntime
<1>2. CASE BootRefused \/ LoopTest \/ Scan \/ Check \/ Wait \/ Drain \/ Die \/ Sweep \/ Close
           \/ Boot
  BY <1>2 DEF BootRefused, Boot, LoopTest, Scan, Check, Wait, Drain, Die, Sweep, Close
<1>3. ASSUME NEW u \in Tasks,
             Dispatch(u) \/ Retry(u) \/ SettleFatal(u)
      PROVE  UNCHANGED <<results, ckpt>> /\ (DispatcherLive' => DispatcherLive)
  BY <1>3 DEF Dispatch, Retry, SettleFatal, NextInBatch, Settling
<1>4. ASSUME NEW u \in Tasks,
             DispatchRefused(u) \/ SettleFailure(u) \/ SettleSuccess(u)
      PROVE  \E next : SaveCheckpoint(results', next)
  BY <1>4 DEF DispatchRefused, SettleFailure, SettleSuccess
<1>5. CASE StartWorker \/ (\E u \in Tasks : Handler(u)) \/ Rest \/ UNCHANGED vars
  BY <1>5 DEF StartWorker, Handler, WriteMemory, HandlerReturns, HandlerRaises, HandlerExits,
              HandlerEnds, Rest, vars
<1> QED
  BY <1>1, <1>2, <1>3, <1>4, <1>5 DEF Next, Dispatcher

LEMMA CheckpointCurrentStep ==
    ASSUME IInv, CheckpointCurrent, [Next]_vars
    PROVE  CheckpointCurrent'
<1>1. CASE pc' = "boot"
  BY <1>1 DEF CheckpointCurrent, DispatcherLive
<1>2. CASE pc = "boot" /\ pc' # "boot"
  <2>1. CASE Boot
    <3>1. \A t \in Tasks : results'[t] = IF t \in replayed' THEN Result("COMPLETED", 1)
                                         ELSE NoResult
      BY <2>1 DEF Boot
    <3>2. \A t \in Tasks : t \notin replayed' => results'[t].status = "NONE"
      BY <3>1 DEF NoResult
    <3> QED
      BY <3>2 DEF CheckpointCurrent
  <2>2. CASE BootRefused
    BY <2>2 DEF BootRefused, CheckpointCurrent, DispatcherLive, Inactive
  <2> QED
    BY <1>2, <2>1, <2>2, AroundBoot
<1>3. CASE pc # "boot" /\ pc' # "boot"
  <2>1. replayed' = replayed
    BY <1>3, ReplayedFixed
  <2>2. CASE UNCHANGED <<results, ckpt>> /\ (DispatcherLive' => DispatcherLive)
    BY <2>1, <2>2 DEF CheckpointCurrent, Completed
  <2>3. ASSUME NEW next, SaveCheckpoint(results', next)
        PROVE  CheckpointCurrent'
    BY <2>3 DEF SaveCheckpoint, CheckpointCurrent, DispatcherLive
  <2>4. CASE pc' = "ended"
    BY <2>4 DEF CheckpointCurrent, DispatcherLive, Inactive
  <2> QED
    BY <1>3, <2>2, <2>3, <2>4, SaveMoves
<1> QED
  BY <1>1, <1>2, <1>3

(* From its first result on, a live run and its checkpoint agree on what    *)
(* completed: a crash between two steps loses nothing that was settled.     *)
THEOREM CheckpointCurrentHolds == Spec => []CheckpointCurrent
<1>1. Init => CheckpointCurrent
  BY DEF Init, CheckpointCurrent, DispatcherLive, Inactive
<1>2. IInv /\ CheckpointCurrent /\ [Next]_vars => CheckpointCurrent'
  BY CheckpointCurrentStep
<1> QED
  BY <1>1, <1>2, IInvariant, PTL DEF Spec

(* Sessions only end in steps that are counted, and only ending one takes   *)
(* anything out of the namespace of a run that has begun.                   *)
LEMMA MemoryGrows ==
    ASSUME IInv, [Next]_vars, ends' = 0
    PROVE  /\ ends = 0
           /\ ~Boot => wm \subseteq wm'
<1> USE DEF memory
<1>1. ends \in Nat
  BY DEF IInv, TypeOK, DataOK
<1>2. CASE Callers
  BY <1>1, <1>2 DEF Callers, Submit, Execute, Resume, Launch, Pause, Unpause, Cancel,
              EndSession, StopRuntime, StartRuntime
<1>3. CASE Dispatcher
  BY <1>3 DEF Dispatcher, BootRefused, Boot, LoopTest, Scan, Check, Wait, Drain, Die, Sweep,
              Close, DispatchRefused, Dispatch, Retry, SettleFailure, SettleSuccess, SettleFatal
<1>4. CASE StartWorker \/ (\E u \in Tasks : Handler(u)) \/ Rest \/ UNCHANGED vars
  BY <1>4 DEF StartWorker, Handler, WriteMemory, HandlerReturns, HandlerRaises, HandlerExits,
              HandlerEnds, Rest, vars
<1> QED
  BY <1>2, <1>3, <1>4 DEF Next

Written(t) == results[t].status = "COMPLETED" \/ future[t] \in {"wrote", "ok"}

(* Nothing counts as written but by the handler's write.                    *)
LEMMA WrittenMoves ==
    ASSUME IInv, [Next]_vars, ~Boot, NEW t \in Tasks, Written(t)'
    PROVE  Written(t) \/ t \in wm'
<1> USE DEF record, pool, Written
<1>1. /\ TypeOK /\ SchedInv /\ future \in [Tasks -> FutureType]
      /\ results \in [Tasks -> ResultType] /\ queue \in Seq(Tasks)
  BY IInvParts DEF TypeOK, DataOK
<1>2. ASSUME NEW j, NEW r, NEW run, Launch(j, r, run)
      PROVE  FALSE
  BY <1>2 DEF Launch, NoResult
<1>3. CASE Pause \/ Unpause \/ Cancel \/ EndSession \/ StopRuntime \/ StartRuntime
  BY <1>3 DEF Pause, Unpause, Cancel, EndSession, StopRuntime, StartRuntime
<1>4. CASE BootRefused \/ LoopTest \/ Scan \/ Check \/ Wait \/ Drain \/ Die \/ Sweep
  BY <1>4 DEF BootRefused, LoopTest, Scan, Check, Wait, Drain, Die, Sweep
<1>5. CASE Close
  <2>1. future' = future
    BY <1>5 DEF Close
  <2>2. CASE results[t] = NoResult
    <3>1. results'[t] = Result(status[t], 1)
      BY <1>5, <2>2 DEF Close
    <3>2. status[t] # "COMPLETED"
      BY <1>1, <2>2 DEF SchedInv, ResultsInv, NoResult
    <3> QED
      BY <2>1, <3>1, <3>2 DEF Result
  <2>3. CASE results[t] # NoResult
    BY <1>5, <2>1, <2>3 DEF Close
  <2> QED
    BY <2>2, <2>3
<1>6. ASSUME NEW u \in Tasks,
             DispatchRefused(u) \/ Dispatch(u) \/ Retry(u) \/ SettleFailure(u)
      PROVE  Written(t)
  BY <1>1, <1>6 DEF DispatchRefused, Dispatch, Retry, SettleFailure, Result
<1>7. ASSUME NEW u \in Tasks, SettleSuccess(u) \/ SettleFatal(u)
      PROVE  Written(t)
  BY <1>1, <1>7 DEF SettleSuccess, SettleFatal
<1>8. CASE StartWorker
  <2> DEFINE u == Head(queue)
  <2>1. u \in Tasks
    BY <1>1, <1>8 DEF StartWorker
  <2>2. /\ \E f \in {"error", "running"} : future' = [future EXCEPT ![u] = f]
        /\ results' = results
    BY <1>8 DEF StartWorker
  <2> HIDE DEF u
  <2> QED
    BY <1>1, <2>1, <2>2
<1>9. ASSUME NEW u \in Tasks, Handler(u)
      PROVE  Written(t) \/ t \in wm'
  BY <1>1, <1>9 DEF Handler, WriteMemory, HandlerReturns, HandlerRaises, HandlerExits,
                    HandlerEnds
<1>10. CASE Rest \/ UNCHANGED vars
  BY <1>10 DEF Rest, vars
<1> QED
  BY <1>2, <1>3, <1>4, <1>5, <1>6, <1>7, <1>8, <1>9, <1>10
     DEF Next, Callers, Dispatcher, Submit, Execute, Resume

(* The run that saves a checkpoint writes no memory in the same step.       *)
LEMMA MemoryWhenSaved ==
    ASSUME [Next]_vars, ckpt' # ckpt
    PROVE  wm' = wm
<1> USE DEF memory
<1>1. CASE Dispatcher
  BY <1>1 DEF Dispatcher, BootRefused, Boot, LoopTest, Scan, Check, Wait, Drain, Die, Sweep,
              Close, DispatchRefused, Dispatch, Retry, SettleFailure, SettleSuccess, SettleFatal
<1>2. CASE Callers
  BY <1>2 DEF Callers, Submit, Execute, Resume, Launch, Pause, Unpause, Cancel,
              EndSession, StopRuntime, StartRuntime
<1>3. CASE StartWorker \/ (\E u \in Tasks : Handler(u)) \/ Rest \/ UNCHANGED vars
  BY <1>3 DEF StartWorker, Handler, WriteMemory, HandlerReturns, HandlerRaises, HandlerExits,
              HandlerEnds, Rest, vars
<1> QED
  BY <1>1, <1>2, <1>3 DEF Next

LEMMA MemoryStep ==
    ASSUME IInv, MemoryInv, [Next]_vars
    PROVE  MemoryInv'
<1> SUFFICES ASSUME ends' = 0
             PROVE  CheckpointHasMemory' /\ \A t \in Tasks : Written(t)' => t \in wm'
  BY DEF MemoryInv, Written
<1>1. TypeOK /\ SchedInv /\ ckpt \in CkptType /\ wm \in SUBSET Tasks
  BY IInvParts DEF TypeOK, DataOK
<1>2. CheckpointHasMemory /\ \A t \in Tasks : Written(t) => t \in wm
  BY MemoryGrows DEF MemoryInv, Written
<1>3. CASE Boot
  <2>1. /\ \A t \in Tasks : future'[t] = "none"
        /\ ckpt' = ckpt
    BY <1>1, <1>3 DEF Boot, SchedInv, FutureInv, Inflight, pool
  <2>2. replayed' \subseteq wm'
    BY <1>1, <1>2, <1>3 DEF Boot, CheckpointHasMemory
  <2>3. ASSUME NEW t \in Tasks, results'[t].status = "COMPLETED"
        PROVE  t \in replayed'
    <3>1. results'[t] = IF t \in replayed' THEN Result("COMPLETED", 1) ELSE NoResult
      BY <1>3 DEF Boot
    <3> QED
      BY <2>3, <3>1 DEF NoResult
  <2> QED
    BY <1>2, <2>1, <2>2, <2>3 DEF CheckpointHasMemory, Written
<1>4. CASE ~Boot
  <2>1. wm \subseteq wm'
    BY <1>4, MemoryGrows
  <2>2. \A t \in Tasks : Written(t)' => t \in wm'
    BY <1>2, <1>4, <2>1, WrittenMoves
  <2>3. CASE ckpt' = ckpt
    BY <1>2, <2>2, <2>3 DEF CheckpointHasMemory
  <2>4. CASE ckpt' # ckpt
    <3>1. \E next : SaveCheckpoint(results', next)
      BY <1>4, <2>4, AroundBoot, SaveMoves DEF Launch, BootRefused
    <3>2. ckpt' = [completed |-> Completed(results'), memory |-> wm, taken |-> TRUE]
      BY <2>4, <3>1 DEF SaveCheckpoint
    <3>3. wm' = wm
      BY <2>4, MemoryWhenSaved
    <3> QED
      BY <2>2, <3>2, <3>3 DEF CheckpointHasMemory, Completed, Written
  <2> QED
    BY <2>2, <2>3, <2>4
<1> QED
  BY <1>3, <1>4

(* As long as no session was ended, the checkpoint holds what every task it *)
(* calls completed had written: the snapshot is never older than the        *)
(* results it is saved with, however the handlers of other tasks interleave *)
(* (_save_checkpoint reads the namespace after the results).  Ending the    *)
(* session under a running plan drops the namespace, so the hypothesis is   *)
(* needed.                                                                  *)
THEOREM CheckpointHasMemoryHolds == Spec => [](ends = 0 => CheckpointHasMemory)
<1>1. Init => MemoryInv
  BY DEF Init, MemoryInv, CheckpointHasMemory, NoCheckpoint, NoResult
<1>2. IInv /\ MemoryInv /\ [Next]_vars => MemoryInv'
  BY MemoryStep
<1>3. MemoryInv => (ends = 0 => CheckpointHasMemory)
  BY DEF MemoryInv
<1> QED
  BY <1>1, <1>2, <1>3, IInvariant, PTL DEF Spec

-----------------------------------------------------------------------------
(***************************************************************************)
(* Cancelling.                                                             *)
(***************************************************************************)

(* Only starting a task and retrying it touch its attempt number.           *)
LEMMA AttemptMoves ==
    ASSUME IInv, [Next]_vars, ~\E j, r, run : Launch(j, r, run), NEW t \in Tasks
    PROVE  attempt'[t] = attempt[t] \/ Dispatch(t) \/ Retry(t)
<1> USE DEF pool
<1>1. attempt \in [Tasks -> 0..MaxAttempts]
  BY DEF IInv, TypeOK, DataOK
<1>2. CASE Callers
  BY <1>2 DEF Callers, Submit, Execute, Resume, Pause, Unpause, Cancel, EndSession,
              StopRuntime, StartRuntime
<1>3. ASSUME NEW u \in Tasks, Dispatch(u) \/ Retry(u)
      PROVE  attempt'[t] = attempt[t] \/ Dispatch(t) \/ Retry(t)
  <2>1. CASE u = t
    BY <1>3, <2>1
  <2>2. CASE u # t
    BY <1>1, <1>3, <2>2 DEF Dispatch, Retry
  <2> QED
    BY <2>1, <2>2
<1>4. ASSUME NEW u \in Tasks,
             DispatchRefused(u) \/ SettleFailure(u) \/ SettleSuccess(u) \/ SettleFatal(u)
      PROVE  attempt' = attempt
  BY <1>4 DEF DispatchRefused, SettleFailure, SettleSuccess, SettleFatal
<1>5. CASE BootRefused \/ Boot \/ LoopTest \/ Scan \/ Check \/ Wait \/ Drain \/ Die \/ Sweep
           \/ Close
  BY <1>5 DEF BootRefused, Boot, LoopTest, Scan, Check, Wait, Drain, Die, Sweep, Close
<1>6. CASE StartWorker \/ (\E u \in Tasks : Handler(u)) \/ Rest \/ UNCHANGED vars
  BY <1>6 DEF StartWorker, Handler, WriteMemory, HandlerReturns, HandlerRaises, HandlerExits,
              HandlerEnds, Rest, vars
<1> QED
  BY <1>2, <1>3, <1>4, <1>5, <1>6 DEF Next, Dispatcher

LEMMA AttemptStep ==
    ASSUME IInv, AttemptInv, [Next]_vars
    PROVE  AttemptInv'
<1> SUFFICES ASSUME NEW t \in Tasks, status'[t] = "PENDING"
             PROVE  attempt'[t] = 0
  BY DEF AttemptInv
<1>1. TypeOK /\ SchedInv /\ status \in [Tasks -> TaskStatus]
  BY IInvParts DEF TypeOK, DataOK
<1>2. CASE \E j, r, run : Launch(j, r, run)
  BY <1>2 DEF Launch
<1>3. CASE ~\E j, r, run : Launch(j, r, run)
  <2>1. status[t] = "PENDING"
    <3>1. CASE pc = "boot"
      BY <1>1, <3>1 DEF SchedInv, BootInv
    <3>2. CASE pc # "boot"
      BY <1>3, <3>2, AroundBoot, StatusMoves
    <3> QED
      BY <3>1, <3>2
  <2>2. ~Dispatch(t)
    BY <1>1 DEF Dispatch
  <2>3. ~Retry(t)
    BY <1>1, <2>1, SettlingFacts DEF Retry
  <2> QED
    BY <1>3, <2>1, <2>2, <2>3, AttemptMoves DEF AttemptInv
<1> QED
  BY <1>2, <1>3

LEMMA CancelStep ==
    ASSUME IInv, AttemptInv, [Next]_vars, cancelFlag, pc' # "boot"
    PROVE  /\ \A t \in Tasks : attempt'[t] > attempt[t] => pc = "batch" /\ attempt[t] = 0
           /\ pc' = "scan" => pc = "scan"
<1>1. /\ TypeOK /\ SchedInv /\ attempt \in [Tasks -> 0..MaxAttempts]
      /\ ~\E j, r, run : Launch(j, r, run)
  BY IInvParts DEF TypeOK, DataOK, Launch
<1>2. ASSUME NEW t \in Tasks, attempt'[t] > attempt[t]
      PROVE  pc = "batch" /\ attempt[t] = 0
  <2>1. attempt'[t] # attempt[t]
    BY <1>1, <1>2
  <2>2. Dispatch(t)
    BY <1>1, <2>1, AttemptMoves DEF Retry, AllowRetry
  <2>3. pc = "batch" /\ status[t] = "PENDING"
    BY <1>1, <2>2 DEF Dispatch, NextInBatch, SchedInv, BatchInv, Ready
  <2> QED
    BY <2>3 DEF AttemptInv
<1>3. ASSUME pc' = "scan", pc # "scan"
      PROVE  FALSE
  <2>1. CASE Callers
    BY <1>1, <1>3, <2>1 DEF Callers, Submit, Execute, Resume, Pause, Unpause, Cancel,
       EndSession, StopRuntime, StartRuntime
  <2>2. CASE LoopTest
    BY <1>3, <2>2 DEF LoopTest
  <2>3. CASE Dispatcher /\ ~LoopTest
    BY <1>3, <2>3 DEF Dispatcher, BootRefused, Boot, Scan, Check, Wait, Drain, Die, Sweep, Close,
       DispatchRefused, Dispatch, Retry, SettleFailure, SettleSuccess, SettleFatal,
       NextInBatch, AfterDispatch, Settling, AfterSettle, SaveCheckpoint
  <2>4. CASE StartWorker \/ (\E u \in Tasks : Handler(u)) \/ Rest \/ UNCHANGED vars
    BY <1>3, <2>4 DEF StartWorker, Handler, WriteMemory, HandlerReturns, HandlerRaises,
       HandlerExits, HandlerEnds, Rest, vars
  <2> QED
    BY <2>1, <2>2, <2>3, <2>4 DEF Next
<1> QED
  BY <1>2, <1>3

(* Once a job is cancelled nothing is retried and no ready list is read any *)
(* more than the one already under way; what still goes out are tasks of    *)
(* that list, each for the first time (Job.cancel against _run's loop).     *)
THEOREM CancelBoundsDispatchHolds == Spec => CancelBoundsDispatch
<1>1. Init => AttemptInv
  BY DEF Init, AttemptInv
<1>2. IInv /\ AttemptInv /\ [Next]_vars => AttemptInv'
  BY AttemptStep
<1>3. IInv /\ AttemptInv /\ [Next]_vars =>
        [cancelFlag /\ pc' # "boot" =>
          /\ \A t \in Tasks : attempt'[t] > attempt[t] => pc = "batch" /\ attempt[t] = 0
          /\ pc' = "scan" => pc = "scan"]_vars
  BY CancelStep
<1> QED
  BY <1>1, <1>2, <1>3, IInvariant, PTL DEF Spec, CancelBoundsDispatch

-----------------------------------------------------------------------------
(***************************************************************************)
(* Runs nobody pauses.                                                     *)
(***************************************************************************)

(* The flag a caller clears to pause a run stays set.                       *)
LEMMA NeverPaused ==
    ASSUME ~AllowPause, resumeFlag, [Next]_vars
    PROVE  resumeFlag'
<1> USE DEF job
<1>1. CASE Callers
  <2>1. CASE Submit
    <3>1. PICK run \in BOOLEAN : (run \/ AllowPause) /\ Launch(TRUE, FALSE, run)
      BY <2>1, Zenon DEF Submit
    <3> QED
      BY <3>1, Zenon DEF Launch
  <2>2. CASE Execute \/ Resume \/ Cancel \/ EndSession \/ StopRuntime \/ StartRuntime
    BY <2>2, Zenon DEF Execute, Resume, Launch, Cancel, EndSession, StopRuntime, StartRuntime
  <2>3. CASE Pause \/ Unpause
    BY <2>3, Zenon DEF Pause, Unpause
  <2> QED
    BY <1>1, <2>1, <2>2, <2>3, Zenon DEF Callers
<1>2. CASE Dispatcher
  BY <1>2, Zenon DEF Dispatcher, BootRefused, Boot, LoopTest, Scan, Check, Wait, Drain, Die,
     Sweep, Close, DispatchRefused, Dispatch, Retry, SettleFailure, SettleSuccess, SettleFatal
<1>3. CASE StartWorker \/ (\E u \in Tasks : Handler(u)) \/ Rest \/ UNCHANGED vars
  BY <1>3, Zenon DEF StartWorker, Handler, WriteMemory, HandlerReturns, HandlerRaises,
     HandlerExits, HandlerEnds, Rest, vars
<1> QED
  BY <1>1, <1>2, <1>3, Zenon DEF Next

(* Starting a ready task, or turning it away, makes no other task ready.    *)
LEMMA DispatchShrinksReady ==
    ASSUME IInv, NEW t \in Tasks, Dispatch(t) \/ DispatchRefused(t)
    PROVE  Ready(Deps, status') \subseteq Ready(Deps, status) \ {t}
<1>1. TypeOK /\ SchedInv /\ status \in [Tasks -> TaskStatus]
  BY IInvParts DEF TypeOK, DataOK
<1>2. CASE Dispatch(t)
  BY <1>1, <1>2 DEF Dispatch, Ready
<1>3. CASE DispatchRefused(t)
  <2>1. /\ status' \in [Tasks -> TaskStatus] /\ status'[t] = "FAILED"
        /\ \A u \in Tasks \ {t} : \/ status'[u] = status[u]
                                  \/ status'[u] = "BLOCKED"
    BY <1>1, <1>3, RefusedEffect
  <2>2. \A u \in Tasks : /\ status'[u] = "PENDING" => status[u] = "PENDING" /\ u # t
                         /\ status'[u] = "COMPLETED" => status[u] = "COMPLETED"
    BY <2>1
  <2> QED
    BY <1>1, <2>1, <2>2 DEF Ready
<1> QED
  BY <1>2, <1>3

(* With nothing in flight and nothing ready, a run that was not cancelled   *)
(* is done.                                                                 *)
LEMMA IdleIsDone ==
    ASSUME IInv, DispatcherLive, pc \notin {"close", "ended"},
           Inflight = {}, Ready(Deps, status) = {}
    PROVE  Done(status)
<1>1. /\ TypeOK /\ SchedInv /\ status \in [Tasks -> TaskStatus]
  BY IInvParts DEF TypeOK, DataOK
<1>2. \A t \in Tasks : status[t] \notin {"READY", "RUNNING", "CANCELLED"}
  BY <1>1 DEF SchedInv, StatusInv, FutureInv
<1>3. BlockedConsistent(Deps, status)
  BY <1>1 DEF SchedInv, BlockedIffBehindFailure
<1> QED
  BY <1>1, <1>2, <1>3, GraphOperators, Graph!QuiescentIsDone

LEMMA CancelRestIsDone ==
    ASSUME status \in [Tasks -> TaskStatus]
    PROVE  Done(CancelRest(status))
BY DEF CancelRest, Done, TerminalStatus

LEMMA NoPauseStep ==
    ASSUME ~AllowPause, IInv, NoPauseInv, [Next]_vars
    PROVE  NoPauseInv'
<1> USE DEF record, pool, work, job
<1>1. /\ TypeOK /\ SchedInv /\ status \in [Tasks -> TaskStatus] /\ FlagsOK
      /\ DOMAIN status = Tasks
  BY IInvParts DEF TypeOK, DataOK
<1>2. /\ resumeFlag
      /\ pc = "batch" => Ready(Deps, status) \subseteq batch
      /\ pc = "check" => Ready(Deps, status) = {}
      /\ pc = "sweep" => cancelFlag \/ Done(status)
      /\ pc \in {"close", "ended"} => Done(status)
  BY DEF NoPauseInv
<1>3. resumeFlag'
  BY <1>2, NeverPaused
<1> SUFFICES /\ pc' = "batch" => Ready(Deps, status') \subseteq batch'
             /\ pc' = "check" => Ready(Deps, status') = {}
             /\ pc' = "sweep" => cancelFlag' \/ Done(status')
             /\ pc' \in {"close", "ended"} => Done(status')
  BY <1>3 DEF NoPauseInv
<1>4. CASE \E j, r, run : Launch(j, r, run)
  BY <1>4 DEF Launch
<1>5. CASE Pause \/ Unpause \/ EndSession \/ StopRuntime \/ StartRuntime
  <2>1. UNCHANGED <<pc, status, batch, cancelFlag>>
    BY <1>5 DEF Pause, Unpause, EndSession, StopRuntime, StartRuntime
  <2> QED
    BY <1>2, <2>1
<1>6. CASE Cancel
  <2>1. UNCHANGED <<pc, status, batch>> /\ cancelFlag'
    BY <1>6 DEF Cancel
  <2> QED
    BY <1>2, <2>1
<1>7. CASE BootRefused \/ Boot \/ Wait \/ Drain \/ Die
  BY <1>7 DEF BootRefused, Boot, Wait, Drain, Die
<1>8. CASE LoopTest
  BY <1>8 DEF LoopTest
<1>9. CASE Scan
  BY <1>2, <1>9 DEF Scan, Paused
<1>10. CASE Check
  <2>1. CASE Inflight # {}
    BY <1>10, <2>1 DEF Check
  <2>2. CASE Inflight = {}
    <3>1. Done(status)
      BY <1>2, <1>10, <2>2, IdleIsDone DEF Check, DispatcherLive, Inactive
    <3>2. pc' = "sweep" /\ status' = status
      BY <1>2, <1>10, <2>2 DEF Check, Paused
    <3> QED
      BY <3>1, <3>2
  <2> QED
    BY <2>1, <2>2
<1>11. ASSUME NEW t \in Tasks, Dispatch(t) \/ DispatchRefused(t)
       PROVE  /\ pc' = "batch" => Ready(Deps, status') \subseteq batch'
              /\ pc' = "check" => Ready(Deps, status') = {}
              /\ pc' \notin {"sweep", "close", "ended"}
  <2>1. Ready(Deps, status') \subseteq batch'
    BY <1>2, <1>11, DispatchShrinksReady DEF Dispatch, DispatchRefused, NextInBatch
  <2>2. /\ batch' = batch \ {t}
        /\ pc' = AfterDispatch(t) \/ pc' = "dying"
    BY <1>11 DEF Dispatch, DispatchRefused, NextInBatch, SaveCheckpoint
  <2> QED
    BY <2>1, <2>2 DEF AfterDispatch
<1>12. ASSUME NEW t \in Tasks,
              Retry(t) \/ SettleFailure(t) \/ SettleSuccess(t) \/ SettleFatal(t)
       PROVE  /\ pc' \notin {"batch", "check", "close", "ended"}
              /\ pc' = "sweep" => cancelFlag'
  <2>1. /\ Settling(t) /\ cancelFlag' = cancelFlag
        /\ pc' = AfterSettle(t) \/ pc' = "dying"
    BY <1>12 DEF Retry, SettleFailure, SettleSuccess, SettleFatal, SaveCheckpoint
  <2>2. /\ pc \in {"settle", "flush"} /\ AfterSettle(t) \in {pc, "loop", "sweep"}
        /\ AfterSettle(t) = "sweep" => pc = "flush"
    BY <1>1, <2>1, SettlingFacts
  <2>3. pc = "flush" => cancelFlag
    BY <1>1 DEF SchedInv, FutureInv
  <2> QED
    BY <2>1, <2>2, <2>3
<1>13. CASE Sweep
  <2>1. pc' = "close" /\ status' = IF cancelFlag THEN CancelRest(status) ELSE status
    BY <1>13 DEF Sweep
  <2>2. CASE cancelFlag
    BY <1>1, <2>1, <2>2, CancelRestIsDone
  <2>3. CASE ~cancelFlag
    BY <1>2, <1>13, <2>1, <2>3 DEF Sweep
  <2> QED
    BY <2>1, <2>2, <2>3
<1>14. CASE Close
  BY <1>2, <1>14 DEF Close
<1>15. CASE StartWorker \/ (\E u \in Tasks : Handler(u)) \/ Rest \/ UNCHANGED vars
  <2>1. UNCHANGED <<pc, status, batch, cancelFlag>>
    BY <1>15 DEF StartWorker, Handler, WriteMemory, HandlerReturns, HandlerRaises,
       HandlerExits, HandlerEnds, Rest, vars
  <2> QED
    BY <1>2, <2>1
<1>16. CASE Submit \/ Execute \/ Resume
  BY <1>4, <1>16 DEF Submit, Execute, Resume
<1> QED
  BY <1>5, <1>6, <1>7, <1>8, <1>9, <1>10, <1>11, <1>12, <1>13, <1>14, <1>15, <1>16
     DEF Next, Callers, Dispatcher

LEMMA NoPauseInvariant ==
    ASSUME ~AllowPause
    PROVE  Spec => []NoPauseInv
<1>1. Init => NoPauseInv
  BY DEF Init, NoPauseInv
<1>2. IInv /\ NoPauseInv /\ [Next]_vars => NoPauseInv'
  BY NoPauseStep
<1> QED
  BY <1>1, <1>2, IInvariant, PTL DEF Spec

(* A run that nobody pauses or cancels leaves its loop only when every task *)
(* is done: the dispatcher's three snapshots (the ready list, what is in    *)
(* flight, what has finished) never let a task fall between them.  With     *)
(* pauses the claim is false, as a run of the model shows.                  *)
THEOREM NoTaskLeftBehindHolds ==
    ASSUME ~AllowPause
    PROVE  Spec => []NoTaskLeftBehind
<1>1. NoPauseInv => NoTaskLeftBehind
  BY DEF NoPauseInv, NoTaskLeftBehind
<1> QED
  BY <1>1, NoPauseInvariant, PTL

-----------------------------------------------------------------------------
(***************************************************************************)
(* The executor implements DagRun.                                         *)
(***************************************************************************)

(* DagRun's graph operators, reached through the instance, are the same.    *)
LEMMA DagOperators ==
    /\ \A st : Dag!BlockedConsistent(Deps, st) <=> BlockedConsistent(Deps, st)
    /\ \A st : Dag!Done(st) <=> Done(st)
    /\ \A st : Dag!CancelRest(st) = CancelRest(st)
    /\ \A S, c : Dag!FinalStatus(S, c) = FinalStatus(S, c)
BY DEF Dag!BlockedConsistent, BlockedConsistent, Dag!Done, Done, Dag!CancelRest, CancelRest,
       Dag!FinalStatus, FinalStatus, Dag!TerminalStatus, TerminalStatus

LEMMA DagInit == Init => Dag!Init
BY DEF Init, Dag!Init

(* A step that moves no status and stays within a phase is a stutter.       *)
LEMMA DagStutter ==
    ASSUME UNCHANGED <<status, outcome>>,
           \/ pc' = pc
           \/ pc \notin Inactive /\ pc' \notin Inactive
    PROVE  UNCHANGED Dag!vars
BY DEF Dag!vars, Inactive

LEMMA DagLaunch ==
    ASSUME NEW j, NEW r, NEW run, Launch(j, r, run)
    PROVE  Dag!Next
BY DEF Launch, Inactive, Dag!Next, Dag!Launch

LEMMA DagReplay ==
    ASSUME IInv, Boot
    PROVE  Dag!Next
<1>1. TypeOK /\ SchedInv /\ ckpt \in CkptType
  BY IInvParts DEF TypeOK, DataOK
<1>2. replayed' \in SUBSET Tasks /\ \A t \in replayed' : Deps[t] \subseteq replayed'
  BY <1>1 DEF Boot, SchedInv, CheckpointDownClosed, CkptType
<1>3. \A t \in Tasks : status[t] = "PENDING"
  BY <1>1 DEF Boot, SchedInv, BootInv
<1>4. /\ status' = [t \in Tasks |-> IF t \in replayed' THEN "COMPLETED" ELSE "PENDING"]
      /\ pc = "boot" /\ pc' = "loop" /\ outcome' = outcome
  BY DEF Boot
<1>5. Dag!Replay(replayed')
  BY <1>2, <1>3, <1>4 DEF Dag!Replay
<1> QED
  BY <1>2, <1>5 DEF Dag!Next

LEMMA DagStart ==
    ASSUME IInv, NEW t \in Tasks, Dispatch(t)
    PROVE  Dag!Next
<1>1. /\ pc = "batch" /\ pc' \in {"batch", "check"}
      /\ status[t] = "PENDING" /\ \A d \in Deps[t] : status[d] = "COMPLETED"
      /\ status' = [status EXCEPT ![t] = "RUNNING"] /\ outcome' = outcome
  BY IInvParts DEF Dispatch, NextInBatch, AfterDispatch, SchedInv, BatchInv, Ready
<1>2. Dag!Start(t)
  BY <1>1 DEF Dag!Start, Dag!Runnable
<1> QED
  BY <1>2 DEF Dag!Next

(* A failure is recorded and cascades in one step of the abstract run.      *)
LEMMA DagFails ==
    ASSUME NEW t \in Tasks, status[t] = "RUNNING" \/ Dag!Runnable(t),
           status \in [Tasks -> TaskStatus], status' \in [Tasks -> TaskStatus],
           status'[t] = "FAILED",
           \A u \in Tasks \ {t} :
              \/ status'[u] = status[u]
              \/ status[u] = "PENDING" /\ status'[u] = "BLOCKED",
           BlockedConsistent(Deps, status'), outcome' = outcome,
           pc \notin Inactive, pc' \notin Inactive
    PROVE  Dag!Next
<1> DEFINE hit == {u \in Tasks \ {t} : status'[u] # status[u]}
<1>1. hit \in SUBSET {u \in Tasks : status[u] = "PENDING"}
  OBVIOUS
<1>2. status' = [u \in Tasks |-> IF u = t THEN "FAILED"
                                 ELSE IF u \in hit THEN "BLOCKED" ELSE status[u]]
  OBVIOUS
<1> HIDE DEF hit
<1>3. Dag!Fails(t)
  BY <1>1, <1>2, DagOperators DEF Dag!Fails, Inactive
<1> QED
  BY <1>3 DEF Dag!Next

LEMMA DagRefused ==
    ASSUME IInv, NEW t \in Tasks, DispatchRefused(t)
    PROVE  Dag!Next
<1>1. TypeOK /\ SchedInv /\ status \in [Tasks -> TaskStatus]
  BY IInvParts DEF TypeOK, DataOK
<1>2. /\ outcome' = outcome
      /\ pc' = AfterDispatch(t) \/ pc' = "dying"
  BY DEF DispatchRefused, SaveCheckpoint
<1>3. Dag!Runnable(t)
  BY <1>1, RefusedEffect DEF Dag!Runnable
<1>4. pc = "batch" /\ pc' \in {"batch", "check", "dying"}
  BY <1>1, <1>2, RefusedEffect DEF AfterDispatch
<1> QED
  BY <1>1, <1>2, <1>3, <1>4, RefusedEffect, DagFails DEF Inactive

LEMMA DagSettleFailure ==
    ASSUME IInv, NEW t \in Tasks, SettleFailure(t)
    PROVE  Dag!Next
<1>1. TypeOK /\ SchedInv /\ status \in [Tasks -> TaskStatus]
  BY IInvParts DEF TypeOK, DataOK
<1>2. /\ outcome' = outcome /\ Settling(t)
      /\ pc' = AfterSettle(t) \/ pc' = "dying"
  BY DEF SettleFailure, SaveCheckpoint
<1>3. pc \notin Inactive /\ pc' \notin Inactive
  BY <1>2 DEF Settling, AfterSettle, Inactive
<1> QED
  BY <1>1, <1>2, <1>3, FailureEffect, DagFails

LEMMA DagComplete ==
    ASSUME IInv, NEW t \in Tasks, SettleSuccess(t)
    PROVE  Dag!Next
<1>1. TypeOK /\ SchedInv
  BY IInvParts
<1>2. /\ outcome' = outcome /\ Settling(t)
      /\ status' = [status EXCEPT ![t] = "COMPLETED"]
      /\ pc' = AfterSettle(t) \/ pc' = "dying"
  BY DEF SettleSuccess, SaveCheckpoint
<1>3. pc \notin Inactive /\ pc' \notin Inactive
  BY <1>2 DEF Settling, AfterSettle, Inactive
<1>4. status[t] = "RUNNING"
  BY <1>1, <1>2, SettlingFacts
<1>5. Dag!Complete(t)
  BY <1>2, <1>3, <1>4 DEF Dag!Complete, Inactive
<1> QED
  BY <1>5 DEF Dag!Next

LEMMA DagSweep ==
    ASSUME IInv, Sweep
    PROVE  Dag!Next \/ UNCHANGED Dag!vars
<1>1. /\ pc = "sweep" /\ pc' = "close" /\ outcome' = outcome
      /\ status' = IF cancelFlag THEN CancelRest(status) ELSE status
  BY DEF Sweep
<1>2. \A t \in Tasks : status[t] # "RUNNING"
  BY <1>1, IInvParts DEF SchedInv, FutureInv, DispatcherLive, Inactive
<1>3. CASE cancelFlag
  BY <1>1, <1>2, <1>3, DagOperators DEF Dag!Next, Dag!CancelTheRest
<1>4. CASE ~cancelFlag
  BY <1>1, <1>4, DagStutter DEF Inactive
<1> QED
  BY <1>3, <1>4

(* The verdict is computed from the results of the run record, and those    *)
(* say of every task what the scheduler says.                               *)
LEMMA DagFinish ==
    ASSUME IInv, IInv', NoPauseInv, ~AllowPause, Close
    PROVE  Dag!Next
<1>1. /\ pc = "close" /\ pc' = "ended" /\ status' = status /\ cancelFlag' = cancelFlag
      /\ outcome' = FinalStatus({results'[t].status : t \in Tasks}, cancelFlag)
  BY DEF Close, job
<1>2. ASSUME NEW t \in Tasks
      PROVE  results'[t].status = status[t]
  <2>1. CASE results[t] = NoResult
    BY <2>1 DEF Close, Result
  <2>2. CASE results[t] # NoResult
    <3>1. results'[t] = results[t]
      BY <2>2 DEF Close
    <3> QED
      BY <2>2, <3>1, IInvParts DEF SchedInv, ResultsInv
  <2> QED
    BY <2>1, <2>2
<1>3. {results'[t].status : t \in Tasks} = {status[t] : t \in Tasks}
  BY <1>2
<1>4. Done(status)
  BY <1>1 DEF NoPauseInv
<1>5. cancelFlag \in BOOLEAN
  BY DEF IInv, TypeOK, FlagsOK
<1>6. (\E t \in Tasks : status[t] = "CANCELLED") => cancelFlag
  BY IInvParts DEF SchedInv, StatusInv
<1>7. Dag!Finish
  BY <1>1, <1>3, <1>4, <1>5, <1>6, DagOperators DEF Dag!Finish
<1> QED
  BY <1>7 DEF Dag!Next

LEMMA DagAbandon ==
    ASSUME BootRefused \/ Die
    PROVE  Dag!Next
BY DEF BootRefused, Die, record, Dag!Next, Dag!Abandon

LEMMA DagStep ==
    ASSUME ~AllowPause, IInv, IInv', NoPauseInv, [Next]_vars
    PROVE  Dag!Next \/ UNCHANGED Dag!vars
<1> USE DEF record
<1>1. CASE Submit \/ Execute \/ Resume
  BY <1>1, DagLaunch DEF Submit, Execute, Resume
<1>2. CASE Pause \/ Unpause \/ Cancel \/ EndSession \/ StopRuntime \/ StartRuntime
  <2>1. UNCHANGED <<pc, status, outcome>>
    BY <1>2 DEF Pause, Unpause, Cancel, EndSession, StopRuntime, StartRuntime
  <2> QED
    BY <2>1, DagStutter
<1>3. CASE LoopTest \/ Scan \/ Check \/ Wait \/ Drain
  <2>1. UNCHANGED <<status, outcome>> /\ pc \notin Inactive /\ pc' \notin Inactive
    BY <1>3 DEF LoopTest, Scan, Check, Wait, Drain, Inactive
  <2> QED
    BY <2>1, DagStutter
<1>4. ASSUME NEW t \in Tasks, Retry(t) \/ SettleFatal(t)
      PROVE  UNCHANGED Dag!vars
  <2>1. UNCHANGED <<status, outcome>> /\ pc \notin Inactive /\ pc' \notin Inactive
    BY <1>4 DEF Retry, SettleFatal, Settling, AfterSettle, Inactive
  <2> QED
    BY <2>1, DagStutter
<1>5. ASSUME NEW t \in Tasks,
             Dispatch(t) \/ DispatchRefused(t) \/ SettleFailure(t) \/ SettleSuccess(t)
      PROVE  Dag!Next
  BY <1>5, DagStart, DagRefused, DagSettleFailure, DagComplete
<1>6. CASE StartWorker \/ (\E t \in Tasks : Handler(t)) \/ Rest \/ UNCHANGED vars
  <2>1. UNCHANGED <<pc, status, outcome>>
    BY <1>6 DEF StartWorker, Handler, WriteMemory, HandlerReturns, HandlerRaises,
       HandlerExits, HandlerEnds, Rest, vars
  <2> QED
    BY <2>1, DagStutter
<1>7. CASE BootRefused \/ Boot \/ Die \/ Sweep \/ Close
  BY <1>7, DagAbandon, DagReplay, DagSweep, DagFinish
<1> QED
  BY <1>1, <1>2, <1>3, <1>4, <1>5, <1>6, <1>7 DEF Next, Callers, Dispatcher

(* Every run of the executor that nobody pauses is a run of DagRun: the     *)
(* thread pool, retries, checkpoints, cancels, crashes of its thread and    *)
(* resumes add no way of treating a plan that DagRun does not have.         *)
THEOREM ExecutorImplementsDagRun ==
    ASSUME ~AllowPause
    PROVE  Spec => ImplementsDagRun
<1>1. Init => Dag!Init
  BY DagInit
<1>2. IInv /\ IInv' /\ NoPauseInv /\ [Next]_vars => [Dag!Next]_(Dag!vars)
  BY DagStep
<1> QED
  BY <1>1, <1>2, IInvariant, NoPauseInvariant, PTL DEF Spec, ImplementsDagRun, Dag!Spec
=============================================================================
