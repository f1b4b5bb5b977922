------------------------ MODULE KernelRuntimeProofs ------------------------
(***************************************************************************)
(* Runtime.execute calls no handler of a plan twice, however often it is   *)
(* given the same Plan, and its first execution is a run of DagRun.        *)
(***************************************************************************)
EXTENDS KernelRuntime, FiniteSetTheorems, TLAPS

-----------------------------------------------------------------------------
(* The inductive invariant. *)

(* What was started stands on completed tasks, also when an earlier         *)
(* execution left it running.                                               *)
StatusInv ==
    /\ \A t \in Tasks :
          /\ status[t] \notin {"READY", "CANCELLED"}
          /\ status[t] \in {"RUNNING", "COMPLETED", "FAILED"} =>
                \A d \in Deps[t] : status[d] = "COMPLETED"
    /\ BlockedConsistent(Deps, status)

(* What is left of the ready list is ready, but for the task in hand.       *)
BatchInv ==
    /\ pc = "start" => batch \subseteq Ready(Deps, status)
    /\ pc = "handler" => \A t \in batch :
          IF Current(t) THEN status[t] = "RUNNING" ELSE t \in Ready(Deps, status)

CallsInv == \A t \in Tasks : calls[t] <= IF status[t] = "PENDING" THEN 0 ELSE 1

(* In the first execution nothing runs but the task in hand, and the loop   *)
(* is left only when nothing is ready.                                      *)
FirstInv ==
    /\ runs = 0 => pc = "idle" /\ \A t \in Tasks : status[t] = "PENDING"
    /\ runs <= 1 /\ pc # "lost" =>
          \A t \in Tasks : status[t] = "RUNNING" => Current(t)
    /\ runs <= 1 /\ pc = "fill" => Ready(Deps, status) = {}

ResultsInv ==
    pc # "ended" =>
        \A t \in Tasks : results[t] # "NONE" =>
            results[t] = status[t] /\ status[t] \in TerminalStatus

IInv == TypeOK /\ StatusInv /\ BatchInv /\ CallsInv /\ FirstInv /\ ResultsInv

-----------------------------------------------------------------------------

(* The lemmas about the operators of TaskGraph are proved with Scheduler;   *)
(* what that module is instantiated with does not matter to them.           *)
Graph == INSTANCE SchedulerProofs
         WITH deps <- Deps, status <- status, late <- {}, submits <- 0,
              Ids <- {}, MaxSubmits <- 0

LEMMA GraphOperators ==
    /\ Graph!IdsAssumption
    /\ \A D, st, t : Graph!Fail(D, st, t) = Fail(D, st, t)
    /\ Graph!TaskStatus = TaskStatus
    /\ \A D, st : Graph!BlockedConsistent(D, st) = BlockedConsistent(D, st)
    /\ \A D : Graph!Acyclic(D) = Acyclic(D)
    /\ \A D, st : Graph!Ready(D, st) = Ready(D, st)
    /\ \A st : Graph!Done(st) = Done(st)
<1>1. Graph!IdsAssumption
  BY FS_EmptySet, Zenon DEF Graph!IdsAssumption, IsFiniteSet, Graph!IsFiniteSet
<1> QED
  BY <1>1 DEF Fail, Graph!Fail, Blocked, Graph!Blocked,
     ClosedUnderBlocking, Graph!ClosedUnderBlocking,
     TerminalStatus, Graph!TerminalStatus, TaskStatus, Graph!TaskStatus,
     BlockedConsistent, Graph!BlockedConsistent, Acyclic, Graph!Acyclic,
     Ready, Graph!Ready, Done, Graph!Done


LEMMA InitInv == Init => IInv
<1> SUFFICES ASSUME Init
             PROVE  IInv
  OBVIOUS
<1> USE GraphAssumption, RunsAssumption DEF Init
<1>1. TypeOK
  BY DEF TypeOK, TaskStatus, RunStatus
<1>2. StatusInv
  BY DEF StatusInv, BlockedConsistent
<1> QED
  BY <1>1, <1>2 DEF IInv, BatchInv, CallsInv, FirstInv, ResultsInv

(* The final status of a run is one of RunStatus. *)
LEMMA FinalStatusType ==
    ASSUME NEW S
    PROVE  FinalStatus(S, FALSE) \in RunStatus
BY DEF FinalStatus, RunStatus

(* The task in hand is the only one of its rank, so there is at most one.   *)
LEMMA OneInHand ==
    ASSUME TypeOK, NEW t \in Tasks, Current(t), NEW u \in batch, u # t
    PROVE  ~Current(u)
BY GraphAssumption DEF TypeOK, Current

(* Failing the task that runs, in the states execute is in when it does so: *)
(* FailEffect, in terms of the invariant.                                   *)
LEMMA FailRunning ==
    ASSUME NEW st \in [Tasks -> TaskStatus], NEW t \in Tasks, st[t] = "RUNNING",
           \A u \in Tasks : st[u] \notin {"READY", "CANCELLED"},
           \A u \in Tasks : st[u] \in {"RUNNING", "COMPLETED", "FAILED"} =>
                               \A d \in Deps[u] : st[d] = "COMPLETED",
           BlockedConsistent(Deps, st)
    PROVE  LET s == Fail(Deps, st, t)
           IN  /\ s \in [Tasks -> TaskStatus] /\ s[t] = "FAILED"
               /\ \A u \in Tasks \ {t} :
                     \/ s[u] = st[u]
                     \/ /\ st[u] = "PENDING" /\ s[u] = "BLOCKED"
                        /\ \E d \in Deps[u] : st[d] # "COMPLETED"
               /\ BlockedConsistent(Deps, s)
<1>1. t \notin Deps[t]
  BY GraphAssumption, GraphOperators, Graph!NoSelfDependency
<1> QED
  BY <1>1, GraphAssumption, GraphOperators, Graph!FailEffect

(* Starting a ready task changes nothing that is blocked or has ended.      *)
LEMMA StartEffect ==
    ASSUME TypeOK, StatusInv, NEW t \in Ready(Deps, status)
    PROVE  LET s == [status EXCEPT ![t] = "RUNNING"]
           IN  /\ s \in [Tasks -> TaskStatus] /\ s[t] = "RUNNING"
               /\ \A u \in Tasks \ {t} : s[u] = status[u]
               /\ \A u \in Tasks : s[u] \notin {"READY", "CANCELLED"}
               /\ \A u \in Tasks : s[u] \in {"RUNNING", "COMPLETED", "FAILED"} =>
                                      \A d \in Deps[u] : s[d] = "COMPLETED"
               /\ BlockedConsistent(Deps, s)
<1> DEFINE s == [status EXCEPT ![t] = "RUNNING"]
<1>1. /\ t \in Tasks /\ status[t] = "PENDING" /\ \A d \in Deps[t] : status[d] = "COMPLETED"
      /\ \A u \in Tasks : Deps[u] \subseteq Tasks
  BY GraphAssumption DEF TypeOK, Ready
<1>2. s \in [Tasks -> TaskStatus] /\ s[t] = "RUNNING" /\ \A u \in Tasks \ {t} : s[u] = status[u]
  BY <1>1 DEF TypeOK, TaskStatus
<1> HIDE DEF s
<1>3. \A u \in Tasks : s[u] \notin {"READY", "CANCELLED"}
  BY <1>2 DEF StatusInv
<1>4. \A u \in Tasks : s[u] \in {"RUNNING", "COMPLETED", "FAILED"} =>
                          \A d \in Deps[u] : s[d] = "COMPLETED"
  BY <1>1, <1>2 DEF StatusInv
<1>5. \A u \in Tasks : /\ s[u] = "BLOCKED" <=> status[u] = "BLOCKED"
                       /\ s[u] = "FAILED" <=> status[u] = "FAILED"
  BY <1>1, <1>2
<1>6. BlockedConsistent(Deps, s)
  BY <1>1, <1>2, <1>5 DEF StatusInv, BlockedConsistent, TypeOK
<1> QED
  BY <1>2, <1>3, <1>4, <1>6 DEF s

(***************************************************************************)
(* The steps that settle a task: it gets a status of its own, tasks behind *)
(* it may be blocked, and it leaves the ready list.                        *)
(***************************************************************************)
Settles(t, st) ==
    /\ t \in batch /\ status'[t] = st /\ st \in {"COMPLETED", "FAILED"}
    /\ status' \in [Tasks -> TaskStatus]
    /\ \A u \in Tasks \ {t} :
          \/ status'[u] = status[u]
          \/ /\ status[u] = "PENDING" /\ status'[u] = "BLOCKED"
             /\ \E d \in Deps[u] : status[d] # "COMPLETED"
    /\ BlockedConsistent(Deps, status')
    /\ status[t] = "RUNNING" \/ t \in Ready(Deps, status)
    /\ batch \ {t} \subseteq Ready(Deps, status)
    /\ results' = [results EXCEPT ![t] = st]
    /\ batch' = batch \ {t} /\ pc' = AfterTask(t)
    /\ pc \in {"start", "handler"}
    /\ UNCHANGED <<outcome, runs>>

LEMMA SettlesInv ==
    ASSUME IInv, NEW t \in Tasks, NEW st, Settles(t, st), UNCHANGED calls,
           status[t] = "PENDING" => calls[t] = 0,
           \A u \in Tasks : Current(u) => u = t
    PROVE  IInv'
<1> USE DEF IInv
<1>1. pc' \in {"test", "start"}
  BY DEF Settles, AfterTask
<1>2. TypeOK'
  BY <1>1 DEF TypeOK, Settles, TaskStatus
<1>3. StatusInv'
  <2>1. \A u \in Tasks : status[u] = "COMPLETED" => status'[u] = "COMPLETED"
    BY DEF Settles, Ready
  <2>2. ASSUME NEW u \in Tasks, status'[u] \in {"RUNNING", "COMPLETED", "FAILED"}
        PROVE  \A d \in Deps[u] : status'[d] = "COMPLETED"
    <3>1. status[u] \in {"RUNNING", "COMPLETED", "FAILED"} \/ u \in Ready(Deps, status)
      BY <2>2 DEF Settles
    <3>2. \A d \in Deps[u] : status[d] = "COMPLETED" /\ d \in Tasks
      BY <3>1, GraphAssumption DEF StatusInv, Ready
    <3> QED
      BY <2>1, <3>2
  <2>3. \A u \in Tasks : status'[u] \notin {"READY", "CANCELLED"}
    BY DEF Settles, StatusInv
  <2> QED
    BY <2>2, <2>3 DEF StatusInv, Settles
<1>4. BatchInv'
  <2>1. ASSUME NEW u \in batch \ {t}
        PROVE  u \in Ready(Deps, status')
    <3>1. u \in Tasks /\ status[u] = "PENDING" /\ \A d \in Deps[u] : status[d] = "COMPLETED" /\ d \in Tasks
      BY GraphAssumption DEF Settles, Ready, TypeOK
    <3>2. status'[u] = "PENDING"
      BY <3>1 DEF Settles
    <3>3. \A d \in Deps[u] : status'[d] = "COMPLETED"
      BY <3>1 DEF Settles, Ready
    <3> QED
      BY <3>1, <3>2, <3>3 DEF Ready, Settles
  <2> QED
    BY <1>1, <2>1 DEF BatchInv, Settles
<1>5. CallsInv'
  <2>1. \A u \in Tasks : calls[u] \in Nat /\ calls'[u] = calls[u]
    BY DEF TypeOK
  <2>2. \A u \in Tasks \ {t} : status'[u] = status[u] \/ status[u] = "PENDING"
    BY DEF Settles
  <2>3. status'[t] # "PENDING"
    BY DEF Settles
  <2> QED
    BY <2>1, <2>2, <2>3 DEF CallsInv
<1>6. FirstInv'
  <2>1. runs' = runs /\ runs # 0
    BY DEF Settles, FirstInv
  <2>2. ASSUME runs <= 1, NEW u \in Tasks, status'[u] = "RUNNING"
        PROVE  FALSE
    <3>1. status[u] = "RUNNING" /\ u # t /\ pc # "lost"
      BY <2>2 DEF Settles
    <3> QED
      BY <2>2, <3>1 DEF FirstInv
  <2> QED
    BY <1>1, <2>1, <2>2 DEF FirstInv
<1>7. ResultsInv'
  <2>1. \A u \in Tasks \ {t} : results'[u] = results[u]
    BY DEF Settles, TypeOK
  <2>2. results'[t] = status'[t] /\ status'[t] \in TerminalStatus
    BY DEF Settles, TypeOK, TerminalStatus
  <2>3. pc # "ended"
    BY DEF Settles
  <2>4. \A u \in Tasks \ {t} : results[u] # "NONE" => status'[u] = status[u]
    BY <2>3 DEF Settles, ResultsInv, TerminalStatus
  <2> QED
    BY <2>1, <2>2, <2>3, <2>4 DEF ResultsInv
<1> QED
  BY <1>2, <1>3, <1>4, <1>5, <1>6, <1>7

LEMMA NoHandlerSettles ==
    ASSUME IInv, NEW t \in Tasks, NoHandler(t)
    PROVE  /\ Settles(t, "FAILED") /\ t \in Ready(Deps, status)
           /\ \A u \in Tasks : ~Current(u)
<1>1. t \in Ready(Deps, status) /\ pc = "start"
  BY DEF NoHandler, NextInBatch, IInv, BatchInv
<1> DEFINE s == [status EXCEPT ![t] = "RUNNING"]
<1>2. /\ s \in [Tasks -> TaskStatus] /\ s[t] = "RUNNING"
      /\ \A u \in Tasks \ {t} : s[u] = status[u]
      /\ \A u \in Tasks : s[u] \notin {"READY", "CANCELLED"}
      /\ \A u \in Tasks : s[u] \in {"RUNNING", "COMPLETED", "FAILED"} =>
                             \A d \in Deps[u] : s[d] = "COMPLETED"
      /\ BlockedConsistent(Deps, s)
  BY <1>1, StartEffect DEF IInv
<1>3. status' = Fail(Deps, s, t)
  BY DEF NoHandler
<1> HIDE DEF s
<1>4. /\ status' \in [Tasks -> TaskStatus] /\ status'[t] = "FAILED"
      /\ \A u \in Tasks \ {t} :
            \/ status'[u] = s[u]
            \/ s[u] = "PENDING" /\ status'[u] = "BLOCKED" /\ \E d \in Deps[u] : s[d] # "COMPLETED"
      /\ BlockedConsistent(Deps, status')
  BY <1>2, <1>3, FailRunning
<1>5. \A u \in Tasks \ {t} :
         \/ status'[u] = status[u]
         \/ /\ status[u] = "PENDING" /\ status'[u] = "BLOCKED"
            /\ \E d \in Deps[u] : status[d] # "COMPLETED"
  <2>1. \A d \in Tasks : s[d] # "COMPLETED" => status[d] # "COMPLETED"
    BY <1>1, <1>2 DEF Ready
  <2> QED
    BY <1>2, <1>4, <2>1, GraphAssumption
<1>6. batch \ {t} \subseteq Ready(Deps, status)
  BY <1>1 DEF IInv, BatchInv
<1> QED
  BY <1>1, <1>4, <1>5, <1>6 DEF NoHandler, NextInBatch, Settles, Current

LEMMA CurrentFacts ==
    ASSUME IInv, NEW t \in Tasks, Current(t)
    PROVE  /\ status[t] = "RUNNING" /\ t \in batch /\ pc = "handler"
           /\ batch \ {t} \subseteq Ready(Deps, status)
           /\ \A u \in Tasks : Current(u) => u = t
<1>1. \A u \in batch : u # t => ~Current(u)
  BY OneInHand DEF IInv
<1>2. pc = "handler" /\ t \in batch
  BY DEF Current
<1> QED
  BY <1>1, <1>2 DEF IInv, BatchInv, Current

LEMMA HandlerReturnsSettles ==
    ASSUME IInv, NEW t \in Tasks, HandlerReturns(t)
    PROVE  Settles(t, "COMPLETED")
<1>1. /\ status[t] = "RUNNING" /\ t \in batch /\ pc = "handler"
      /\ batch \ {t} \subseteq Ready(Deps, status)
  BY CurrentFacts DEF HandlerReturns
<1>2. /\ status' \in [Tasks -> TaskStatus] /\ status'[t] = "COMPLETED"
      /\ \A u \in Tasks \ {t} : status'[u] = status[u]
  BY DEF HandlerReturns, IInv, TypeOK, TaskStatus
<1>3. \A u \in Tasks : status'[u] \in {"FAILED", "BLOCKED"} <=> status[u] \in {"FAILED", "BLOCKED"}
  BY <1>1, <1>2
<1>4. BlockedConsistent(Deps, status')
  BY <1>1, <1>2, <1>3, GraphAssumption DEF BlockedConsistent, IInv, StatusInv, TypeOK
<1> QED
  BY <1>1, <1>2, <1>4 DEF HandlerReturns, Settles

LEMMA HandlerRaisesSettles ==
    ASSUME IInv, NEW t \in Tasks, HandlerRaises(t)
    PROVE  Settles(t, "FAILED")
<1>1. /\ status[t] = "RUNNING" /\ t \in batch /\ pc = "handler"
      /\ batch \ {t} \subseteq Ready(Deps, status)
  BY CurrentFacts DEF HandlerRaises
<1>2. status' = Fail(Deps, status, t)
  BY DEF HandlerRaises
<1>3. /\ status' \in [Tasks -> TaskStatus] /\ status'[t] = "FAILED"
      /\ \A u \in Tasks \ {t} :
            \/ status'[u] = status[u]
            \/ /\ status[u] = "PENDING" /\ status'[u] = "BLOCKED"
               /\ \E d \in Deps[u] : status[d] # "COMPLETED"
      /\ BlockedConsistent(Deps, status')
  BY <1>1, <1>2, FailRunning DEF IInv, TypeOK, StatusInv
<1> QED
  BY <1>1, <1>3 DEF HandlerRaises, Settles

(* The other steps. *)
LEMMA ExecuteInv ==
    ASSUME IInv, Execute
    PROVE  IInv'
<1> USE DEF IInv
<1>1. runs \in Nat /\ MaxRuns \in Nat /\ runs < MaxRuns /\ runs' = runs + 1
  BY RunsAssumption DEF TypeOK, Execute
<1>2. TypeOK'
  BY <1>1 DEF TypeOK, Execute, RunStatus
<1>3. StatusInv' /\ BatchInv' /\ CallsInv' /\ ResultsInv'
  BY DEF Execute, StatusInv, BatchInv, CallsInv, ResultsInv
<1>4. FirstInv'
  BY <1>1 DEF Execute, FirstInv
<1> QED
  BY <1>2, <1>3, <1>4

LEMMA LoopTestInv ==
    ASSUME IInv, LoopTest
    PROVE  IInv'
<1> USE DEF IInv
<1>1. DOMAIN status = Tasks
  BY DEF TypeOK
<1>2. /\ pc = "test" /\ pc' \in {"fill", "start"} /\ batch' \subseteq Ready(Deps, status)
      /\ UNCHANGED <<status, results, outcome, calls, runs>>
  BY DEF LoopTest
<1>3. Done(status) => Ready(Deps, status) = {}
  BY DEF Done, Ready, TerminalStatus
<1>4. pc' = "fill" => Ready(Deps, status) = {}
  BY <1>3 DEF LoopTest
<1>5. TypeOK'
  BY <1>1, <1>2 DEF TypeOK, Ready
<1>6. StatusInv' /\ CallsInv' /\ ResultsInv'
  BY <1>2 DEF StatusInv, CallsInv, ResultsInv
<1>7. BatchInv'
  BY <1>2 DEF BatchInv
<1>8. FirstInv'
  BY <1>2, <1>4 DEF FirstInv, Current
<1> QED
  BY <1>5, <1>6, <1>7, <1>8

LEMMA CallHandlerInv ==
    ASSUME IInv, NEW t \in Tasks, CallHandler(t)
    PROVE  IInv'
<1> USE DEF IInv
<1>1. /\ t \in Ready(Deps, status) /\ pc = "start" /\ pc' = "handler"
      /\ UNCHANGED <<results, outcome, batch, runs>> /\ status[t] = "PENDING"
      /\ t \in batch /\ \A u \in batch : Rank[t] <= Rank[u]
  BY DEF CallHandler, NextInBatch, BatchInv, Ready
<1>2. /\ status' \in [Tasks -> TaskStatus] /\ status'[t] = "RUNNING"
      /\ \A u \in Tasks \ {t} : status'[u] = status[u]
      /\ \A u \in Tasks : status'[u] \notin {"READY", "CANCELLED"}
      /\ \A u \in Tasks : status'[u] \in {"RUNNING", "COMPLETED", "FAILED"} =>
                             \A d \in Deps[u] : status'[d] = "COMPLETED"
      /\ BlockedConsistent(Deps, status')
  BY <1>1, StartEffect DEF CallHandler
<1>3. Current(t)' /\ \A u \in batch : u # t => ~Current(u)'
  BY <1>1, GraphAssumption DEF Current, TypeOK
<1>4. TypeOK'
  BY <1>1, <1>2 DEF TypeOK, CallHandler
<1>5. StatusInv'
  BY <1>2 DEF StatusInv
<1>6. BatchInv'
  <2>1. ASSUME NEW u \in batch, u # t
        PROVE  u \in Ready(Deps, status')
    <3>1. u \in Tasks /\ status[u] = "PENDING" /\ \A d \in Deps[u] : status[d] = "COMPLETED" /\ d \in Tasks
      BY <1>1, GraphAssumption DEF BatchInv, Ready, TypeOK
    <3>2. status'[u] = "PENDING" /\ \A d \in Deps[u] : status'[d] = "COMPLETED"
      BY <3>1, <2>1, <1>1, <1>2
    <3> QED
      BY <3>1, <3>2, <1>2 DEF Ready
  <2> QED
    BY <1>1, <1>2, <1>3, <2>1 DEF BatchInv
<1>7. CallsInv'
  <2>1. calls \in [Tasks -> Nat] /\ calls' = [calls EXCEPT ![t] = @ + 1]
    BY DEF TypeOK, CallHandler
  <2>2. calls[t] = 0
    BY <1>1, <2>1 DEF CallsInv
  <2>3. calls'[t] = 1 /\ \A u \in Tasks \ {t} : calls'[u] = calls[u]
    BY <2>1, <2>2
  <2> QED
    BY <1>2, <2>1, <2>2, <2>3 DEF CallsInv
<1>8. FirstInv'
  <2>1. runs' = runs /\ runs # 0
    BY <1>1 DEF FirstInv
  <2>2. runs <= 1 => \A u \in Tasks : status[u] # "RUNNING"
    BY <1>1 DEF FirstInv, Current
  <2>3. runs <= 1 => \A u \in Tasks : status'[u] = "RUNNING" => Current(u)'
    BY <1>2, <1>3, <2>2
  <2> QED
    BY <1>1, <2>1, <2>3 DEF FirstInv
<1>9. ResultsInv'
  BY <1>1, <1>2 DEF ResultsInv, TerminalStatus
<1> QED
  BY <1>4, <1>5, <1>6, <1>7, <1>8, <1>9

LEMMA HandlerExitsInv ==
    ASSUME IInv, NEW t \in Tasks, HandlerExits(t)
    PROVE  IInv'
<1> USE DEF IInv, HandlerExits
<1>1. pc = "handler" /\ pc' = "lost"
  BY DEF Current
<1>2. TypeOK' /\ StatusInv' /\ BatchInv' /\ CallsInv' /\ ResultsInv'
  BY <1>1 DEF TypeOK, StatusInv, BatchInv, CallsInv, ResultsInv
<1>3. FirstInv'
  BY <1>1 DEF FirstInv
<1> QED
  BY <1>2, <1>3

LEMMA FillInv ==
    ASSUME IInv, Fill
    PROVE  IInv'
<1> USE DEF IInv, Fill
<1>1. TypeOK'
  BY FinalStatusType DEF TypeOK
<1>2. StatusInv' /\ BatchInv' /\ CallsInv' /\ ResultsInv'
  BY DEF StatusInv, BatchInv, CallsInv, ResultsInv
<1>3. FirstInv'
  BY DEF FirstInv, Current
<1> QED
  BY <1>1, <1>2, <1>3

LEMMA StutterInv ==
    ASSUME IInv, UNCHANGED vars
    PROVE  IInv'
BY DEF IInv, vars, TypeOK, StatusInv, BatchInv, CallsInv, FirstInv, ResultsInv, Current

LEMMA NextInv == IInv /\ [Next]_vars => IInv'
<1> SUFFICES ASSUME IInv, [Next]_vars
             PROVE  IInv'
  OBVIOUS
<1>1. ASSUME NEW t \in Tasks, NoHandler(t)
      PROVE  IInv'
  <2>1. calls[t] = 0 /\ UNCHANGED calls
    <3>1. status[t] = "PENDING" /\ UNCHANGED calls /\ calls[t] \in Nat
      BY <1>1, NoHandlerSettles DEF IInv, TypeOK, Ready, NoHandler
    <3> QED
      BY <3>1 DEF IInv, CallsInv
  <2> QED
    BY <1>1, <2>1, NoHandlerSettles, SettlesInv
<1>2. ASSUME NEW t \in Tasks, HandlerReturns(t) \/ HandlerRaises(t)
      PROVE  IInv'
  <2>1. /\ UNCHANGED calls /\ Current(t) /\ status[t] = "RUNNING"
        /\ \A u \in Tasks : Current(u) => u = t
    BY <1>2, CurrentFacts DEF HandlerReturns, HandlerRaises
  <2> QED
    BY <1>2, <2>1, HandlerReturnsSettles, HandlerRaisesSettles, SettlesInv
<1>3. ASSUME NEW t \in Tasks, CallHandler(t) \/ HandlerExits(t)
      PROVE  IInv'
  BY <1>3, CallHandlerInv, HandlerExitsInv
<1>4. CASE Execute \/ LoopTest \/ Fill \/ Rest \/ UNCHANGED vars
  BY <1>4, ExecuteInv, LoopTestInv, FillInv, StutterInv DEF Rest
<1> QED
  BY <1>1, <1>2, <1>3, <1>4 DEF Next, Step

(* The invariant of the synchronous runtime: whatever an execution leaves   *)
(* in the plan, also one that an exit cut short, the next one starts from   *)
(* tasks that stand on completed ones.                                      *)
THEOREM RuntimeInvariant == Spec => []IInv
BY InitInv, NextInv, PTL DEF Spec

(* However often a plan is executed, no handler of it is called twice: a    *)
(* task that was called is no longer pending, and nothing makes it so.      *)
THEOREM HandlersRunOnceHolds == Spec => []HandlersRunOnce
<1>1. IInv => HandlersRunOnce
  BY DEF IInv, TypeOK, CallsInv, HandlersRunOnce
<1> QED
  BY <1>1, RuntimeInvariant, PTL

-----------------------------------------------------------------------------
(***************************************************************************)
(* The first execution implements DagRun.                                  *)
(***************************************************************************)

(* DagRun's graph operators, reached through the instance, are the same.    *)
LEMMA DagOperators ==
    /\ \A st : Dag!BlockedConsistent(Deps, st) <=> BlockedConsistent(Deps, st)
    /\ \A st : Dag!Done(st) <=> Done(st)
    /\ \A S, c : Dag!FinalStatus(S, c) = FinalStatus(S, c)
BY DEF Dag!BlockedConsistent, BlockedConsistent, Dag!Done, Done,
       Dag!FinalStatus, FinalStatus, Dag!TerminalStatus, TerminalStatus

LEMMA DagInit == Init => Dag!Init
BY DEF Init, Dag!Init

LEMMA DagLaunch ==
    ASSUME IInv, Execute, runs' <= 1
    PROVE  Dag!Next
<1>1. runs = 0
  BY DEF Execute, IInv, TypeOK
<1>2. pc = "idle" /\ \A t \in Tasks : status[t] = "PENDING"
  BY <1>1 DEF IInv, FirstInv
<1>3. status = [t \in Tasks |-> "PENDING"]
  BY <1>2 DEF IInv, TypeOK
<1>4. Dag!Launch
  BY <1>2, <1>3 DEF Dag!Launch, Execute
<1> QED
  BY <1>4 DEF Dag!Next

LEMMA DagStart ==
    ASSUME IInv, NEW t \in Tasks, CallHandler(t)
    PROVE  Dag!Next
<1>1. pc = "start" /\ t \in Ready(Deps, status)
  BY DEF CallHandler, NextInBatch, IInv, BatchInv
<1>2. Dag!Start(t)
  BY <1>1 DEF CallHandler, Dag!Start, Dag!Runnable, Ready
<1> QED
  BY <1>2 DEF Dag!Next

LEMMA DagComplete ==
    ASSUME IInv, NEW t \in Tasks, HandlerReturns(t)
    PROVE  Dag!Next
<1>1. pc = "handler" /\ status[t] = "RUNNING" /\ pc' \in {"test", "start"}
  BY CurrentFacts DEF HandlerReturns, AfterTask
<1>2. Dag!Complete(t)
  BY <1>1 DEF HandlerReturns, Dag!Complete
<1> QED
  BY <1>2 DEF Dag!Next

(* A failure is recorded and cascades in one step of the abstract run.      *)
LEMMA DagFails ==
    ASSUME IInv, NEW t \in Tasks, Settles(t, "FAILED")
    PROVE  Dag!Next
<1> DEFINE hit == {u \in Tasks \ {t} : status'[u] # status[u]}
<1>1. hit \in SUBSET {u \in Tasks : status[u] = "PENDING"}
  BY DEF Settles
<1>2. status' = [u \in Tasks |-> IF u = t THEN "FAILED"
                                 ELSE IF u \in hit THEN "BLOCKED" ELSE status[u]]
  BY DEF Settles
<1> HIDE DEF hit
<1>3. status[t] = "RUNNING" \/ Dag!Runnable(t)
  BY DEF Settles, Ready, Dag!Runnable
<1>4. /\ pc \in {"start", "handler"} /\ pc' \in {"test", "start"} /\ outcome' = outcome
      /\ BlockedConsistent(Deps, status')
  BY DEF Settles, AfterTask
<1>5. Dag!Fails(t)
  BY <1>1, <1>2, <1>3, <1>4, DagOperators DEF Dag!Fails
<1> QED
  BY <1>5 DEF Dag!Next

(* The loop of a first execution is left when every task has ended, and the *)
(* verdict is computed from results that say of a task what the plan says.  *)
LEMMA DagFinish ==
    ASSUME IInv, Fill, runs <= 1
    PROVE  Dag!Next
<1>1. /\ pc = "fill" /\ pc' = "ended" /\ status' = status
      /\ status \in [Tasks -> TaskStatus]
  BY DEF Fill, IInv, TypeOK
<1>2. \A t \in Tasks : status[t] \notin {"READY", "RUNNING", "CANCELLED"}
  BY <1>1 DEF IInv, StatusInv, FirstInv, Current
<1>3. Done(status)
  BY <1>1, <1>2, GraphAssumption, GraphOperators, Graph!QuiescentIsDone DEF IInv, StatusInv, FirstInv
<1>4. \A t \in Tasks : results'[t] = status[t]
  BY <1>1 DEF Fill, IInv, ResultsInv
<1>5. {results'[t] : t \in Tasks} = {status[t] : t \in Tasks}
  BY <1>4
<1>6. outcome' = FinalStatus({status[t] : t \in Tasks}, FALSE)
  BY <1>5 DEF Fill
<1>7. Dag!Finish
  BY <1>1, <1>2, <1>3, <1>6, DagOperators DEF Dag!Finish
<1> QED
  BY <1>7 DEF Dag!Next

LEMMA DagStep ==
    ASSUME IInv, [Next]_vars
    PROVE  [runs' <= 1 => Dag!Next \/ UNCHANGED Dag!vars]_vars
<1> SUFFICES ASSUME runs' <= 1
             PROVE  Dag!Next \/ UNCHANGED Dag!vars \/ UNCHANGED vars
  OBVIOUS
<1>1. CASE Execute
  BY <1>1, DagLaunch
<1>2. CASE LoopTest
  <2>1. pc = "test" /\ pc' \in {"fill", "start"} /\ UNCHANGED <<status, outcome>>
    BY <1>2 DEF LoopTest
  <2> QED
    BY <2>1 DEF Dag!vars
<1>3. CASE Fill
  BY <1>3, DagFinish DEF Fill
<1>4. ASSUME NEW t \in Tasks, NoHandler(t) \/ HandlerRaises(t)
      PROVE  Dag!Next
  BY <1>4, NoHandlerSettles, HandlerRaisesSettles, DagFails
<1>5. ASSUME NEW t \in Tasks, CallHandler(t) \/ HandlerReturns(t)
      PROVE  Dag!Next
  BY <1>5, DagStart, DagComplete
<1>6. ASSUME NEW t \in Tasks, HandlerExits(t)
      PROVE  Dag!Next
  <2>1. pc = "handler" /\ pc' = "lost" /\ UNCHANGED <<status, outcome>>
    BY <1>6 DEF HandlerExits, Current
  <2> QED
    BY <2>1 DEF Dag!Next, Dag!Abandon
<1>7. CASE Rest \/ UNCHANGED vars
  BY <1>7 DEF Rest
<1> QED
  BY <1>1, <1>2, <1>3, <1>4, <1>5, <1>6, <1>7 DEF Next, Step

(* The first execution of a plan treats it as DagRun promises, up to and    *)
(* including an exit that ends it early: the loop that works through ready  *)
(* lists leaves no task behind.                                             *)
THEOREM RuntimeImplementsDagRun == Spec => ImplementsDagRun
<1>1. IInv /\ [Next]_vars => [runs' <= 1 => Dag!Next \/ UNCHANGED Dag!vars]_vars
  BY DagStep
<1> QED
  BY <1>1, DagInit, RuntimeInvariant, PTL DEF Spec, ImplementsDagRun
=============================================================================
