----------------------------- MODULE TaskGraph -----------------------------
(***************************************************************************)
(* The pure part of nexus.kernel.scheduler: the statuses of a task, the    *)
(* ready set of a dependency graph, the cascade that blocks the dependents *)
(* of a failed task, the acyclicity test of a submission, and the status a *)
(* run ends with.                                                          *)
(*                                                                         *)
(* A graph is a function deps from task ids to the set of ids a task       *)
(* depends on; st is the function from ids to statuses.  Every operator is *)
(* written without recursion so that proofs can use it; Scheduler has the  *)
(* depth-first search and Kahn's algorithm as the code runs them, and      *)
(* SchedulerProofs shows that they come to the same.                       *)
(***************************************************************************)
EXTENDS Integers, FiniteSets

TaskStatus == {"PENDING", "READY", "RUNNING", "COMPLETED", "FAILED",
               "BLOCKED", "CANCELLED"}

TerminalStatus == {"COMPLETED", "FAILED", "BLOCKED", "CANCELLED"}

RunStatus == {"RUNNING", "COMPLETED", "FAILED", "PARTIAL", "CANCELLED"}

(* Fault: one completed dependency is enough. *)
ReadyAfterOne(deps, st) ==
    {t \in DOMAIN st : /\ st[t] = "PENDING"
                       /\ deps[t] = {} \/ \E d \in deps[t] : st[d] = "COMPLETED"}

(* Fault: whatever has not ended may be started again. *)
ReadyAgain(deps, st) ==
    {t \in DOMAIN st : /\ st[t] \notin TerminalStatus
                       /\ \A d \in deps[t] : st[d] = "COMPLETED"}

(***************************************************************************)
(* Scheduler.ready: pending tasks whose dependencies have all completed.   *)
(***************************************************************************)
Ready(deps, st) ==
    {t \in DOMAIN st : /\ st[t] = "PENDING"
                       /\ \A d \in deps[t] : st[d] = "COMPLETED"}

(***************************************************************************)
(* Scheduler.done.                                                         *)
(***************************************************************************)
Done(st) == \A t \in DOMAIN st : st[t] \in TerminalStatus

(* Fault: only a task that depends on itself is a cycle. *)
AcyclicIfNoLoop(deps) == \A t \in DOMAIN deps : t \notin deps[t]

(***************************************************************************)
(* Scheduler._check_acyclic.  Kahn's algorithm gets stuck exactly when a   *)
(* non-empty set of tasks is left in which every task waits for another    *)
(* one of the set.                                                         *)
(***************************************************************************)
Acyclic(deps) ==
    \A S \in SUBSET DOMAIN deps :
        S # {} => \E t \in S : deps[t] \cap S = {}

(***************************************************************************)
(* Scheduler._block_dependents: the search walks from the failed task t to *)
(* dependents that are not terminal, and no further than a terminal one.   *)
(* What it visits is the least set that contains the live dependents of t  *)
(* and, with each task, the live dependents of that task.                  *)
(***************************************************************************)
ClosedUnderBlocking(deps, st, t, S) ==
    \A c \in DOMAIN st :
        (/\ st[c] \notin TerminalStatus
         /\ \E p \in deps[c] : p = t \/ p \in S)
        => c \in S

(* Fault: the cascade stops at the direct dependents. *)
BlockedDirectly(deps, st, t) ==
    {c \in DOMAIN st : st[c] \notin TerminalStatus /\ t \in deps[c]}

(* Fault: the cascade passes through tasks that had already ended. *)
BlockedThroughEnded(deps, st, t) ==
    {c \in DOMAIN st :
        /\ st[c] \notin TerminalStatus
        /\ \A S \in SUBSET DOMAIN st :
              (\A u \in DOMAIN st : (\E p \in deps[u] : p = t \/ p \in S) => u \in S)
              => c \in S}

Blocked(deps, st, t) ==
    {c \in DOMAIN st : \A S \in SUBSET DOMAIN st :
                           ClosedUnderBlocking(deps, st, t, S) => c \in S}

(* Fault: no cascade. *)
FailAlone(deps, st, t) == [st EXCEPT ![t] = "FAILED"]

(***************************************************************************)
(* Scheduler.fail: the task is FAILED first, then its dependents BLOCKED.  *)
(***************************************************************************)
Fail(deps, st, t) ==
    LET failed == [st EXCEPT ![t] = "FAILED"]
        hit    == Blocked(deps, failed, t)
    IN  [c \in DOMAIN st |-> IF c \in hit THEN "BLOCKED" ELSE failed[c]]

(***************************************************************************)
(* Scheduler.cancel applied to every task that is not terminal.            *)
(***************************************************************************)
CancelRest(st) ==
    [t \in DOMAIN st |-> IF st[t] \in TerminalStatus THEN st[t] ELSE "CANCELLED"]

(***************************************************************************)
(* Executor._final_status and Runtime._run_status over the set of statuses *)
(* found in the run's task results.                                        *)
(***************************************************************************)
FinalStatus(statuses, cancelled) ==
    CASE cancelled -> "CANCELLED"
      [] ~cancelled /\ statuses \subseteq {"COMPLETED"} -> "COMPLETED"
      [] ~cancelled /\ ~(statuses \subseteq {"COMPLETED"})
            /\ "COMPLETED" \in statuses -> "PARTIAL"
      [] OTHER -> "FAILED"

(***************************************************************************)
(* The local shape of a correct cascade: a task is BLOCKED exactly when    *)
(* one of its own dependencies is FAILED or BLOCKED.                       *)
(***************************************************************************)
BlockedConsistent(deps, st) ==
    \A t \in DOMAIN st :
        st[t] = "BLOCKED" <=> \E d \in deps[t] : st[d] \in {"FAILED", "BLOCKED"}
=============================================================================
