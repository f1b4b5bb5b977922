# A formal model of NEXUS

TLA+ modules, TLC configurations and TLAPS proofs about the program under
`src/nexus`: a cognitive runtime that turns objectives into plans, routes and
executes the tasks of a plan, verifies what happened and learns from it.

## 1. The system

| Component | Code (`src/nexus/`) | State | Operations |
|---|---|---|---|
| Scheduler | `kernel/scheduler.py` | task table, submission order, reverse edges; `Task.status` | `submit`, `ready`, `start`, `complete`, `fail`, `cancel`, `done` |
| Executor | `executor/executor.py` | per run: scheduler, run record, in-flight futures, `Job` flags; per plan: checkpoint | `execute`, `submit`, `resume`; `Job.pause/unpause/cancel/wait` |
| Runtime | `kernel/runtime.py` | running flag, handler table, run counter | `start`, `stop`, `register_handler`, `unregister_handler`, `resolve_handler`, `execute` |
| State manager | `kernel/state.py` | namespace -> key -> value | `set`, `get`, `delete`, `clear_namespace`, `snapshot`, `restore` |
| Sessions | `kernel/sessions.py` | sessions, active or ended | `create`, `end` |
| Event bus | `kernel/events.py` | subscriptions, log, sequence number | `subscribe`, `publish` |
| Registry | `capabilities/registry.py` | records by (name, version): status, health, scores | `register`, `retire`, `get`, `find`, `check_health`, `record_outcome` |
| Plugin manager | `plugins/manager.py` | plugin records | `install`, `update`, `disable`, `enable`, `remove` |
| Router | `router/router.py` | decisions | `route`, `route_plan` |
| Security | `security/policy.py` | approvals | `decide`, `approve`, `check` |
| Planner | `planner/planner.py` | - | `plan`, `replan` |
| Memory | `memory/store.py` | SQLite tables: items, working memory, policy journal, routing decisions | `promote`, `deprecate`, `read`, `write_working`, ... |
| Cog | `cog/*.py` | policy versions, activation stacks | `learn`; `propose`, `activate`, `rollback` |
| Verification | `verify/engine.py` | checks, evidence counter | `verify` |
| Science | `science/*.py` | theories | `propose`, `observe`, `promote` |
| Sandbox | `sandbox/sandbox.py` | child process, pipe | `run_sandboxed` |
| the rest | `intent`, `thinking`, `economics`, `experiments`, `pyexec`, `browser`, `research`, `models`, `bench`, `cli` | none, or external | text, statistics, external services |

How they interact: a caller hands a plan to the executor, which copies its tasks
into a scheduler of its own, asks the security guard, looks handlers up in the
runtime, and runs them in a thread pool; handlers write working memory into the
session's namespace of the state manager; after each settled task the executor
writes a checkpoint, keyed by plan, into the same state manager. Callers hold
the `Job` and may pause, unpause and cancel from other threads; anyone may end
the session or stop the runtime meanwhile. Everything is reported on the event
bus. Verification turns the run record into evidence; Cog promotes evidence into
memory, moves capability scores in the registry and revises the routing policy;
plugins add and withdraw capabilities and handlers.

What is hard here: the dispatcher reads flags other threads write, at several
places of one loop iteration; a ready list is computed once and worked through
while it changes; failures, retries and cancels overlap; checkpoints combine
state of three owners and are what a later run starts from; several multi-step
updates (plugin wiring, learning) can fail half-way; the durable part (SQLite)
survives restarts and the rest does not. `PROJECT.json` lists each hazard at its
line with the properties that watch it.

What makes each component correct, in short. Scheduler: only tasks behind
completed ones are ready, failures block exactly what is behind them, the cycle
test is right. Executor: the promises of section 3. Runtime: the same for the
synchronous path. Registry and plugins: what is recorded as installed is wired,
and nothing else is. Router: only eligible capabilities are chosen. Event bus: each
event reaches its audience once and in order. Cog: one active policy, journal and
engine agree, skills and denials rest on what is on record. Memory: only verified
evidence enters. Planner: a plan and its successors are chains. Science: status
follows the evidence. Sandbox: the parent always gets a verdict.

## 2. Modules

| Module | Models |
|---|---|
| `TaskGraph` | the pure part of execution: statuses, ready set, blocking cascade, cycle test, final status |
| `DagRun` | abstract specification: what running a plan promises |
| `Scheduler`, `MCScheduler` | the `Scheduler` class driven through its API; its two graph algorithms as the loops they are |
| `Executor`, `MCExecutor` | `Executor._run` with its workers, its `Job`, the session and the checkpoint |
| `KernelRuntime`, `MCKernelRuntime` | `Runtime.execute`, repeated on one `Plan` object |
| `Plugins`, `MCPlugins` | the plugin manager over the capability registry, the handler table and the router |
| `Planning` | pure: objective to intent, thinking budget, plan, successor plan |
| `Policies` | pure: the operations of `PolicyEngine` as lists of journal records |
| `PolicyEngine` | policy engines, one process after another, over one journal |
| `Learning`, `MCLearning` | the loop of `nexus do`: plan, route, execute, verify, learn, over the memory database; composes `Planning` and `Policies` |
| `EventBus`, `MCEventBus` | `EventBus` under several threads, with handlers that call it again |
| `Sandbox` | `run_sandboxed`: parents, children, pipes, signals |
| `SchedulerProofs` | the theorems of `Scheduler`, and the lemmas about failure and blocking that both executors' proofs cite |
| `ExecutorProofs`, `KernelRuntimeProofs`, `PluginsProofs`, `PolicyEngineProofs`, `LearningProofs`, `EventBusProofs`, `SandboxProofs` | the theorems of the module each is named after |

`TaskGraph` has no recursion: the cascade `_block_dependents` is a least fixed point
in `TaskGraph!Blocked`, and the cycle test is "no non-empty set of tasks each
waiting for another of the set". `Scheduler` has both algorithms as the code runs
them, with their queue, stack and counters, as functions of the number of turns
taken (`KahnTurn`, `Look`). TLC compares the two forms on every reachable state,
and `SchedulerProofs` proves them equal on every finite graph.

`Executor` has three kinds of process. The *dispatcher* is the thread in
`_run`. The scheduler, the run record and the in-flight table are local to it,
so its code is cut into steps exactly where it reads something another thread
writes: `pc` is `loop` (line 201: `job.cancelled`), `scan` (202: `job.paused`),
`batch` (one task of the ready list at a time: handler table and guard), `check`
(205-206: `job.paused` again), `wait` (210: futures), `settle` (one future at a
time, `job.cancelled` read for each), `drain` and `flush` (217-224), `sweep`
(226), `close` (231-243). `dying` is the way out when something raises in the
dispatcher: the pool's `__exit__` still joins the workers. `workers` take the
head of the pool's queue, run a handler that writes working memory at some point,
and return, raise, or raise what is not an `Exception`. *Callers* launch runs and
use the `Job`, end the session, stop and start the runtime. `wm` is the set of
tasks whose writes are in the session's namespace, and a checkpoint is the set
of completed tasks with the set of tasks whose writes the snapshot holds.

Results keep their status and attempt count. Payloads, outputs, events and times
are left out. `calls` counts the handler invocations of the run and is a history
variable only the properties read. A new launch starts when the previous one has
ended: two concurrent runs of one plan are not modelled.

`KernelRuntime` differs from `Executor` in what the code makes different: one
thread, no retries, no cancel, and task statuses that live in the plan.

`Plugins` cuts a call of the plugin manager at every call it makes on the
registry and the handler table, because the executor looks handlers up from
other threads: `op.todo` is the list of what is left of `_unwire` (`retire` and
`drop`, capability by capability) and `_wire` (all `register`, then all `bind`),
and `Finish` is the record that ends the call. A `register` that raises ends the
call where it is. Everything that raises before changing anything is a guard. The
manager's caller, the host, the router and the learning pipeline are one thread,
so they act between calls. A handler is the package it was loaded from; a score
is the list of verified outcomes behind it, and which eligible candidate scores
best is left open.

`Planning` abstracts text to what the rules tell apart: a goal is the keyword
groups it hits, whether it is short or looks trivial and the constraints inside
it; a clause is how it starts and what it splits into. The order of the rules is
kept. A task is known by its place in the original plan, so that successors of
successors can be compared with it.

`Policies` gives each operation of `PolicyEngine` as the list of what it writes:
for each journal record the engine as it is in memory at that moment. `Reached`
and `Record` say what an operation comes to when its first `w` records are
written and the next raises, or all of them are. `PolicyEngine` drives one kind of
policy through every order of operations; `Restart` is a new engine over the old
journal, as `AppContext` makes it. The journal is kept as what replaying it comes
to, the last record of each version.

`Learning` is one action per part of `_cmd_do` (`Plan`, `Route`, `Execute`,
`Verify`) and one per write of `Cog.learn`: `Reflect`, `RecordFailure`,
`ReviewSkill` with `PromoteSkill` or `DeprecateSkill`, `ReviseRouting`. What a run
may come to is what `DagRun` promises of a plan that is one chain: a completed
prefix, then a failure, or an early end. After any write, `learn` may go no further:
its commit raised, or the publication after it, or the process died (`Restart`). A
process holds the plan and the run in hand, its approvals and its policy engine;
`items` and `journal` are the database. `Retry` is the caller that asks the
planner for a successor and goes round again; `RollBack` is a person who takes a
routing policy back. Programs other than the command line hand the router the
active policy (`to_routing_policy`), so routing may or may not respect denials. The
version of a capability is left out (one of each), and so are scores, which
`Plugins` has.

`EventBus` is a stack of publish calls per thread; a thread with a stack holds the
re-entrant lock. `Deliver` starts the next handler, which returns, raises, calls
the bus again from inside, or raises what `except Exception` lets through
(`HandlerExits`): that leaves every publish its thread is in, since no subscriber
in the way catches it, and gives the lock back. The order of a subscription is read in `CallSubscribe`,
before the lock is taken in `EnterSubscribe`, as in the code. `got`, `after`, `cut` and
the `within` and `due` of a log entry are history.

`Sandbox` follows each call through `run_sandboxed` and each child through
`_child`. `writers` says which processes hold the write end of which pipe: a child
inherits its own and those of calls that are between opening the pipe and closing
the end. A message fits into the pipe or does not; one that does not stays in part
until somebody reads.

Definitions marked `Fault:` are one-line variants of the definition that follows
them, each with a mistake that could have been made there; they are not part of
any specification. They show that every property notices some mistake.

## 3. What is checked

| Run | Bounds | Shows |
|---|---|---|
| `ExecutorSafety` | 4 tasks (`Kite`), 2 workers, 2 attempts, 2 launches, one refused task, one whose handler disappears, pauses | `DependencyOrder`, `NoSchedulerError`, `BlockedIffBehindFailure`, `CheckpointHasMemory`, `CancelBoundsDispatch`, types |
| `ExecutorResume` | 3 tasks (`Join`), 3 launches, one session end or runtime stop, an output that cannot be copied, a handler that exits | `ReplayedNotReexecuted`, `CheckpointCurrent`, `CheckpointDownClosed`, `NoTaskLeftBehind`, `ImplementsDagRun` |
| `ExecutorLiveness` | 3 tasks, 1 worker, pauses, exits, a runtime that stops | `RunEnds`, `CancelEndsRun` |
| `Scheduler` | every graph over 4 ids in up to 2 batches, symmetric ids | `NeverStuck`, `CascadeIsDepthFirst`, `CycleTestIsKahn` |
| `KernelRuntime` | 5 tasks (`Lattice`), 3 executions of one plan | `HandlersRunOnce`, `ImplementsDagRun` |
| `Plugins` | 2 plugins in 2 versions, 5 capability ids, 2 tasks, 1 superseded version per history, 1 outcome per registration | `OneOwner`, `HandlersCurrent`, `HandlerBehindActive`, `InstalledIsWired`, `RoutedCanRun`, `HostUntouched` |
| `PolicyEngine` | 2 payloads, 3 versions per process, stack of 4 | `OneActive`, `JournalReplays`, `RollbackUndoes` |
| `Learning` | 1 process at a time, 3 objectives, 3 capabilities, thresholds of 2, 4 episodes | `SkillEarned`, `OneSkillPerSignature`, `SkillFalls`, `DenialEarned`, `NoDenialForgotten`, `PlansAreChains` |
| `EventBus` | 2 threads, 3 subscribers, 1 topic and the reports, 2 ordinary events | `DeliveredOnce`, `LaterFirstOnlyWithin`, `EarlierServedFirst`, `EveryCallReturns` |
| `Sandbox` | 2 calls | `VerdictIsTrue`, `EveryCallReturns`, `NoChildOutlives` |

Why the bounds are enough for the cases of interest. `Kite` has two concurrent
branches, a join that can be blocked from either side, and a cascade of depth
two. Two workers give every interleaving of two handlers; one worker makes
work wait in the queue while a cancel drains it. Two attempts give a
retry and its refusal; three launches give a resume of a resumed run; one
session end gives every moment at which it can happen. In `MCPlugins` both plugins
claim one name, one update keeps an id the host may take first, the other asks
for an id the registry refuses, so a wiring can fail at its first and at its
second capability, on install, update and enable. In `PolicyEngine` the stack is
deeper than the list of versions, so a version can be on it twice. In `MCLearning`
two of the objectives come to one plan in different ways (one of them repeats its
goal, asks and limits), so their episodes share a signature; the third has a context
to gather first, by a capability that needs approval; four episodes are two that earn a
skill or a denial, one that takes the skill back and one more; thresholds of 2
stand for the default 3 because what matters is one short of it and it. In
`MCEventBus` one subscriber publishes and unsubscribes, one raises on reports as
well, one subscribes the next or exits; two events and their reports nest three deep. Two
calls of `Sandbox` are enough for one child to hold the other's pipe. Counters are
bounded by `MaxRuns`, `MaxEnds`, `MaxHistory`, `MaxOutcomes`, `MaxVersions`,
`MaxStack`, `MaxEpisodes` and `MaxEvents`, the only bounds that are not in the
code. `CHECK_DEADLOCK FALSE` stands where users may stop calling, or a bound is
reached and nothing is left to do.

Fairness. `ExecutorLiveness` assumes weak fairness of the dispatcher, of the
pool and of each handler (they are operating-system threads, and handlers are
assumed to terminate: the code has no time-out for them). Callers owe nothing, so
a run may stay paused for ever, and `RunEnds` says so. `EventBus` assumes weak
fairness of each thread inside a call, the handlers it runs included; an `RLock`
is not fair between threads, but a thread inside `publish` always comes out, and
the bound on events means nobody overtakes for ever. `Sandbox`
assumes it of the calling thread, whose waits have limits, and of the delivery of
`SIGKILL`; it expects nothing of a child, which may run for ever, ignore `SIGTERM`
or be killed by the system.

`ImplementsDagRun` is refinement: `phase` is derived from the program counter,
`status` is the scheduler's, `verdict` is `Run.status`. `Boot` maps to `Replay`,
`DispatchRefused` and `SettleFailure` to `Fails`, `Sweep` to `CancelTheRest`,
`Close` to `Finish`, a lost dispatcher to `Abandon`; other steps stutter. It holds
when nobody pauses (see the first finding below). For `KernelRuntime` it
holds for the first execution of a plan.

### Where the code does not do what is said of it

| Run | What happens |
|---|---|
| `ExecutorPauseRace` | `job.paused` is read twice in one iteration. An unpause between the reads makes the loop leave "done, or blocked by failed ancestors" with runnable tasks still pending. |
| `SandboxLargeResult` | the parent waits for the child before it reads the pipe: a child that is done, but whose result is larger than the pipe buffer, is killed at the wall-clock limit as if it overran. |

Met on the way, without a run of their own.

* Executor: a cancel does not stop the ready list that is being dispatched
  (`CancelBoundsDispatch` says how much still goes out: that list, and no retry).
  Ending the session during a run empties the namespace the next
  checkpoint snapshots. An output that cannot be deep-copied kills the dispatcher,
  and `wait` returns no run. A worker still running when its session is ended
  brings the released namespace back (`state.py:27`). `BLOCKED` and `CANCELLED`
  transitions emit no event, although `docs/volume-2-modules/executor.md` says
  every transition does.
* Runtime: executing a completed plan again reports `COMPLETED` and calls no
  handler. Scheduler: a task submitted behind one that has already failed stays
  pending for ever (`NeverStuck` names the case).
* Plugins: a wiring the registry rejects half-way leaves the earlier
  capabilities active without plugin and handler. Updating a disabled plugin
  enables it, and retires an id that the host has taken meanwhile
  (`manager.py:96`, the exception in `HostUntouched`); after a failed update a
  plugin is recorded as installed with nothing wired (`torn`).
* Policies: after a journal write raises inside `activate` or `rollback` no version
  may be active, and the next denial starts from an empty set. The first
  activation cannot be rolled back (`policy.py:94`), although
  `docs/volume-2-modules/cog.md:51-52` calls a bad policy one call from gone.
* Learning: a restart forgets scores and the active routing policy
  (`cog.md:60-61` says learning survives restarts); the command line never hands
  the policy to the router. Two processes over one data directory can each promote a skill
  of one signature, and a failure then deprecates only the first. A task that
  needs approval fails at once and is learned as a failure of the capability. A
  run that was cancelled deprecates a skill although no task failed. Calling
  `learn` again after it raised counts the run twice. Error text that looks
  like a secret makes `learn` raise after the episode was stored. Run ids start
  again in each process, so provenance repeats; within one bus, a run that was
  cut short can make the trace of the next with its id inconsistent. A commit that
  raises leaves its row in the open transaction, and the next write commits it.
* Planning: `ThinkingBudget.gather_context` never changes the plan, because it is
  true exactly when there are references. Science: the same evidence counts as
  several replications (`theory.py:90`).
* Event bus: a subscriber unsubscribed during a delivery is still called by it.
  A subscriber that raises what is not an `Exception` ends the delivery for those
  behind it, and the deliveries around it (`events.py:84`).
  A subscriber of `bus.error` that publishes a topic whose subscriber raises
  recurses until the stack ends. A subscriber that waits for another thread's
  `publish` waits for ever.
* Sandbox: a message of which only a part arrived makes `recv` raise `OSError`,
  which nothing catches. `SIGKILL` by the system is reported as `cpu`, and
  `sys.exit(0)` in the function as a crash.

## 4. What is proved

Of the properties the runs check, every safety property is a theorem, for
every value of the constants: any plan, any number of tasks, workers, threads,
packages, processes or calls. (`TypeOK` of `Executor` is one of them; the runs that
are expected to fail are not.) What is left to TLC is liveness.

| Module | Theorems that state a checked property | from |
|---|---|---|
| `SchedulerProofs` | `SchedulerNeverStuck`, `SchedulerCascade`, `SchedulerCycleTest` | `GraphInv` |
| `ExecutorProofs` | `TypeCorrect`, `DependencyOrderHolds`, `NoSchedulerErrorHolds`, `BlockedIffBehindFailureHolds`, `CheckpointDownClosedHolds` | `IInv` |
| | `ReplayedNotReexecutedHolds`; `CheckpointCurrentHolds`; `CheckpointHasMemoryHolds` (while `ends = 0`); `CancelBoundsDispatchHolds` | `ReplayInv`; itself; `MemoryInv`; `AttemptInv` |
| | `NoTaskLeftBehindHolds`, `ExecutorImplementsDagRun` (if `~AllowPause`) | `NoPauseInv` |
| `KernelRuntimeProofs` | `HandlersRunOnceHolds`, `RuntimeImplementsDagRun` | `IInv` |
| `PluginsProofs` | `OneOwnerHolds`, `HandlersCurrentHolds` | `IInv` |
| | `HandlerBehindActiveHolds`, `InstalledIsWiredHolds`, `HostUntouchedHolds`, `RoutedCanRunHolds` | `WiringInv` |
| `PolicyEngineProofs` | `OneActiveHolds`, `JournalReplaysHolds`, `RollbackUndoesHolds` | `IInv` |
| `LearningProofs` | `SkillEarnedHolds`, `DenialEarnedHolds`, `NoDenialForgottenHolds` | `IInv` |
| | `OneSkillPerSignatureHolds`, `SkillFallsHolds` (if `Single`) | `AloneInv` |
| | `PlansAreChainsHolds` | `PlanInv` |
| `EventBusProofs` | `LaterFirstOnlyWithinHolds`; `DeliveredOnceHolds`; `EarlierServedFirstHolds` | `StackInv`; `ServeInv`; `OrderInv` |
| `SandboxProofs` | `VerdictIsTrueHolds` | `CallInv` |

The assumptions on constants are the `ASSUME`s of the modules: a plan is an acyclic,
closed graph and a list (`GraphAssumption`, what `Scheduler.submit` enforces and what
a `Plan` is), the ids given to a scheduler are finitely many (`IdsAssumption`: it is
given finite lists), a text has finitely many clauses and a clause finitely many
goals (`ObjectivesAssumption`), bounds and thresholds are positive, packages are what
`PluginPackage.validate` lets through, patterns match topics. Five theorems have a
hypothesis besides: `CheckpointHasMemory` fails when a session
is ended under a running plan, `NoTaskLeftBehind` and `ImplementsDagRun` when somebody
pauses (`ExecutorPauseRace`), and `OneSkillPerSignature` and with it `SkillFalls` when
two processes share a data directory (TLC finds the two live skills with a second
element in `Procs`). The runs that check these properties are set up the same way.

How the arguments go:

**Scheduler.** `GraphInv` says that the table is a closed acyclic graph and, until a
task is cancelled or submitted behind one that has failed (`late`), that what started
stands on completed tasks and blocked is what is behind a failure. The two
exceptions are those of `NeverStuck`. Two theorems are about any finite graph, whoever
uses it: the loop of `_check_acyclic` takes out every task if and only if the graph has no cycle
(`KahnAcceptsAcyclic`), and the search of `_block_dependents` blocks exactly what is
pending and behind (`BlockDependentsIsFail`). A loop is a recursive function,
so its existence is shown first (`LoopExists`). No induction theorem of the library
can be instantiated, so what holds at every turn is shown by
a least turn at which it would not (`LeastNumber`); the cascade ends because every
turn looks at an edge not looked at before. The proofs of `Executor` and
`KernelRuntime` cite these lemmas for their own plan (`Graph` is an instance of
the module, `GraphOperators` says that its operators are theirs).

**Executor.** `IInv` adds to the properties: no task is `READY`, and
`CANCELLED` appears only behind the sweep (`StatusInv`); what is left of a ready
list is ready (`BatchInv`); the pool's queue has no duplicates and holds only
futures that have not started (`QueueInv`); the futures held are those of the
running tasks, the ones to settle have settled, and none is left at the sweep
(`FutureInv`); a result is recorded for exactly the tasks that completed or
failed (`ResultsInv`); a booting run is blank (`BootInv`). The crux is
`FailEffect` in `SchedulerProofs`: in an acyclic graph whose started tasks stand
on completed ones, failing a running task changes pending tasks only, and keeps
"blocked iff behind a failure". It rests on `BlockedIsClosed` and
`BlockedHasReason`, which characterise the least fixed point without induction.
`MemoryInv` follows what a handler wrote from its future to the namespace to the
snapshot. `NoTaskLeftBehind` rests on `QuiescentIsDone`: in an acyclic graph where nothing
runs and nothing is ready, nothing is pending; `NoPauseInv` says at which
positions of the dispatcher nothing is ready any more, and pausing is what breaks it. The
refinement has one lemma for each step that is not a stutter, as listed in section 3.

**Runtime.** A task's status outlives the execution in the plan, so the invariant is over
what any earlier execution left, also one that an exit cut short: `CallsInv` says
that what was called is no longer pending, and `FirstInv` what holds in the first
execution only, which is the one that refines `DagRun`.

**Plugins.** `OneOwner` needs that what a call checked when it began still
holds when it ends (`CallInv`). `HandlersCurrent` needs the order of the steps
(`TodoInv`: withdraw, register, bind) and, in `HandlersInv`, that a handler to be
withdrawn is still on the list, and that one already bound means no registration
is left that could raise. `WiringInv` says how far a call has come: each record
is retired right before its handler is dropped (`PairsInv`), what is not on the list any more is done (`ProgressInv`,
`WithdrawInv`), an installed plugin that no call is at work on is wired unless torn
(`WiredInv`), and an active capability without a handler was left behind by a
failed wiring or is being wired (`BareInv`).

**Policies.** The invariant is `TypeOK` (the stack names versions that exist) with
the properties. The lemmas go the way the code does: what marking, pushing and
popping do to the engine; which one or two records an activation and a rollback
write (`ActivateForm`); what none, one or both of them come to (`OneEffect`,
`TwoEffects`); and that every engine on the way has at most its top active
(`ActivateEffects`, `RollbackEffects`). That a version may be on the stack at
two neighbouring places does not matter: the later record of one version counts.

**Learning.** `IInv` is about any number of processes over one database. Memory only
grows, but for a skill that is deprecated (`Kept`), so the evidence a process has
counted cannot shrink (`EvidenceGrows`) and may be written later (`StillEarned`); the item in
hand is the episode of the run (`InHand`); every version of a policy, active or not, denies
only what has failed often enough (`Grounded`), which is why a rollback needs no
evidence of its own. `RevisionSays` and `RollbackSays` say what an engine
denies at each point where a journal write may raise. `AloneInv` adds what a
process has read of the skills of its signature; it is stable only while nobody
else writes, hence `Single`. None of this depends on how text becomes a plan.
`PlansAreChains` does: `PlanInv` adds that the plan in hand is `Sound` (a list of
tasks with different ids, each waiting for the one before it, the last one a
verification), and that the run in hand completed a prefix of it. The folds
that collect goals are shown to be lists (`Flattened`, `FirstOnlyList`), planning gives a
sound plan (`PlanOfSound`), routing keeps it (`RoutedSound`), and what a
successor leaves out is a prefix of a chain, so that what it keeps is a
slice of it (`LeftIsSlice`, `ReplanSound`).

**Event bus.** First the lock: at most one thread is inside, and what is on its stack
nests (`StackInv`). `ServeInv` relates each event to what is left of its audience on
some frame: what has been delivered is the rest. An exit leaves these frames where they are, so
what it cuts short was delivered to the first of its audience. `AudienceListed` proves that the
sort has a result at all, by a greatest element of a finite linear order; there
the order is the given one and then the place in the list, since `_sub_order` is
read outside the lock and two subscribers can get the same.

**Sandbox.** A message in the pipe is what came of the function, the verdict is
what was read (`CallInv`). `PipesHeldByTheLiving` says who can keep `recv` waiting: only
a live child, or a parent that has not closed its end yet.

The inductive invariants are stated in the proof modules. Those of `EventBusProofs`
and `SandboxProofs` are proved only; the others were first checked by TLC on
the instance of a run. What stays with TLC is liveness (`RunEnds`,
`CancelEndsRun`, the `EveryCallReturns` of `EventBus` and of `Sandbox`, `NoChildOutlives`):
fairness is about `ENABLED`, which is outside the prover.

## 5. Plan

What comes next: two concurrent runs of one plan over one state manager, and the
theory ledger of `science`.

## 6. Not modelled

`experiments` and `economics` are floating-point computations, which neither tool
reaches; the verdict of an experiment is a choice in `PolicyEngine`. `models`,
`browser`, `research` are clients of external programs and documents; `pyexec`
evaluates an arithmetic expression. `bench` measures the rest. Of the parts that
are modelled, these are left out: working memory, search and the routing log of
the memory database (written or read, never both, by the loop); scores, rewards and
confidence, which are real numbers; the text handling before clauses; formatting
and printing. The `science` package is called by nothing in the loop; its ledger
is in the plan.
