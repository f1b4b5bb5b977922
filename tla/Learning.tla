------------------------------ MODULE Learning ------------------------------
(***************************************************************************)
(* The loop of `nexus do` (nexus.cli) and of the programs that call the    *)
(* same parts: plan, route, execute, verify, learn.  A process owns its    *)
(* security approvals, its policy engine and its registry, whose scores    *)
(* are modelled in Plugins.  The memory database is shared and outlives it.*)
(* Each step of Cog.learn is one write, which may raise, and the process   *)
(* may die between any two.  A write that raises leaves nothing, or (its   *)
(* commit raised) its row, which the next commit makes permanent; that a   *)
(* restart can lose such a row is left out.  What a run may come to is     *)
(* what DagRun says of a plan that is one chain: a completed prefix, then  *)
(* a failure or an early end.                                              *)
(***************************************************************************)
EXTENDS Planning, Policies

CONSTANTS
    Procs,             \* processes over one data directory
    Objectives,        \* what users ask for
    Caps,              \* registered capabilities, one version of each name
    TypeOf,            \* capability -> capability type
    Permissions,       \* capability -> permissions
    DeniedPerms,       \* SecurityPolicy.denied_permissions
    ApprovalPerms,     \* SecurityPolicy.approval_permissions
    ApprovalTypes,     \* SecurityPolicy.approval_types
    Leaky,             \* capabilities whose error text looks like a secret
    SkillThreshold, FailureThreshold,
    MaxEpisodes        \* bound: no run starts with that many episodes in memory

ASSUME LearningAssumption ==
    /\ TypeOf \in [Caps -> {"research", "browser", "code", "verify"}]
    /\ SkillThreshold \in Nat \ {0} /\ FailureThreshold \in Nat \ {0}
    /\ MaxEpisodes \in Nat

(* A text has finitely many clauses, and a clause finitely many goals.      *)
ASSUME ObjectivesAssumption ==
    \A objective \in Objectives :
        /\ IsList(objective.clauses)
        /\ \A i \in DOMAIN objective.clauses : IsList(objective.clauses[i].goals)

VARIABLES
    proc,     \* process -> what it holds; see NewProcess
    items,    \* memory: the memory_items table, in order of seq
    journal,  \* memory: policy_events, the last record of each version
    learned   \* history: the episodes whose learn ran to its end

vars == <<proc, items, journal, learned>>

NoRun == [done |-> 0, rest |-> "none", success |-> FALSE]

NewProcess ==
    [stage |-> "idle", plan |-> <<>>, run |-> NoRun,
     engine |-> NewEngine, refused |-> FALSE,    \* Cog.policies; a journal write has raised
     approved |-> {},                            \* SecurityGuard._approved
     item |-> 0]                                 \* the memory item in hand

Init ==
    /\ proc = [p \in Procs |-> NewProcess]
    /\ items = <<>> /\ journal = NoRecords /\ learned = {}

At(p, stage) == proc[p].stage = stage

(* A step of p; back at idle the plan, the run and the item are let go.     *)
NoWork == [plan |-> <<>>, run |-> NoRun, item |-> 0]
With(changed, r) == [f \in DOMAIN r |-> IF f \in DOMAIN changed THEN changed[f] ELSE r[f]]
Go(p, changed) ==
    proc' = [proc EXCEPT ![p] =
        IF "stage" \in DOMAIN changed /\ changed.stage = "idle"
        THEN With(changed, With(NoWork, @)) ELSE With(changed, @)]

-----------------------------------------------------------------------------
(* Memory. *)

Live(layer) == {i \in DOMAIN items : items[i].layer = layer /\ items[i].live}
LiveSkills(sig) == {i \in Live("PROCEDURAL") : items[i].sig = sig}

(* Fault: every episode of the signature counts. *)
Episodes(sig) == {i \in Live("EPISODIC") : items[i].sig = sig}

Successes(sig) == {i \in Live("EPISODIC") : items[i].sig = sig /\ items[i].success}
Failures(c) == {i \in Live("FAILURE") : items[i].cap = c}

(* promote; its evidence is verified, its policy id given, its layer right. *)
Promote(layer, sig, success, cap) ==
    items' = Append(items, [layer |-> layer, sig |-> sig, success |-> success,
                            cap |-> cap, live |-> TRUE])

(* Fault: deprecated items are kept as they were. *)
DeprecateLater(i) == UNCHANGED items

Deprecate(i) == items' = [items EXCEPT ![i].live = FALSE]

-----------------------------------------------------------------------------
(* Plan, route, execute, verify. *)

Plan(p) ==
    /\ At(p, "idle")
    /\ \E objective \in Objectives :
         LET intent == Parse(objective)
         IN  /\ Plannable(intent)
             /\ Go(p, [stage |-> "planned", plan |-> PlanOf(intent, Assess(intent)), run |-> NoRun])
    /\ UNCHANGED <<items, journal, learned>>

DeniedNow(e) == UNION {e.versions[v].payload : v \in ActiveOf(e)}

(* The command line routes by the default policy; other programs hand the   *)
(* router the active one (to_routing_policy).  Which eligible capability    *)
(* scores best, and which are unhealthy and leave a task unroutable, is     *)
(* left open.                                                               *)
Route(p) ==
    /\ At(p, "planned") /\ Cardinality(Live("EPISODIC")) < MaxEpisodes
    /\ \E denied \in {{}, DeniedNow(proc[p].engine)} :
         LET tasks == proc[p].plan
             eligible == [i \in DOMAIN tasks |-> {c \in Caps \ denied : TypeOf[c] = tasks[i].type}]
         IN  \/ Go(p, [stage |-> "idle"])
             \/ \E chosen \in [DOMAIN tasks -> Caps] :
                /\ \A i \in DOMAIN tasks : chosen[i] \in eligible[i]
                /\ Go(p, [stage |-> "routed",
                          plan |-> [i \in DOMAIN tasks |->
                                      [id |-> tasks[i].id, type |-> tasks[i].type,
                                       deps |-> tasks[i].deps, cap |-> chosen[i]]]])
    /\ UNCHANGED <<items, journal, learned>>

(* SecurityPolicy.decide and SecurityGuard.check. *)
Judgment(c) ==
    IF Permissions[c] \cap DeniedPerms # {} THEN "deny"
    ELSE IF Permissions[c] \cap ApprovalPerms # {} \/ TypeOf[c] \in ApprovalTypes
    THEN "require_approval"
    ELSE "allow"
Allowed(p, c) ==
    \/ Judgment(c) = "allow"
    \/ Judgment(c) = "require_approval" /\ c \in proc[p].approved

Approve(p, c) ==
    /\ At(p, "idle") /\ c \notin proc[p].approved /\ Judgment(c) # "allow"
    /\ Go(p, [approved |-> proc[p].approved \cup {c}])
    /\ UNCHANGED <<items, journal, learned>>

(* A prefix of the chain completes.  Then a task fails, and what is behind  *)
(* it is blocked; or the job is cancelled, or left with tasks pending.      *)
Execute(p) ==
    /\ At(p, "routed")
    /\ LET tasks == proc[p].plan
       IN  \E done \in 0 .. Len(tasks) :
             /\ \A i \in 1 .. done : Allowed(p, tasks[i].cap)
             /\ \E rest \in IF done = Len(tasks) THEN {"none"} ELSE {"FAILED", "unfinished"} :
                  Go(p, [stage |-> "executed",
                         run |-> [done |-> done, rest |-> rest, success |-> FALSE]])
    /\ UNCHANGED <<items, journal, learned>>

Finished(p) == proc[p].run.done = Len(proc[p].plan)
Failed(p) == proc[p].run.rest = "FAILED"
FailedCap(p) == proc[p].plan[proc[p].run.done + 1].cap

(* A run that has returned is terminal and has a result for every task, the *)
(* pending ones too; its trace is inconsistent when the bus also holds      *)
(* events of an earlier, interrupted run that had the same id.              *)
Verify(p) ==
    /\ At(p, "executed")
    /\ \/ \E checksPass \in BOOLEAN :
             Go(p, [stage |-> "learn",
                    run |-> [proc[p].run EXCEPT !.success = Finished(p) /\ checksPass]])
       \/ Go(p, [stage |-> "idle"])
    /\ UNCHANGED <<items, journal, learned>>

-----------------------------------------------------------------------------
(* Cog.learn, one write at a time. *)

Signature(p) == SignatureOf(proc[p].plan)
Succeeded(p) == proc[p].run.success
Ends(p) == learned' = learned \cup {proc[p].item}

Reflect(p) ==
    /\ At(p, "learn")
    /\ Promote("EPISODIC", Signature(p), Succeeded(p), {})
    /\ \E next \in {"failures", "idle"} : Go(p, [stage |-> next, item |-> Len(items) + 1])
    /\ UNCHANGED <<journal, learned>>

(* In a chain at most one task fails.                                       *)
RecordFailure(p) ==
    /\ At(p, "failures")
    /\ \/ /\ ~Failed(p)
          /\ Go(p, [stage |-> "skill"]) /\ UNCHANGED items
       \/ /\ Failed(p) /\ FailedCap(p) \notin Leaky
          /\ Promote("FAILURE", Signature(p), FALSE, FailedCap(p))
          /\ \E next \in {"skill", "idle"} : Go(p, [stage |-> next])
    /\ UNCHANGED <<journal, learned>>

(* Fault: the skill a signature has already does not matter. *)
EarnedAgain(sig) == Cardinality(Successes(sig)) >= SkillThreshold

Earned(sig) == LiveSkills(sig) = {} /\ Cardinality(Successes(sig)) >= SkillThreshold

(* What _maybe_promote_skill and _maybe_deprecate_skill read ...            *)
ReviewSkill(p) ==
    LET sig == Signature(p)
    IN  /\ At(p, "skill")
        /\ \/ /\ Succeeded(p) /\ Earned(sig)
              /\ Go(p, [stage |-> "promote"]) /\ UNCHANGED learned
           \/ /\ Succeeded(p) /\ ~Earned(sig)
              /\ Go(p, [stage |-> "learned"]) /\ Ends(p)
           \/ /\ ~Succeeded(p)
              /\ Go(p, [stage |-> IF LiveSkills(sig) = {} THEN "routing" ELSE "deprecate"])
              /\ UNCHANGED learned
        /\ UNCHANGED <<items, journal>>

(* ... and what they write. *)
PromoteSkill(p) ==
    /\ At(p, "promote")
    /\ Promote("PROCEDURAL", Signature(p), TRUE, {})
    /\ \/ Go(p, [stage |-> "learned"]) /\ Ends(p)
       \/ Go(p, [stage |-> "idle"]) /\ UNCHANGED learned
    /\ UNCHANGED journal

DeprecateSkill(p) ==
    /\ At(p, "deprecate")
    /\ \E s \in LiveSkills(Signature(p)) :
         (\A t \in LiveSkills(Signature(p)) : s <= t) /\ Deprecate(s)
    /\ \E next \in {"routing", "idle"} : Go(p, [stage |-> next])
    /\ UNCHANGED <<journal, learned>>

(* Fault: the revision names only the capability that failed last. *)
RevisionForgets(e, c) ==
    LET proposed == Propose(e, {c})
    IN  proposed \o Activate(proposed[1].engine, proposed[1].version)

(* propose and activate.                                                   *)
Revision(e, c) ==
    LET proposed == Propose(e, DeniedNow(e) \cup {c})
    IN  proposed \o Activate(proposed[1].engine, proposed[1].version)

(* Fault: the failure at hand, on record already, is counted again. *)
DueEarly(e, c) ==
    c \notin DeniedNow(e) /\ Cardinality(Failures(c)) + 1 >= FailureThreshold

Due(e, c) == c \notin DeniedNow(e) /\ Cardinality(Failures(c)) >= FailureThreshold

ReviseRouting(p) ==
    LET e == proc[p].engine
        effects == IF Failed(p) /\ Due(e, FailedCap(p)) THEN Revision(e, FailedCap(p)) ELSE <<>>
    IN  /\ At(p, "routing")
        /\ \E w \in 0 .. Len(effects) :
             /\ journal' = Record(journal, effects, w)
             /\ Go(p, [engine |-> Reached(e, effects, w),
                       refused |-> proc[p].refused \/ w < Len(effects),
                       stage |-> IF w < Len(effects) THEN "idle" ELSE "learned"])
             /\ IF w < Len(effects) THEN UNCHANGED learned ELSE Ends(p)
        /\ UNCHANGED items

(* A write raises before it changed anything, and learn with it: what was   *)
(* written before stays.                                                    *)
LearnRaises(p) ==
    /\ \/ proc[p].stage \in {"learn", "promote", "deprecate"}
       \/ At(p, "failures") /\ Failed(p)
    /\ Go(p, [stage |-> "idle"])
    /\ UNCHANGED <<items, journal, learned>>

-----------------------------------------------------------------------------
(* After learning, and the rest of the world. *)

Return(p) == At(p, "learned") /\ Go(p, [stage |-> "idle"]) /\ UNCHANGED <<items, journal, learned>>

(* The caller asks for a successor of the plan that did not complete.       *)
Retry(p) ==
    /\ At(p, "learned") /\ ~Finished(p)
    /\ LET completed == {proc[p].plan[i].id : i \in 1 .. proc[p].run.done}
       IN  Go(p, [stage |-> "planned", plan |-> Replan(proc[p].plan, completed), run |-> NoRun])
    /\ UNCHANGED <<items, journal, learned>>

RollBack(p) ==
    LET effects == Rollback(proc[p].engine)
    IN  /\ At(p, "idle") /\ CanRollback(proc[p].engine)
        /\ \E w \in 0 .. Len(effects) :
             /\ journal' = Record(journal, effects, w)
             /\ Go(p, [engine |-> Reached(proc[p].engine, effects, w),
                       refused |-> proc[p].refused \/ w < Len(effects)])
        /\ UNCHANGED <<items, learned>>

(* The process dies, or ends, and another one starts over the same data.    *)
Restart(p) ==
    /\ proc' = [proc EXCEPT ![p] = NewProcess]
    /\ UNCHANGED <<items, journal, learned>>

Next ==
    \E p \in Procs :
        \/ Plan(p) \/ Route(p) \/ Execute(p) \/ Verify(p)
        \/ \E c \in Caps : Approve(p, c)
        \/ Reflect(p) \/ RecordFailure(p) \/ ReviewSkill(p)
        \/ PromoteSkill(p) \/ DeprecateSkill(p) \/ ReviseRouting(p) \/ LearnRaises(p)
        \/ Return(p) \/ Retry(p) \/ RollBack(p) \/ Restart(p)

Spec == Init /\ [][Next]_vars

-----------------------------------------------------------------------------
(* Properties. *)

(* A skill rests on the threshold's number of successful episodes of its    *)
(* signature, all older than the skill, whatever failed, was retried, was   *)
(* raised or was cut short by a crash between two writes of learn           *)
(* (cog.py:181-197).                                                        *)
SkillEarned ==
    \A s \in DOMAIN items :
        items[s].layer = "PROCEDURAL" =>
            Cardinality({i \in 1 .. s - 1 : /\ items[i].layer = "EPISODIC" /\ items[i].success
                                           /\ items[i].sig = items[s].sig}) >= SkillThreshold

(* A signature has at most one live skill, also when it was deprecated and  *)
(* earned again (cog.py:182-188).                                           *)
OneSkillPerSignature ==
    \A s, t \in Live("PROCEDURAL") : items[s].sig = items[t].sig => s = t

(* Once learn has come to its end for a failed run, no skill of its         *)
(* signature that is older than the run is live, in this or in any later    *)
(* process (cog.py:114, 222-234).                                           *)
SkillFalls ==
    \A i \in learned :
        ~items[i].success => \A s \in LiveSkills(items[i].sig) : s > i

(* Whatever an active routing policy denies has failed, in runs that were   *)
(* verified and are on record, at least as often as the threshold: through  *)
(* rollbacks, restarts and writes that raise (cog.py:243-262).              *)
DenialEarned ==
    \A p \in Procs : \A c \in DeniedNow(proc[p].engine) :
        Cardinality(Failures(c)) >= FailureThreshold

(* A revision adds to what is denied: as long as no write to the journal    *)
(* raised, only a rollback or the end of the process takes a denial back    *)
(* (cog.py:246, 258).                                                       *)
NoDenialForgotten ==
    [][\A p \in Procs :
          \/ DeniedNow(proc[p].engine) \subseteq DeniedNow(proc'[p].engine)
          \/ proc'[p].refused \/ RollBack(p) \/ Restart(p)]_vars

(* Every plan, and every successor of one that stopped anywhere, is one     *)
(* chain that ends in the verifying task: a task waits for the task before  *)
(* it, for nothing behind it, and for nothing that is already done          *)
(* (planner.py:68-149, 153-197).                                            *)
PlansAreChains ==
    \A p \in Procs :
        LET plan == proc[p].plan
        IN  IsChain(plan) /\ (plan # <<>> => Last(plan).type = "verify")

=============================================================================
