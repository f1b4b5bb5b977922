---------------------------- MODULE PolicyEngine ----------------------------
(***************************************************************************)
(* One PolicyEngine after another over one journal: proposals, activations *)
(* of new and of old versions, rejected trials and rollbacks in any order, *)
(* journal writes that raise, and processes that end.                      *)
(***************************************************************************)
EXTENDS Policies

CONSTANTS
    Payloads,     \* what a policy says
    MaxVersions,  \* bound: proposals of one process
    MaxStack      \* bound: activations that are not rolled back

ASSUME PolicyAssumption == MaxVersions \in Nat /\ MaxStack \in Nat

VARIABLES
    engine,   \* PolicyEngine._versions, _activation_stack
    journal,  \* memory: policy_events, the last record of each version
    refused   \* history: a journal write of this engine has raised

vars == <<engine, journal, refused>>

Init == engine = NewEngine /\ journal = NoRecords /\ refused = FALSE

Perform(effects) ==
    \E w \in 0 .. Len(effects) :
        /\ engine' = Reached(engine, effects, w)
        /\ journal' = Record(journal, effects, w)
        /\ refused' = (refused \/ w < Len(effects))

ProposeOne ==
    /\ Len(engine.versions) < MaxVersions
    /\ \E payload \in Payloads : Perform(Propose(engine, payload))

ActivateOne ==
    /\ Len(engine.stack) < MaxStack
    /\ \E v \in DOMAIN engine.versions : Perform(Activate(engine, v))

RejectOne == \E v \in DOMAIN engine.versions : Perform(RejectTrial(engine, v))

RollBack == CanRollback(engine) /\ Perform(Rollback(engine))

(* A new process over the same database.                                    *)
Restart == engine' = NewEngine /\ refused' = FALSE /\ UNCHANGED journal

Next == ProposeOne \/ ActivateOne \/ RejectOne \/ RollBack \/ Restart

Spec == Init /\ [][Next]_vars

-----------------------------------------------------------------------------
(* Properties. *)

(* However activations, activations of an older version, rollbacks and      *)
(* writes that raise follow each other, no version is active but the one on *)
(* top of the activation stack, which a rollback gives up; and until a      *)
(* write raises that one is (policy.py:80-86, 93-102).                      *)
OneActive ==
    LET top == IF engine.stack = <<>> THEN {} ELSE {Last(engine.stack)}
    IN  ActiveOf(engine) \subseteq top /\ (refused \/ ActiveOf(engine) = top)

(* The journal can be replayed (policy.py:5-6): until a write raises, what  *)
(* it says last about a version of this engine is that version as it        *)
(* stands, also over what an earlier process left under the same numbers.   *)
JournalReplays ==
    refused \/ \A v \in DOMAIN engine.versions :
                   v \in DOMAIN journal /\ journal[v] = engine.versions[v]

(* Giving up what was just activated brings back what was active before: an *)
(* activation followed by a rollback, neither cut short, leaves the same    *)
(* version active (policy.py:90-104), whatever happened earlier.            *)
RollbackUndoes ==
    \A v \in DOMAIN engine.versions :
        LET on == Activate(engine, v)
            up == Reached(engine, on, Len(on))
            back == Rollback(up)
        IN  on # <<>> /\ ActiveOf(engine) # {}
            => ActiveOf(Reached(up, back, Len(back))) = ActiveOf(engine)

-----------------------------------------------------------------------------
(* Types. *)

Version == [payload : Payloads, status : {"PROPOSED", "ACTIVE", "DEPRECATED"}]

(* The stack names versions that exist. *)
EngineOK(e) ==
    /\ e \in [versions : Seq(Version), stack : Seq(Nat \ {0})]
    /\ \A i \in DOMAIN e.stack : e.stack[i] \in DOMAIN e.versions

(* Types of the engine and of the journal (policy.py:51-60, store.py:126).  *)
TypeOK ==
    /\ EngineOK(engine)
    /\ DOMAIN journal \subseteq Nat \ {0}
    /\ \A v \in DOMAIN journal : journal[v] \in Version
    /\ refused \in BOOLEAN
=============================================================================
