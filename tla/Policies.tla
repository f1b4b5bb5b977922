------------------------------ MODULE Policies ------------------------------
(***************************************************************************)
(* nexus.cog.PolicyEngine, for one kind of policy: kinds share nothing but *)
(* the journal, where each keeps its own records.  An operation is a list  *)
(* of effects, one for each record it writes: the engine as it is when the *)
(* record is written, and the version the record is about.  The journal is *)
(* a table of the memory database, so a write may raise (a locked file),   *)
(* and the rest of the operation is then not done.  Of the journal, the    *)
(* model keeps what replaying it comes to: the last record of each version.*)
(***************************************************************************)
EXTENDS Integers, Sequences, SequencesExt

NoRecords == [v \in {} |-> {}]

(* A new engine: _versions and _activation_stack are not read back.         *)
NewEngine == [versions |-> <<>>, stack |-> <<>>]

ActiveOf(e) == {v \in DOMAIN e.versions : e.versions[v].status = "ACTIVE"}

Mark(e, v, status) == [e EXCEPT !.versions[v].status = status]
Push(e, v) == [e EXCEPT !.stack = Append(@, v)]
Pop(e) == [e EXCEPT !.stack = Front(@)]
Effect(e, v) == [engine |-> e, version |-> v]

-----------------------------------------------------------------------------
(* The operations, as lists of effects. *)

Propose(e, payload) ==
    LET version == [payload |-> payload, status |-> "PROPOSED"]
    IN  << Effect([e EXCEPT !.versions = Append(@, version)], Len(e.versions) + 1) >>

(* The version that is active, if there is one, is deprecated.              *)
Supersede(e) ==
    IF ActiveOf(e) = {} THEN <<>>
    ELSE LET current == CHOOSE v \in ActiveOf(e) : TRUE
         IN  << Effect(Mark(e, current, "DEPRECATED"), current) >>

(* Fault: a version that is active again keeps its old place on the stack. *)
ActivateOnce(e, v) ==
    LET on == Mark(IF ActiveOf(e) = {} THEN e ELSE Supersede(e)[1].engine, v, "ACTIVE")
    IN  IF v \in ActiveOf(e) THEN <<>>
        ELSE Supersede(e)
             \o << Effect(IF v \in ToSet(e.stack) THEN on ELSE Push(on, v), v) >>

Activate(e, v) ==
    LET off == IF ActiveOf(e) = {} THEN e ELSE Supersede(e)[1].engine
    IN  IF v \in ActiveOf(e) THEN <<>>
        ELSE Supersede(e) \o << Effect(Push(Mark(off, v, "ACTIVE"), v), v) >>

CanRollback(e) == Len(e.stack) >= 2

(* Fault: the version given up is not recorded. *)
RollbackSilently(e) ==
    LET off == Mark(Pop(e), Last(e.stack), "DEPRECATED")
    IN  << Effect(Mark(off, Last(off.stack), "ACTIVE"), Last(off.stack)) >>

Rollback(e) ==
    LET off == Mark(Pop(e), Last(e.stack), "DEPRECATED")
    IN  << Effect(off, Last(e.stack)),
           Effect(Mark(off, Last(off.stack), "ACTIVE"), Last(off.stack)) >>

(* activate_if_improved, when the experiment shows no improvement.          *)
RejectTrial(e, v) == << Effect(e, v) >>

-----------------------------------------------------------------------------
(* What an operation comes to when its first w records are written; with    *)
(* fewer than it has, the next write raised after the change in memory.     *)

Reached(e, effects, w) ==
    IF effects = <<>> THEN e
    ELSE effects[IF w < Len(effects) THEN w + 1 ELSE w].engine

Record(j, effects, w) ==
    [v \in DOMAIN j \cup {effects[i].version : i \in 1 .. w} |->
        IF \E i \in 1 .. w : effects[i].version = v
        THEN LET last == CHOOSE i \in 1 .. w :
                            /\ effects[i].version = v
                            /\ \A k \in i + 1 .. w : effects[k].version # v
             IN  effects[last].engine.versions[v]
        ELSE j[v]]
=============================================================================
