------------------------------ MODULE Planning ------------------------------
(***************************************************************************)
(* The pure front half of the loop: objective -> intent (nexus.intent) ->  *)
(* budget (nexus.thinking) -> plan (nexus.planner), and the successor plan *)
(* of a run that failed.  Text is abstracted to what the rules tell apart: *)
(*   goal      [words, short, trivial, limits]: the keyword groups it hits,*)
(*             at most four words long, a trivial-looking one, and the     *)
(*             constraints embedded in it;                                 *)
(*   clause    [ask, head, text, goals, soThat]: ends with "?", how it     *)
(*             starts, itself, what it splits into at "and then", and the  *)
(*             outcome behind "so that" (none: {});                        *)
(*   objective [clauses, refs].                                            *)
(* A task is known by its place in the original plan: 0 gathers context,   *)
(* 1 .. n are the goals, n + 1 verifies.                                   *)
(***************************************************************************)
EXTENDS Integers, Sequences, SequencesExt, FiniteSets

(* A list, whatever is in it.                                               *)
IsList(s) == Len(s) \in Nat /\ s = [i \in 1 .. Len(s) |-> s[i]]

-----------------------------------------------------------------------------
(* Intent. *)

FirstOnly(s) ==
    FoldLeft(LAMBDA seen, x : IF x \in ToSet(seen) THEN seen ELSE Append(seen, x), <<>>, s)

(* The rules in order: question, "so that", constraint, outcome, goals.     *)
IsQuestion(c) == c.ask
IsGoals(c) == ~c.ask /\ c.head = "goals"
GoalsIn(clauses) ==
    FlattenSeq([i \in DOMAIN clauses |-> IF IsGoals(clauses[i]) THEN clauses[i].goals ELSE <<>>])

Parse(objective) ==
    LET clauses == ToSet(objective.clauses)
        goals == FirstOnly(GoalsIn(objective.clauses))
        asked == {c.text : c \in {d \in clauses : IsQuestion(d)}}
    IN  [goals |-> goals,
         constraints |-> {c.text : c \in {d \in clauses : ~d.ask /\ d.head = "constraint"}}
                         \cup UNION {g.limits : g \in ToSet(goals)},
         outcomes |-> {c.text : c \in {d \in clauses : ~d.ask /\ d.head = "outcome"}}
                      \cup UNION {c.soThat : c \in {d \in clauses : ~d.ask}},
         questions |-> IF goals = <<>> /\ asked = {} THEN {"clarification needed"} ELSE asked,
         refs |-> objective.refs]

-----------------------------------------------------------------------------
(* Thinking budget. *)

LooksLikeResearch(intent) ==
    \/ intent.refs # {}
    \/ Cardinality(intent.questions) >= 2
    \/ \E g \in ToSet(intent.goals) : g.words \cap {"research", "literature"} # {}

IsReflex(intent) ==
    /\ Len(intent.goals) = 1
    /\ intent.constraints = {} /\ intent.questions = {} /\ intent.refs = {}
    /\ intent.goals[1].trivial \/ intent.goals[1].short

Assess(intent) ==
    IF LooksLikeResearch(intent)
    THEN [mode |-> "RESEARCH", gather |-> intent.refs # {}]
    ELSE IF IsReflex(intent)
    THEN [mode |-> "REFLEX", gather |-> FALSE]
    ELSE [mode |-> "DELIBERATIVE", gather |-> intent.refs # {}]

-----------------------------------------------------------------------------
(* Plan. *)

(* The type rules in order; what no rule knows is code.                     *)
Classify(goal) ==
    IF "verify" \in goal.words THEN "verify"
    ELSE IF "browser" \in goal.words THEN "browser"
    ELSE IF "research" \in goal.words THEN "research"
    ELSE "code"

(* An intent without goals raises PlannerError. *)
Plannable(intent) == intent.goals # <<>>

(* Fault: the verifying task waits for the last goal that needs context. *)
PlanVerifiesFirst(intent, budget) ==
    LET n == Len(intent.goals)
        first == IF intent.refs # {} /\ budget.gather THEN {0} ELSE {}
    IN  (IF first = {} THEN <<>> ELSE << [id |-> 0, type |-> "research", deps |-> {}] >>)
        \o [i \in 1 .. n |->
              [id |-> i, type |-> Classify(intent.goals[i]), deps |-> IF i = 1 THEN first ELSE {i - 1}]]
        \o << [id |-> n + 1, type |-> "verify", deps |-> 1 .. n - 1] >>

PlanOf(intent, budget) ==
    LET n == Len(intent.goals)
        first == IF intent.refs # {} /\ budget.gather THEN {0} ELSE {}
    IN  (IF first = {} THEN <<>> ELSE << [id |-> 0, type |-> "research", deps |-> {}] >>)
        \o [i \in 1 .. n |->
              [id |-> i, type |-> Classify(intent.goals[i]), deps |-> IF i = 1 THEN first ELSE {i - 1}]]
        \o << [id |-> n + 1, type |-> "verify", deps |-> 1 .. n] >>

(* The successor: what is completed goes, and so do the waits for it.       *)
LeftOf(plan, completed) ==
    LET left[i \in 0 .. Len(plan)] ==
            IF i = 0 THEN <<>>
            ELSE IF plan[i].id \in completed THEN left[i - 1] ELSE Append(left[i - 1], plan[i])
    IN  left[Len(plan)]

Replan(plan, completed) ==
    LET kept == LeftOf(plan, completed)
    IN  [i \in DOMAIN kept |-> [kept[i] EXCEPT !.deps = @ \ completed]]

IdsOf(plan) == {plan[i].id : i \in DOMAIN plan}
SignatureOf(plan) == [i \in DOMAIN plan |-> plan[i].type]

(* Every task waits for the one before it, and for nothing later.           *)
IsChain(plan) ==
    \A i \in DOMAIN plan :
        /\ plan[i].deps \subseteq {plan[j].id : j \in 1 .. i - 1}
        /\ i > 1 => plan[i - 1].id \in plan[i].deps
=============================================================================
