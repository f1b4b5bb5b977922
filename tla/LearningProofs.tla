--------------------------- MODULE LearningProofs ---------------------------
(***************************************************************************)
(* Proofs about Learning, for every set of processes, capabilities and     *)
(* objectives and all thresholds.  First what the memory keeps when an     *)
(* item is appended or deprecated, then what an engine keeps through a     *)
(* revision and a rollback, then the steps of a process, and last what     *)
(* planning and replanning make of its plan.                               *)
(***************************************************************************)
EXTENDS Learning, SequenceTheorems, FiniteSetTheorems, WellFoundedInduction, TLAPS

-----------------------------------------------------------------------------
(* The inductive invariant.  What text became of a plan does not matter to  *)
(* it, so plans, payloads and signatures are not typed.                     *)

(* The stages of learn after the episode is stored. *)
Stored == {"failures", "skill", "promote", "deprecate", "routing", "learned"}
Stages == {"idle", "planned", "routed", "executed", "learn"} \cup Stored

IsEngine(e) ==
    /\ DOMAIN e = {"versions", "stack"} /\ IsList(e.versions)
    /\ \A v \in DOMAIN e.versions : DOMAIN e.versions[v] = {"payload", "status"}

ShapeInv ==
    /\ DOMAIN proc = Procs /\ proc = [p \in Procs |-> proc[p]]
    /\ \A p \in Procs :
          /\ DOMAIN proc[p] = {"stage", "plan", "run", "engine", "refused", "approved", "item"}
          /\ proc[p].stage \in Stages /\ DOMAIN proc[p].run = {"done", "rest", "success"}
          /\ IsEngine(proc[p].engine)
    /\ IsList(items)
    /\ \A i \in DOMAIN items :
          /\ DOMAIN items[i] = {"layer", "sig", "success", "cap", "live"}
          /\ items[i].layer \in {"EPISODIC", "FAILURE", "PROCEDURAL"}
          /\ items[i].live \in BOOLEAN
          /\ ~items[i].live => items[i].layer = "PROCEDURAL"

(* The item in hand is the episode of the run. *)
InHand(p) ==
    proc[p].stage \in Stored =>
        /\ proc[p].item \in DOMAIN items /\ items[proc[p].item].layer = "EPISODIC"
        /\ items[proc[p].item].sig = Signature(p)
        /\ items[proc[p].item].success = proc[p].run.success

(* What was read before the skill is written still holds. *)
StillEarned(p) ==
    At(p, "promote") => Cardinality(Successes(Signature(p))) >= SkillThreshold

(* Every version denies what has failed often enough, active or not. *)
Grounded(p) ==
    \A v \in DOMAIN proc[p].engine.versions : \A c \in proc[p].engine.versions[v].payload :
        Cardinality(Failures(c)) >= FailureThreshold

IInv ==
    /\ ShapeInv /\ SkillEarned
    /\ \A p \in Procs : InHand(p) /\ StillEarned(p) /\ Grounded(p)

(* With one process over a data directory also this, with what it has read  *)
(* of the skills of its signature.                                          *)
AloneInv ==
    /\ OneSkillPerSignature /\ SkillFalls
    /\ learned \subseteq DOMAIN items
    /\ \A p \in Procs :
          /\ At(p, "promote") => Succeeded(p) /\ LiveSkills(Signature(p)) = {}
          /\ At(p, "deprecate") => ~Succeeded(p)
          /\ At(p, "routing") => ~Succeeded(p) /\ LiveSkills(Signature(p)) = {}

Fields == {"stage", "plan", "run", "engine", "refused", "approved", "item"}

-----------------------------------------------------------------------------
(* Lists. *)

LEMMA ListTyped ==
    ASSUME NEW s, IsList(s)
    PROVE  \E S : s \in Seq(S) /\ DOMAIN s = 1 .. Len(s) /\ Len(s) \in Nat
<1> DEFINE S == {s[i] : i \in 1 .. Len(s)}
<1>1. s \in [1 .. Len(s) -> S]
  BY DEF IsList
<1>2. s \in Seq(S)
  BY <1>1 DEF IsList
<1> QED
  BY <1>1, <1>2 DEF IsList

LEMMA ListAppend ==
    ASSUME NEW s, IsList(s), NEW x
    PROVE  /\ IsList(Append(s, x)) /\ Len(Append(s, x)) = Len(s) + 1
           /\ DOMAIN Append(s, x) = 1 .. Len(s) + 1 /\ DOMAIN s = 1 .. Len(s)
           /\ \A i \in 1 .. Len(s) : Append(s, x)[i] = s[i]
           /\ Append(s, x)[Len(s) + 1] = x
<1>1. PICK S : s \in Seq(S) /\ DOMAIN s = 1 .. Len(s) /\ Len(s) \in Nat
  BY ListTyped
<1> DEFINE T == S \cup {x}
<1>2. s \in Seq(T) /\ x \in T
  BY <1>1
<1>3. Append(s, x) \in Seq(T)
  BY <1>2
<1>4. /\ Len(Append(s, x)) = Len(s) + 1
      /\ \A i \in 1 .. Len(s) : Append(s, x)[i] = s[i]
      /\ Append(s, x)[Len(s) + 1] = x
  BY <1>2
<1> DEFINE a == Append(s, x)
<1> HIDE DEF a, T
<1>5. a \in Seq(T) => IsList(a) /\ DOMAIN a = 1 .. Len(a)
  BY DEF IsList
<1> QED
  BY <1>1, <1>3, <1>4, <1>5 DEF a

LEMMA ListExcept ==
    ASSUME NEW s, IsList(s), NEW v, NEW x
    PROVE  /\ IsList([s EXCEPT ![v] = x]) /\ Len([s EXCEPT ![v] = x]) = Len(s)
           /\ DOMAIN [s EXCEPT ![v] = x] = DOMAIN s
<1>1. DOMAIN s = 1 .. Len(s) /\ Len(s) \in Nat
  BY ListTyped
<1> DEFINE t == [s EXCEPT ![v] = x]
<1>2. DOMAIN t = 1 .. Len(s)
  BY <1>1
<1>3. t = [i \in 1 .. Len(s) |-> t[i]]
  BY <1>1
<1> HIDE DEF t
<1>4. t \in [1 .. Len(s) -> {t[i] : i \in 1 .. Len(s)}]
  BY <1>3
<1>5. Len(t) = Len(s)
  <2>1. t \in Seq({t[i] : i \in 1 .. Len(s)})
    BY <1>1, <1>4
  <2> QED
    BY <1>1, <1>2, <2>1
<1> QED
  BY <1>1, <1>2, <1>3, <1>5 DEF IsList, t

-----------------------------------------------------------------------------
(* Memory. *)

(* What any step does to the items: none goes, none changes but that a      *)
(* skill may be deprecated, and at most one is added.                       *)
Kept ==
    /\ Len(items') \in {Len(items), Len(items) + 1}
    /\ \A i \in 1 .. Len(items) :
          /\ items'[i].layer = items[i].layer /\ items'[i].sig = items[i].sig
          /\ items'[i].success = items[i].success /\ items'[i].cap = items[i].cap
          /\ items'[i].live = items[i].live \/ items[i].layer = "PROCEDURAL"

ItemsOK == IsList(items) /\ \A i \in DOMAIN items :
    /\ DOMAIN items[i] = {"layer", "sig", "success", "cap", "live"}
    /\ items[i].layer \in {"EPISODIC", "FAILURE", "PROCEDURAL"}
    /\ items[i].live \in BOOLEAN
    /\ ~items[i].live => items[i].layer = "PROCEDURAL"

LEMMA ItemsDomain == ItemsOK => DOMAIN items = 1 .. Len(items) /\ Len(items) \in Nat
BY ListTyped DEF ItemsOK

LEMMA PromoteKeeps ==
    ASSUME ItemsOK, NEW layer \in {"EPISODIC", "FAILURE", "PROCEDURAL"}, NEW sig, NEW success,
           NEW cap, Promote(layer, sig, success, cap)
    PROVE  /\ Kept /\ ItemsOK' /\ Len(items') = Len(items) + 1
           /\ \A i \in 1 .. Len(items) : items'[i] = items[i]
           /\ items'[Len(items) + 1] = [layer |-> layer, sig |-> sig, success |-> success,
                                        cap |-> cap, live |-> TRUE]
<1> DEFINE new == [layer |-> layer, sig |-> sig, success |-> success, cap |-> cap, live |-> TRUE]
<1>1. items' = Append(items, new)
  BY DEF Promote
<1>2. /\ DOMAIN new = {"layer", "sig", "success", "cap", "live"}
      /\ new.layer = layer /\ new.live = TRUE
  OBVIOUS
<1>3. Len(items) \in Nat /\ DOMAIN items = 1 .. Len(items)
  BY ItemsDomain
<1> HIDE DEF new
<1>4. /\ IsList(items') /\ Len(items') = Len(items) + 1
      /\ DOMAIN items' = 1 .. Len(items) + 1
      /\ \A i \in 1 .. Len(items) : items'[i] = items[i]
      /\ items'[Len(items) + 1] = new
  BY <1>1, ListAppend DEF ItemsOK
<1>5. Kept
  BY <1>4 DEF Kept
<1>6. ItemsOK'
  <2> SUFFICES ASSUME NEW i \in 1 .. Len(items) + 1
               PROVE  /\ DOMAIN items'[i] = {"layer", "sig", "success", "cap", "live"}
                      /\ items'[i].layer \in {"EPISODIC", "FAILURE", "PROCEDURAL"}
                      /\ items'[i].live \in BOOLEAN
                      /\ ~items'[i].live => items'[i].layer = "PROCEDURAL"
    BY <1>4 DEF ItemsOK
  <2>1. CASE i \in 1 .. Len(items)
    BY <2>1, <1>3, <1>4 DEF ItemsOK
  <2>2. CASE i = Len(items) + 1
    BY <2>2, <1>2, <1>4
  <2> QED
    BY <2>1, <2>2, <1>3
<1> QED
  BY <1>4, <1>5, <1>6 DEF new

LEMMA DeprecateKeeps ==
    ASSUME ItemsOK, NEW s \in DOMAIN items, items[s].layer = "PROCEDURAL", Deprecate(s)
    PROVE  /\ Kept /\ ItemsOK' /\ Len(items') = Len(items)
           /\ \A i \in DOMAIN items \ {s} : items'[i] = items[i]
           /\ ~items'[s].live
<1>1. items' = [items EXCEPT ![s] = [items[s] EXCEPT !.live = FALSE]]
  BY DEF Deprecate
<1>2. /\ DOMAIN [items[s] EXCEPT !.live = FALSE] = DOMAIN items[s]
      /\ [items[s] EXCEPT !.live = FALSE].live = FALSE
      /\ [items[s] EXCEPT !.live = FALSE].layer = items[s].layer
      /\ [items[s] EXCEPT !.live = FALSE].sig = items[s].sig
      /\ [items[s] EXCEPT !.live = FALSE].success = items[s].success
      /\ [items[s] EXCEPT !.live = FALSE].cap = items[s].cap
  BY DEF ItemsOK
<1>3. Len(items) \in Nat /\ DOMAIN items = 1 .. Len(items)
  BY ItemsDomain
<1>4. IsList(items') /\ Len(items') = Len(items) /\ DOMAIN items' = DOMAIN items
  BY <1>1, ListExcept DEF ItemsOK
<1>5. /\ items'[s] = [items[s] EXCEPT !.live = FALSE]
      /\ \A i \in DOMAIN items \ {s} : items'[i] = items[i]
  BY <1>1
<1>6. Kept
  BY <1>2, <1>3, <1>4, <1>5 DEF Kept
<1>7. ItemsOK'
  <2> SUFFICES ASSUME NEW i \in DOMAIN items
               PROVE  /\ DOMAIN items'[i] = {"layer", "sig", "success", "cap", "live"}
                      /\ items'[i].layer \in {"EPISODIC", "FAILURE", "PROCEDURAL"}
                      /\ items'[i].live \in BOOLEAN
                      /\ ~items'[i].live => items'[i].layer = "PROCEDURAL"
    BY <1>4 DEF ItemsOK
  <2>1. CASE i = s
    BY <2>1, <1>2, <1>5 DEF ItemsOK
  <2>2. CASE i # s
    BY <2>2, <1>5 DEF ItemsOK
  <2> QED
    BY <2>1, <2>2
<1> QED
  BY <1>2, <1>4, <1>5, <1>6, <1>7

LEMMA UnchangedKeeps ==
    ASSUME ItemsOK, UNCHANGED items
    PROVE  Kept /\ ItemsOK'
BY DEF Kept, ItemsOK

(* An item that is there stays there, and an episode stays what it is.      *)
LEMMA ItemsKept ==
    ASSUME ItemsOK, Kept, ItemsOK'
    PROVE  \A i \in DOMAIN items :
              /\ i \in DOMAIN items'
              /\ items'[i].layer = items[i].layer /\ items'[i].sig = items[i].sig
              /\ items'[i].success = items[i].success /\ items'[i].cap = items[i].cap
              /\ items[i].layer # "PROCEDURAL" => items'[i].live = items[i].live
<1>1. /\ DOMAIN items = 1 .. Len(items) /\ Len(items) \in Nat
      /\ DOMAIN items' = 1 .. Len(items') /\ Len(items') \in Nat
  BY ListTyped DEF ItemsOK
<1> SUFFICES ASSUME NEW i \in DOMAIN items
             PROVE  /\ i \in DOMAIN items'
                    /\ items'[i].layer = items[i].layer /\ items'[i].sig = items[i].sig
                    /\ items'[i].success = items[i].success /\ items'[i].cap = items[i].cap
                    /\ items[i].layer # "PROCEDURAL" => items'[i].live = items[i].live
  OBVIOUS
<1>2. i \in 1 .. Len(items) /\ i \in 1 .. Len(items')
  <2>1. Len(items') = Len(items) \/ Len(items') = Len(items) + 1
    BY DEF Kept
  <2>2. i \in Int /\ 1 <= i /\ i <= Len(items)
    BY <1>1
  <2>3. Len(items) \in Nat /\ Len(items') \in Nat
    BY <1>1
  <2> DEFINE m == Len(items)
             n == Len(items')
  <2>4. m \in Nat /\ n \in Nat /\ (n = m \/ n = m + 1) /\ i \in Int /\ 1 <= i /\ i <= m
    BY <2>1, <2>2, <2>3
  <2> HIDE DEF m, n
  <2>5. i \in 1 .. m /\ i \in 1 .. n
    BY <2>4
  <2> QED
    BY <2>5 DEF m, n
<1>3. \/ items'[i].live = items[i].live
      \/ items[i].layer = "PROCEDURAL"
  BY <1>2 DEF Kept
<1>4. /\ items'[i].layer = items[i].layer /\ items'[i].sig = items[i].sig
      /\ items'[i].success = items[i].success /\ items'[i].cap = items[i].cap
  BY <1>2 DEF Kept
<1>5. i \in DOMAIN items'
  BY <1>2, <1>1
<1> QED
  BY <1>3, <1>4, <1>5

(* Evidence is never lost. *)
LEMMA EvidenceGrows ==
    ASSUME ItemsOK, Kept, ItemsOK'
    PROVE  /\ \A sig : /\ Successes(sig) \subseteq Successes(sig)'
                       /\ Cardinality(Successes(sig)) \in Nat
                       /\ Cardinality(Successes(sig)') \in Nat
                       /\ Cardinality(Successes(sig)) <= Cardinality(Successes(sig)')
           /\ \A c : /\ Failures(c) \subseteq Failures(c)'
                     /\ Cardinality(Failures(c)) \in Nat
                     /\ Cardinality(Failures(c)') \in Nat
                     /\ Cardinality(Failures(c)) <= Cardinality(Failures(c)')
<1>1. /\ DOMAIN items = 1 .. Len(items) /\ Len(items) \in Nat
      /\ DOMAIN items' = 1 .. Len(items') /\ Len(items') \in Nat
  BY ListTyped DEF ItemsOK
<1>2. IsFiniteSet(DOMAIN items')
  BY <1>1, FS_Interval
<1>3. ASSUME NEW S \in SUBSET DOMAIN items', NEW T \in SUBSET S
      PROVE  Cardinality(T) \in Nat /\ Cardinality(S) \in Nat /\ Cardinality(T) <= Cardinality(S)
  <2>1. IsFiniteSet(S)
    BY <1>2, FS_Subset
  <2> QED
    BY <2>1, FS_Subset, FS_CardinalityType
<1>4. \A i \in DOMAIN items :
         /\ i \in DOMAIN items'
         /\ items'[i].layer = items[i].layer /\ items'[i].sig = items[i].sig
         /\ items'[i].success = items[i].success /\ items'[i].cap = items[i].cap
         /\ items[i].layer # "PROCEDURAL" => items'[i].live = items[i].live
  BY ItemsKept
<1>5. ASSUME NEW sig
      PROVE  Successes(sig) \subseteq Successes(sig)' /\ Successes(sig)' \subseteq DOMAIN items'
  BY <1>4 DEF Successes, Live
<1>6. ASSUME NEW c
      PROVE  Failures(c) \subseteq Failures(c)' /\ Failures(c)' \subseteq DOMAIN items'
  BY <1>4 DEF Failures, Live
<1>7. ASSUME NEW sig
      PROVE  /\ Cardinality(Successes(sig)) \in Nat /\ Cardinality(Successes(sig)') \in Nat
             /\ Cardinality(Successes(sig)) <= Cardinality(Successes(sig)')
  <2> DEFINE T == Successes(sig)
             S == Successes(sig)'
  <2>1. S \in SUBSET DOMAIN items' /\ T \in SUBSET S
    BY <1>5
  <2> HIDE DEF T, S
  <2>2. Cardinality(T) \in Nat /\ Cardinality(S) \in Nat /\ Cardinality(T) <= Cardinality(S)
    BY <1>3, <2>1
  <2> QED
    BY <2>2 DEF T, S
<1>8. ASSUME NEW c
      PROVE  /\ Cardinality(Failures(c)) \in Nat /\ Cardinality(Failures(c)') \in Nat
             /\ Cardinality(Failures(c)) <= Cardinality(Failures(c)')
  <2> DEFINE T == Failures(c)
             S == Failures(c)'
  <2>1. S \in SUBSET DOMAIN items' /\ T \in SUBSET S
    BY <1>6
  <2> HIDE DEF T, S
  <2>2. Cardinality(T) \in Nat /\ Cardinality(S) \in Nat /\ Cardinality(T) <= Cardinality(S)
    BY <1>3, <2>1
  <2> QED
    BY <2>2 DEF T, S
<1> QED
  BY <1>5, <1>6, <1>7, <1>8

(* What SkillEarned counts for a skill s. *)
Evidence(s) == {i \in 1 .. s - 1 : /\ items[i].layer = "EPISODIC" /\ items[i].success
                                   /\ items[i].sig = items[s].sig}

(* A skill keeps its evidence, and a new one has what its signature has     *)
(* earned by then.                                                          *)
LEMMA SkillsStand ==
    ASSUME ItemsOK, Kept, ItemsOK', SkillEarned,
           Len(items') = Len(items) + 1 /\ items'[Len(items) + 1].layer = "PROCEDURAL" =>
              Cardinality(Successes(items'[Len(items) + 1].sig)) >= SkillThreshold
    PROVE  SkillEarned'
<1>1. /\ DOMAIN items = 1 .. Len(items) /\ Len(items) \in Nat
      /\ DOMAIN items' = 1 .. Len(items') /\ Len(items') \in Nat
  BY ListTyped DEF ItemsOK
<1>2. \A s \in DOMAIN items : items[s].layer = "PROCEDURAL" => Cardinality(Evidence(s)) >= SkillThreshold
  BY DEF SkillEarned, Evidence
<1> SUFFICES ASSUME NEW s \in DOMAIN items', items'[s].layer = "PROCEDURAL"
             PROVE  Cardinality(Evidence(s)') >= SkillThreshold
  BY DEF SkillEarned, Evidence
<1> DEFINE n == Len(items)
<1>3. /\ n \in Nat /\ DOMAIN items = 1 .. n /\ s \in Nat
      /\ s \in 1 .. n \/ (s = n + 1 /\ Len(items') = n + 1)
      /\ \A i \in 1 .. n : /\ items'[i].layer = items[i].layer /\ items'[i].sig = items[i].sig
                           /\ items'[i].success = items[i].success
  <2>1. Len(items') = n \/ Len(items') = n + 1
    BY DEF Kept
  <2>2. s \in 1 .. Len(items') /\ n \in Nat
    BY <1>1
  <2>3. s \in Nat /\ (s \in 1 .. n \/ (s = n + 1 /\ Len(items') = n + 1))
    BY <2>1, <2>2
  <2> QED
    BY <1>1, <2>3 DEF Kept
<1> HIDE DEF n
<1>4. CASE s \in 1 .. n
  <2>1. \A i \in 1 .. s - 1 : i \in 1 .. n
    BY <1>3, <1>4
  <2>2. Evidence(s)' = Evidence(s)
    BY <1>3, <1>4, <2>1 DEF Evidence
  <2>3. items[s].layer = "PROCEDURAL" /\ s \in DOMAIN items
    BY <1>3, <1>4
  <2> QED
    BY <1>2, <2>2, <2>3
<1>5. CASE s = n + 1 /\ Len(items') = n + 1
  <2> DEFINE T == Successes(items'[s].sig)
             E == Evidence(s)'
  <2>1. T \subseteq E
    <3>1. s - 1 = n
      BY <1>3, <1>5
    <3> QED
      BY <1>3, <3>1 DEF Successes, Live, Evidence
  <2>2. IsFiniteSet(E)
    <3>1. IsFiniteSet(1 .. s - 1)
      BY <1>3, FS_Interval
    <3>2. E \subseteq 1 .. s - 1
      BY DEF Evidence
    <3> HIDE DEF E
    <3> QED
      BY <3>1, <3>2, FS_Subset
  <2>3. Cardinality(T) >= SkillThreshold
    BY <1>5 DEF n
  <2> HIDE DEF T, E
  <2>4. Cardinality(T) <= Cardinality(E) /\ Cardinality(T) \in Nat /\ Cardinality(E) \in Nat
    BY <2>1, <2>2, FS_Subset, FS_CardinalityType
  <2>5. Cardinality(E) >= SkillThreshold
    BY <2>3, <2>4, LearningAssumption
  <2> QED
    BY <2>5 DEF E
<1> QED
  BY <1>3, <1>4, <1>5

-----------------------------------------------------------------------------
(* Engines. *)

(* d has the versions of e, with statuses of its own. *)
SameSay(e, d) ==
    /\ DOMAIN d.versions = DOMAIN e.versions
    /\ \A v \in DOMAIN e.versions : d.versions[v].payload = e.versions[v].payload

LEMMA MarkSays ==
    ASSUME NEW e, IsEngine(e), NEW v, NEW status
    PROVE  /\ IsEngine(Mark(e, v, status)) /\ SameSay(e, Mark(e, v, status))
           /\ v \in DOMAIN e.versions => v \in DOMAIN Mark(e, v, status).versions
                                       /\ Mark(e, v, status).versions[v].status = status
<1> DEFINE new == [e.versions[v] EXCEPT !.status = status]
           vs == [e.versions EXCEPT ![v] = new]
<1>1. Mark(e, v, status) = [e EXCEPT !.versions = vs]
  BY DEF Mark
<1>2. /\ Mark(e, v, status).versions = vs
      /\ DOMAIN Mark(e, v, status) = {"versions", "stack"}
  BY <1>1 DEF IsEngine
<1>3. IsList(vs) /\ DOMAIN vs = DOMAIN e.versions
  BY ListExcept DEF IsEngine
<1>4. ASSUME NEW u \in DOMAIN e.versions
      PROVE  /\ DOMAIN vs[u] = {"payload", "status"} /\ vs[u].payload = e.versions[u].payload
             /\ u = v => vs[u].status = status
  <2>1. CASE u = v
    <3>1. vs[u] = new
      BY <2>1
    <3>2. DOMAIN e.versions[v] = {"payload", "status"}
      BY <2>1 DEF IsEngine
    <3> QED
      BY <2>1, <3>1, <3>2
  <2>2. CASE u # v
    <3>1. vs[u] = e.versions[u]
      BY <2>2
    <3> QED
      BY <2>2, <3>1 DEF IsEngine
  <2> QED
    BY <2>1, <2>2
<1> HIDE DEF vs
<1> QED
  BY <1>2, <1>3, <1>4 DEF IsEngine, SameSay

LEMMA PushPopSay ==
    ASSUME NEW e, IsEngine(e), NEW v
    PROVE  /\ IsEngine(Push(e, v)) /\ Push(e, v).versions = e.versions
           /\ IsEngine(Pop(e)) /\ Pop(e).versions = e.versions
<1>1. /\ DOMAIN Push(e, v) = {"versions", "stack"} /\ Push(e, v).versions = e.versions
      /\ DOMAIN Pop(e) = {"versions", "stack"} /\ Pop(e).versions = e.versions
  BY DEF IsEngine, Push, Pop
<1> QED
  BY <1>1 DEF IsEngine

(* A proposal adds one version, which says what is proposed. *)
LEMMA ProposeSays ==
    ASSUME NEW e, IsEngine(e), NEW payload
    PROVE  LET n == Len(e.versions) + 1
           IN  \E d : /\ Propose(e, payload) = << Effect(d, n) >> /\ IsEngine(d)
                      /\ n \in DOMAIN d.versions /\ n \notin DOMAIN e.versions
                      /\ DOMAIN d.versions = DOMAIN e.versions \cup {n}
                      /\ d.versions[n].payload = payload /\ d.versions[n].status = "PROPOSED"
                      /\ \A v \in DOMAIN e.versions : d.versions[v] = e.versions[v]
<1> DEFINE n == Len(e.versions) + 1
           new == [payload |-> payload, status |-> "PROPOSED"]
           vs == Append(e.versions, new)
           d == [e EXCEPT !.versions = vs]
<1>1. Propose(e, payload) = << Effect(d, n) >>
  BY DEF Propose
<1>2. d.versions = vs /\ DOMAIN d = {"versions", "stack"}
  BY DEF IsEngine
<1>3. DOMAIN new = {"payload", "status"} /\ new.payload = payload /\ new.status = "PROPOSED"
  OBVIOUS
<1> HIDE DEF d, new
<1>4. /\ IsList(vs) /\ DOMAIN vs = 1 .. n /\ DOMAIN e.versions = 1 .. n - 1 /\ n - 1 \in Nat
      /\ \A i \in 1 .. n - 1 : vs[i] = e.versions[i]
      /\ vs[n] = new
  <2>1. IsList(e.versions) /\ Len(e.versions) \in Nat
    BY DEF IsEngine, IsList
  <2>2. n - 1 = Len(e.versions)
    BY <2>1
  <2> QED
    BY <2>1, <2>2, ListAppend
<1> HIDE DEF n, vs
<1>5. n \in Nat /\ DOMAIN vs = DOMAIN e.versions \cup {n} /\ n \notin DOMAIN e.versions
  <2>1. n \in Int
    BY <1>4 DEF n, IsEngine, IsList
  <2> QED
    BY <1>4, <2>1
<1>6. IsEngine(d)
  <2>1. \A v \in DOMAIN vs : DOMAIN vs[v] = {"payload", "status"}
    BY <1>3, <1>4, <1>5 DEF IsEngine
  <2> QED
    BY <1>2, <1>4, <2>1 DEF IsEngine
<1>7. \A v \in DOMAIN e.versions : d.versions[v] = e.versions[v]
  BY <1>2, <1>4
<1>8. n \in DOMAIN d.versions /\ DOMAIN d.versions = DOMAIN e.versions \cup {n}
  BY <1>2, <1>5
<1>9. d.versions[n].payload = payload /\ d.versions[n].status = "PROPOSED"
  BY <1>2, <1>3, <1>4
<1> QED
  BY <1>1, <1>5, <1>6, <1>7, <1>8, <1>9 DEF n

LEMMA Lists ==
    ASSUME NEW a, NEW b, NEW c
    PROVE  /\ <<>> \o <<b>> = <<b>> /\ <<a>> \o <<b>> = <<a, b>>
           /\ <<a>> \o <<b, c>> = <<a, b, c>>
<1>1. ASSUME NEW s \in Seq({a, b, c}), NEW t \in Seq({a, b, c})
      PROVE  /\ s \o t \in Seq({a, b, c}) /\ Len(s \o t) = Len(s) + Len(t)
             /\ \A i \in 1 .. Len(s) : (s \o t)[i] = s[i]
             /\ \A i \in 1 .. Len(t) : (s \o t)[Len(s) + i] = t[i]
  OBVIOUS
<1>2. /\ <<a>> \in Seq({a, b, c}) /\ <<b>> \in Seq({a, b, c}) /\ <<>> \in Seq({a, b, c})
      /\ <<b, c>> \in Seq({a, b, c}) /\ <<a, b>> \in Seq({a, b, c})
      /\ <<a, b, c>> \in Seq({a, b, c})
  OBVIOUS
<1>3. <<>> \o <<b>> = <<b>>
  BY <1>2, ConcatEmptySeq
<1>4. <<a>> \o <<b>> = <<a, b>>
  <2> DEFINE s == <<a>> \o <<b>>
  <2>1. s \in Seq({a, b, c}) /\ Len(s) = 2 /\ s[1] = a /\ s[2] = b
    BY <1>1, <1>2
  <2> HIDE DEF s
  <2>2. \A i \in 1 .. Len(s) : s[i] = <<a, b>>[i]
    BY <2>1
  <2>3. s = <<a, b>>
    BY <1>2, <2>1, <2>2, SeqEqual
  <2> QED
    BY <2>3 DEF s
<1>5. <<a>> \o <<b, c>> = <<a, b, c>>
  <2> DEFINE s == <<a>> \o <<b, c>>
  <2>1. s \in Seq({a, b, c}) /\ Len(s) = 3 /\ s[1] = a /\ s[2] = b /\ s[3] = c
    BY <1>1, <1>2
  <2> HIDE DEF s
  <2>2. \A i \in 1 .. Len(s) : s[i] = <<a, b, c>>[i]
    BY <2>1
  <2>3. s = <<a, b, c>>
    BY <1>2, <2>1, <2>2, SeqEqual
  <2> QED
    BY <2>3 DEF s
<1> QED
  BY <1>3, <1>4, <1>5

(* Activation writes one record or two; the last engine has v active, and   *)
(* nothing says anything else than before.                                  *)
LEMMA ActivateSays ==
    ASSUME NEW e, IsEngine(e), NEW v \in DOMAIN e.versions, v \notin ActiveOf(e)
    PROVE  \E off, on, u :
              /\ IsEngine(off) /\ SameSay(e, off) /\ IsEngine(on) /\ SameSay(e, on)
              /\ v \in DOMAIN on.versions /\ on.versions[v].status = "ACTIVE"
              /\ \/ Activate(e, v) = << Effect(on, v) >>
                 \/ Activate(e, v) = << Effect(off, u), Effect(on, v) >>
<1> DEFINE u == CHOOSE x \in ActiveOf(e) : TRUE
           off == IF ActiveOf(e) = {} THEN e ELSE Mark(e, u, "DEPRECATED")
           m == Mark(off, v, "ACTIVE")
           on == Push(m, v)
<1>1. IsEngine(off) /\ SameSay(e, off)
  <2>1. IsEngine(Mark(e, u, "DEPRECATED")) /\ SameSay(e, Mark(e, u, "DEPRECATED"))
    BY MarkSays
  <2> QED
    BY <2>1 DEF SameSay
<1>2. Activate(e, v) = Supersede(e) \o << Effect(on, v) >>
  <2>1. ActiveOf(e) # {} => Supersede(e)[1].engine = Mark(e, u, "DEPRECATED")
    BY DEF Supersede, Effect
  <2> QED
    BY <2>1 DEF Activate
<1>3. Supersede(e) = <<>> \/ Supersede(e) = << Effect(off, u) >>
  BY DEF Supersede
<1> HIDE DEF u, off
<1>4. IsEngine(m) /\ SameSay(e, m) /\ v \in DOMAIN m.versions /\ m.versions[v].status = "ACTIVE"
  <2>1. v \in DOMAIN off.versions
    BY <1>1 DEF SameSay
  <2>2. IsEngine(m) /\ SameSay(off, m) /\ v \in DOMAIN m.versions /\ m.versions[v].status = "ACTIVE"
    BY <1>1, <2>1, MarkSays
  <2> HIDE DEF m
  <2> QED
    BY <1>1, <2>2 DEF SameSay
<1> HIDE DEF m
<1>5. IsEngine(on) /\ on.versions = m.versions
  BY <1>4, PushPopSay
<1> HIDE DEF on
<1>6. /\ IsEngine(on) /\ SameSay(e, on)
      /\ v \in DOMAIN on.versions /\ on.versions[v].status = "ACTIVE"
  BY <1>4, <1>5 DEF SameSay
<1>7. \/ Activate(e, v) = << Effect(on, v) >>
      \/ Activate(e, v) = << Effect(off, u), Effect(on, v) >>
  <2>1. /\ <<>> \o << Effect(on, v) >> = << Effect(on, v) >>
        /\ << Effect(off, u) >> \o << Effect(on, v) >> = << Effect(off, u), Effect(on, v) >>
    BY Lists
  <2> QED
    BY <1>2, <1>3, <2>1
<1> QED
  BY <1>1, <1>6, <1>7

(* What two and three effects come to. *)
LEMMA ReachedOfTwo ==
    ASSUME NEW e, NEW f, NEW g
    PROVE  /\ Len(<<f, g>>) = 2 /\ Reached(e, <<f, g>>, 2) = g.engine
           /\ \A w \in 0 .. 2 : Reached(e, <<f, g>>, w) \in {f.engine, g.engine}
<1> DEFINE s == <<f, g>>
<1>1. Len(s) = 2 /\ s[1] = f /\ s[2] = g /\ s # <<>>
  OBVIOUS
<1> HIDE DEF s
<1>2. Reached(e, s, 0) = f.engine /\ Reached(e, s, 1) = g.engine /\ Reached(e, s, 2) = g.engine
  BY <1>1 DEF Reached
<1>3. 0 .. 2 = {0, 1, 2}
  OBVIOUS
<1> QED
  BY <1>1, <1>2, <1>3 DEF s

LEMMA ReachedOfThree ==
    ASSUME NEW e, NEW f, NEW g, NEW h
    PROVE  /\ Len(<<f, g, h>>) = 3 /\ Reached(e, <<f, g, h>>, 3) = h.engine
           /\ \A w \in 0 .. 3 : Reached(e, <<f, g, h>>, w) \in {f.engine, g.engine, h.engine}
<1> DEFINE s == <<f, g, h>>
<1>1. Len(s) = 3 /\ s[1] = f /\ s[2] = g /\ s[3] = h /\ s # <<>>
  OBVIOUS
<1> HIDE DEF s
<1>2. /\ Reached(e, s, 0) = f.engine /\ Reached(e, s, 1) = g.engine
      /\ Reached(e, s, 2) = h.engine /\ Reached(e, s, 3) = h.engine
  BY <1>1 DEF Reached
<1>3. 0 .. 3 = {0, 1, 2, 3}
  OBVIOUS
<1> QED
  BY <1>1, <1>2, <1>3 DEF s

(* Each version of d says what it said in e, or denies what said does.      *)
Adds(e, d, said) ==
    /\ IsEngine(d)
    /\ \A v \in DOMAIN d.versions :
          \/ v \in DOMAIN e.versions /\ d.versions[v].payload = e.versions[v].payload
          \/ d.versions[v].payload = said

(* However far a revision gets, only its proposal is new; when it gets to   *)
(* its end, what was denied still is.                                       *)
LEMMA RevisionSays ==
    ASSUME NEW e, IsEngine(e), NEW c
    PROVE  LET r == Revision(e, c)
               said == DeniedNow(e) \cup {c}
           IN  /\ Len(r) \in {2, 3}
               /\ \A w \in 0 .. Len(r) : Adds(e, Reached(e, r, w), said)
               /\ DeniedNow(e) \subseteq DeniedNow(Reached(e, r, Len(r)))
<1> DEFINE said == DeniedNow(e) \cup {c}
           n == Len(e.versions) + 1
           r == Revision(e, c)
<1>1. PICK d : /\ Propose(e, said) = << Effect(d, n) >> /\ IsEngine(d)
               /\ n \in DOMAIN d.versions /\ n \notin DOMAIN e.versions
               /\ DOMAIN d.versions = DOMAIN e.versions \cup {n}
               /\ d.versions[n].payload = said /\ d.versions[n].status = "PROPOSED"
               /\ \A v \in DOMAIN e.versions : d.versions[v] = e.versions[v]
  BY ProposeSays
<1>2. Propose(e, said)[1].engine = d /\ Propose(e, said)[1].version = n
  BY <1>1 DEF Effect
<1>3. r = << Effect(d, n) >> \o Activate(d, n)
  BY <1>1, <1>2 DEF Revision
<1> HIDE DEF r, n
<1>4. n \notin ActiveOf(d)
  BY <1>1 DEF ActiveOf
<1>5. PICK off, on, u :
         /\ IsEngine(off) /\ SameSay(d, off) /\ IsEngine(on) /\ SameSay(d, on)
         /\ n \in DOMAIN on.versions /\ on.versions[n].status = "ACTIVE"
         /\ \/ Activate(d, n) = << Effect(on, n) >>
            \/ Activate(d, n) = << Effect(off, u), Effect(on, n) >>
  BY <1>1, <1>4, ActivateSays
<1> DEFINE f == Effect(d, n)
           g == Effect(off, u)
           h == Effect(on, n)
<1>6. f.engine = d /\ g.engine = off /\ h.engine = on
  BY DEF Effect
<1> HIDE DEF f, g, h
<1>7. r = <<f, h>> \/ r = <<f, g, h>>
  <2>1. <<f>> \o <<h>> = <<f, h>> /\ <<f>> \o <<g, h>> = <<f, g, h>>
    BY Lists
  <2> QED
    BY <1>3, <1>5, <2>1 DEF f, g, h
<1>8. ASSUME NEW x \in {d, off, on}
      PROVE  Adds(e, x, said)
  <2>1. IsEngine(x) /\ DOMAIN x.versions = DOMAIN d.versions
    BY <1>1, <1>5 DEF SameSay
  <2>2. \A v \in DOMAIN d.versions : x.versions[v].payload = d.versions[v].payload
    BY <1>5 DEF SameSay
  <2> QED
    BY <1>1, <2>1, <2>2 DEF Adds
<1>9. DeniedNow(e) \subseteq DeniedNow(on)
  <2>1. n \in ActiveOf(on)
    BY <1>5 DEF ActiveOf
  <2>2. on.versions[n].payload = said
    BY <1>1, <1>5 DEF SameSay
  <2>3. said \subseteq DeniedNow(on)
    BY <2>1, <2>2 DEF DeniedNow
  <2> QED
    BY <2>3
<1> HIDE DEF said
<1>10. /\ Len(r) \in {2, 3} /\ Reached(e, r, Len(r)) = on
       /\ \A w \in 0 .. Len(r) : Reached(e, r, w) \in {d, off, on}
  <2>1. CASE r = <<f, h>>
    <3>1. /\ Len(<<f, h>>) = 2 /\ Reached(e, <<f, h>>, 2) = h.engine
          /\ \A w \in 0 .. 2 : Reached(e, <<f, h>>, w) \in {f.engine, h.engine}
      BY ReachedOfTwo
    <3> QED
      BY <1>6, <2>1, <3>1
  <2>2. CASE r = <<f, g, h>>
    <3>1. /\ Len(<<f, g, h>>) = 3 /\ Reached(e, <<f, g, h>>, 3) = h.engine
          /\ \A w \in 0 .. 3 : Reached(e, <<f, g, h>>, w) \in {f.engine, g.engine, h.engine}
      BY ReachedOfThree
    <3> QED
      BY <1>6, <2>2, <3>1
  <2> QED
    BY <1>7, <2>1, <2>2
<1>11. \A w \in 0 .. Len(r) : Adds(e, Reached(e, r, w), said)
  BY <1>8, <1>10
<1> QED
  BY <1>9, <1>10, <1>11 DEF r, said

(* A rollback changes statuses only. *)
LEMMA RollbackSays ==
    ASSUME NEW e, IsEngine(e)
    PROVE  /\ Len(Rollback(e)) = 2
           /\ \A w \in 0 .. 2 : Adds(e, Reached(e, Rollback(e), w), {})
<1> DEFINE off == Mark(Pop(e), Last(e.stack), "DEPRECATED")
           on == Mark(off, Last(off.stack), "ACTIVE")
           f == Effect(off, Last(e.stack))
           g == Effect(on, Last(off.stack))
<1>1. IsEngine(Pop(e)) /\ Pop(e).versions = e.versions
  BY PushPopSay
<1>2. IsEngine(off) /\ SameSay(e, off)
  <2>1. IsEngine(off) /\ SameSay(Pop(e), off)
    BY <1>1, MarkSays
  <2> HIDE DEF off
  <2> QED
    BY <1>1, <2>1 DEF SameSay
<1>3. Rollback(e) = <<f, g>> /\ f.engine = off /\ g.engine = on
  BY DEF Rollback, Effect
<1> HIDE DEF off
<1>4. IsEngine(on) /\ SameSay(e, on)
  <2>1. IsEngine(on) /\ SameSay(off, on)
    BY <1>2, MarkSays
  <2> HIDE DEF on
  <2> QED
    BY <1>2, <2>1 DEF SameSay
<1> HIDE DEF on, f, g
<1>5. \A x \in {off, on} : Adds(e, x, {})
  BY <1>2, <1>4 DEF Adds, SameSay
<1>6. Len(<<f, g>>) = 2 /\ \A w \in 0 .. 2 : Reached(e, <<f, g>>, w) \in {f.engine, g.engine}
  BY ReachedOfTwo
<1> QED
  BY <1>3, <1>5, <1>6

-----------------------------------------------------------------------------
(* Steps of a process. *)

ProcOK(p) ==
    /\ DOMAIN proc[p] = Fields
    /\ proc[p].stage \in Stages /\ DOMAIN proc[p].run = {"done", "rest", "success"}
    /\ IsEngine(proc[p].engine)

ProcsOK ==
    /\ DOMAIN proc = Procs /\ proc = [p \in Procs |-> proc[p]]
    /\ \A p \in Procs : ProcOK(p)

LEMMA InvariantParts ==
    IInv <=> /\ ProcsOK /\ ItemsOK /\ SkillEarned
             /\ \A p \in Procs : InHand(p) /\ StillEarned(p) /\ Grounded(p)
BY DEF IInv, ShapeInv, ProcsOK, ProcOK, ItemsOK, Fields

(* A step of p leaves the other processes alone. *)
Moved(p) ==
    /\ DOMAIN proc' = Procs /\ proc' = [q \in Procs |-> proc'[q]]
    /\ \A q \in Procs \ {p} : proc'[q] = proc[q]
    /\ DOMAIN proc'[p] = Fields

(* The invariant after a step of p: what is left to show of p itself.       *)
LEMMA MovedInv ==
    ASSUME IInv, NEW p \in Procs, Moved(p), Kept, ItemsOK', SkillEarned',
           proc'[p].stage \in Stages, DOMAIN proc'[p].run = {"done", "rest", "success"},
           NEW said, Adds(proc[p].engine, proc'[p].engine, said),
           \A c \in said : Cardinality(Failures(c)) >= FailureThreshold,
           InHand(p)', StillEarned(p)'
    PROVE  IInv'
<1>1. /\ ProcsOK /\ ItemsOK
      /\ \A q \in Procs : InHand(q) /\ StillEarned(q) /\ Grounded(q)
  BY InvariantParts
<1>2. FailureThreshold \in Nat /\ SkillThreshold \in Nat
  BY LearningAssumption
<1>3. ProcsOK'
  <2>1. ProcOK(p)'
    BY DEF ProcOK, Moved, Adds
  <2>2. \A q \in Procs \ {p} : ProcOK(q)'
    BY <1>1 DEF ProcsOK, ProcOK, Moved
  <2> QED
    BY <2>1, <2>2 DEF ProcsOK, Moved
<1>4. Grounded(p)'
  <2> SUFFICES ASSUME NEW v \in DOMAIN proc'[p].engine.versions,
                      NEW c \in proc'[p].engine.versions[v].payload
               PROVE  Cardinality(Failures(c)') >= FailureThreshold
    BY DEF Grounded
  <2>1. Cardinality(Failures(c)) >= FailureThreshold
    <3>1. CASE proc'[p].engine.versions[v].payload = said
      BY <3>1
    <3>2. CASE /\ v \in DOMAIN proc[p].engine.versions
               /\ proc'[p].engine.versions[v].payload = proc[p].engine.versions[v].payload
      BY <1>1, <3>2 DEF Grounded
    <3> QED
      BY <3>1, <3>2 DEF Adds
  <2>2. /\ Cardinality(Failures(c)) \in Nat /\ Cardinality(Failures(c)') \in Nat
        /\ Cardinality(Failures(c)) <= Cardinality(Failures(c)')
    BY <1>1, EvidenceGrows
  <2> QED
    BY <1>2, <2>1, <2>2
<1>5. ASSUME NEW q \in Procs \ {p}
      PROVE  InHand(q)' /\ StillEarned(q)' /\ Grounded(q)'
  <2>1. proc'[q] = proc[q]
    BY DEF Moved
  <2>2. InHand(q)'
    <3> SUFFICES ASSUME proc[q].stage \in Stored
                 PROVE  /\ proc[q].item \in DOMAIN items'
                        /\ items'[proc[q].item].layer = "EPISODIC"
                        /\ items'[proc[q].item].sig = Signature(q)
                        /\ items'[proc[q].item].success = proc[q].run.success
      BY <2>1 DEF InHand, Signature
    <3>1. /\ proc[q].item \in DOMAIN items /\ items[proc[q].item].layer = "EPISODIC"
          /\ items[proc[q].item].sig = Signature(q)
          /\ items[proc[q].item].success = proc[q].run.success
      BY <1>1 DEF InHand
    <3> QED
      BY <1>1, <3>1, ItemsKept
  <2>3. StillEarned(q)'
    <3> SUFFICES ASSUME At(q, "promote"), NEW sig, sig = Signature(q)
                 PROVE  Cardinality(Successes(sig)') >= SkillThreshold
      BY <2>1 DEF StillEarned, Signature, At, Successes, Live
    <3>1. Cardinality(Successes(sig)) >= SkillThreshold
      BY <1>1 DEF StillEarned
    <3>2. /\ Cardinality(Successes(sig)) \in Nat /\ Cardinality(Successes(sig)') \in Nat
          /\ Cardinality(Successes(sig)) <= Cardinality(Successes(sig)')
      BY <1>1, EvidenceGrows
    <3> QED
      BY <1>2, <3>1, <3>2
  <2>4. Grounded(q)'
    <3> SUFFICES ASSUME NEW v \in DOMAIN proc[q].engine.versions,
                        NEW c \in proc[q].engine.versions[v].payload
                 PROVE  Cardinality(Failures(c)') >= FailureThreshold
      BY <2>1 DEF Grounded
    <3>1. Cardinality(Failures(c)) >= FailureThreshold
      BY <1>1 DEF Grounded
    <3>2. /\ Cardinality(Failures(c)) \in Nat /\ Cardinality(Failures(c)') \in Nat
          /\ Cardinality(Failures(c)) <= Cardinality(Failures(c)')
      BY <1>1, EvidenceGrows
    <3> QED
      BY <1>2, <3>1, <3>2
  <2> QED
    BY <2>2, <2>3, <2>4
<1>6. \A q \in Procs : InHand(q)' /\ StillEarned(q)' /\ Grounded(q)'
  BY <1>4, <1>5
<1> QED
  BY <1>3, <1>6 DEF IInv, ShapeInv, ProcsOK, ProcOK, ItemsOK, Fields

LEMMA Typed ==
    ASSUME IInv, NEW p \in Procs
    PROVE  /\ DOMAIN proc = Procs /\ proc = [q \in Procs |-> proc[q]]
           /\ DOMAIN proc[p] = Fields /\ proc[p].stage \in Stages
           /\ DOMAIN proc[p].run = {"done", "rest", "success"}
           /\ IsEngine(proc[p].engine) /\ ItemsOK /\ SkillEarned
           /\ InHand(p) /\ StillEarned(p) /\ Grounded(p)
BY InvariantParts DEF ProcsOK, ProcOK

LEMMA AddsNothing ==
    ASSUME NEW e, IsEngine(e)
    PROVE  Adds(e, e, {})
BY DEF Adds

(* A step that ends outside of learn, or has not stored the episode yet.    *)
LEMMA OutsideInv ==
    ASSUME IInv, NEW p \in Procs, Moved(p), Kept, ItemsOK', SkillEarned',
           proc'[p].stage \in Stages \ Stored,
           DOMAIN proc'[p].run = {"done", "rest", "success"},
           proc'[p].engine = proc[p].engine
    PROVE  IInv'
<1>1. Adds(proc[p].engine, proc'[p].engine, {})
  BY Typed, AddsNothing
<1>2. InHand(p)' /\ StillEarned(p)'
  BY DEF InHand, StillEarned, At, Stored
<1> QED
  BY <1>1, <1>2, MovedInv

(* A step inside learn that stays there.                                    *)
LEMMA HandKept ==
    ASSUME IInv, NEW p \in Procs, Kept, ItemsOK', proc[p].stage \in Stored,
           proc'[p].plan = proc[p].plan, proc'[p].run = proc[p].run,
           proc'[p].item = proc[p].item
    PROVE  InHand(p)'
<1>1. /\ proc[p].item \in DOMAIN items /\ items[proc[p].item].layer = "EPISODIC"
      /\ items[proc[p].item].sig = Signature(p)
      /\ items[proc[p].item].success = proc[p].run.success
  BY Typed DEF InHand
<1>2. /\ proc[p].item \in DOMAIN items' /\ items'[proc[p].item].layer = "EPISODIC"
      /\ items'[proc[p].item].sig = Signature(p)
      /\ items'[proc[p].item].success = proc[p].run.success
  BY <1>1, Typed, ItemsKept
<1> QED
  BY <1>2 DEF InHand, Signature

LEMMA InsideInv ==
    ASSUME IInv, NEW p \in Procs, Moved(p), Kept, ItemsOK', SkillEarned',
           proc[p].stage \in Stored, proc'[p].stage \in Stored,
           proc'[p].plan = proc[p].plan, proc'[p].run = proc[p].run,
           proc'[p].item = proc[p].item, proc'[p].engine = proc[p].engine,
           StillEarned(p)'
    PROVE  IInv'
<1>1. Adds(proc[p].engine, proc'[p].engine, {})
  BY Typed, AddsNothing
<1>2. InHand(p)'
  BY HandKept
<1>3. proc'[p].stage \in Stages /\ DOMAIN proc'[p].run = {"done", "rest", "success"}
  BY Typed DEF Stages
<1> QED
  BY <1>1, <1>2, <1>3, MovedInv

LEMMA SkillsUntouched ==
    ASSUME IInv, UNCHANGED items
    PROVE  Kept /\ ItemsOK' /\ SkillEarned'
<1>1. ItemsOK /\ SkillEarned
  BY InvariantParts
<1> QED
  BY <1>1, UnchangedKeeps DEF SkillEarned

(* What Go does, one field at a time. *)
LEMMA Goes ==
    ASSUME IInv, NEW p \in Procs, NEW changed, Go(p, changed), DOMAIN changed \subseteq Fields
    PROVE  /\ Moved(p)
           /\ \A f \in Fields :
                 f \in DOMAIN changed => proc'[p][f] = changed[f]
           /\ \A f \in {"engine", "refused", "approved"} :
                 f \notin DOMAIN changed => proc'[p][f] = proc[p][f]
           /\ "stage" \notin DOMAIN changed \/ changed["stage"] # "idle" =>
                 \A f \in Fields : f \notin DOMAIN changed => proc'[p][f] = proc[p][f]
           /\ "stage" \in DOMAIN changed /\ changed["stage"] = "idle" =>
                 \A f \in {"plan", "run", "item"} :
                    f \notin DOMAIN changed => proc'[p][f] = NoWork[f]
<1>1. /\ DOMAIN proc = Procs /\ proc = [q \in Procs |-> proc[q]]
      /\ DOMAIN proc[p] = Fields
  BY Typed
<1> DEFINE r == IF "stage" \in DOMAIN changed /\ changed.stage = "idle"
                THEN With(changed, With(NoWork, proc[p])) ELSE With(changed, proc[p])
<1>2. proc' = [proc EXCEPT ![p] = r]
  BY DEF Go
<1> HIDE DEF r
<1>3. /\ DOMAIN proc' = Procs /\ proc' = [q \in Procs |-> proc'[q]] /\ proc'[p] = r
      /\ \A q \in Procs \ {p} : proc'[q] = proc[q]
  BY <1>1, <1>2
<1>4. DOMAIN NoWork = {"plan", "run", "item"}
  BY DEF NoWork
<1>5. DOMAIN r = Fields
  BY <1>1 DEF r, With
<1>6. \A f \in Fields : f \in DOMAIN changed => r[f] = changed[f]
  BY <1>1 DEF r, With
<1>7. \A f \in {"engine", "refused", "approved"} :
         f \notin DOMAIN changed => r[f] = proc[p][f]
  BY <1>1, <1>4 DEF r, With, Fields
<1>8. "stage" \notin DOMAIN changed \/ changed["stage"] # "idle" =>
         \A f \in Fields : f \notin DOMAIN changed => r[f] = proc[p][f]
  BY <1>1 DEF r, With
<1>9. "stage" \in DOMAIN changed /\ changed["stage"] = "idle" =>
         \A f \in {"plan", "run", "item"} : f \notin DOMAIN changed => r[f] = NoWork[f]
  BY <1>1, <1>4 DEF r, With, Fields
<1> QED
  BY <1>3, <1>5, <1>6, <1>7, <1>8, <1>9 DEF Moved

(* Letting a run go, from anywhere.                                         *)
LEMMA GoesIdle ==
    ASSUME IInv, NEW p \in Procs, Go(p, [stage |-> "idle"])
    PROVE  /\ Moved(p) /\ proc'[p].stage = "idle" /\ proc'[p].run = NoRun
           /\ UNCHANGED <<proc[p].engine, proc[p].refused>>
<1> DEFINE changed == [stage |-> "idle"]
<1>1. DOMAIN changed = {"stage"} /\ changed["stage"] = "idle" /\ changed.stage = "idle"
  OBVIOUS
<1>2. DOMAIN changed \subseteq Fields /\ Go(p, changed)
  BY <1>1 DEF Fields
<1> HIDE DEF changed
<1> QED
  BY <1>1, <1>2, Goes DEF Fields, NoWork

LEMMA IdleInv ==
    ASSUME IInv, NEW p \in Procs, Go(p, [stage |-> "idle"]), Kept, ItemsOK', SkillEarned'
    PROVE  IInv'
<1>1. proc'[p].stage \in Stages \ Stored /\ DOMAIN proc'[p].run = {"done", "rest", "success"}
  BY GoesIdle DEF Stages, Stored, NoRun
<1> QED
  BY <1>1, GoesIdle, OutsideInv

(* Going on within learn. *)
LEMMA GoesOn ==
    ASSUME IInv, NEW p \in Procs, NEW next \in Stages \ {"idle"}, Go(p, [stage |-> next])
    PROVE  /\ Moved(p) /\ proc'[p].stage = next
           /\ UNCHANGED <<proc[p].plan, proc[p].run, proc[p].item, proc[p].engine, proc[p].refused>>
<1> DEFINE changed == [stage |-> next]
<1>1. DOMAIN changed = {"stage"} /\ changed["stage"] = next /\ changed.stage = next
  OBVIOUS
<1>2. DOMAIN changed \subseteq Fields /\ Go(p, changed)
  BY <1>1 DEF Fields
<1> HIDE DEF changed
<1> QED
  BY <1>1, <1>2, Goes DEF Fields

LEMMA OnInv ==
    ASSUME IInv, NEW p \in Procs, NEW next \in Stored \ {"promote"}, Go(p, [stage |-> next]),
           proc[p].stage \in Stored, Kept, ItemsOK', SkillEarned'
    PROVE  IInv'
<1>1. next \in Stages \ {"idle"}
  BY DEF Stored, Stages
<1>2. /\ Moved(p) /\ proc'[p].stage = next
      /\ UNCHANGED <<proc[p].plan, proc[p].run, proc[p].item, proc[p].engine>>
  BY <1>1, GoesOn
<1>3. StillEarned(p)'
  BY <1>2 DEF StillEarned, At
<1> QED
  BY <1>2, <1>3, InsideInv

(* One lemma for each part of the loop.                                     *)
LEMMA BeforeLearnInv ==
    ASSUME IInv, NEW p \in Procs,
           Plan(p) \/ Route(p) \/ Execute(p) \/ Verify(p) \/ Retry(p) \/ (\E c \in Caps : Approve(p, c))
    PROVE  /\ IInv' /\ proc'[p].engine = proc[p].engine /\ Moved(p)
           /\ proc'[p].stage \in Stages \ Stored
<1>1. Kept /\ ItemsOK' /\ SkillEarned'
  <2>1. UNCHANGED items
    BY DEF Plan, Route, Execute, Verify, Retry, Approve
  <2> QED
    BY <2>1, SkillsUntouched
<1>2. DOMAIN NoRun = {"done", "rest", "success"} /\ DOMAIN proc[p].run = {"done", "rest", "success"}
  BY Typed DEF NoRun
<1> SUFFICES /\ Moved(p) /\ proc'[p].engine = proc[p].engine
             /\ proc'[p].stage \in Stages \ Stored
             /\ DOMAIN proc'[p].run = {"done", "rest", "success"}
  BY <1>1, OutsideInv
<1>3. CASE Plan(p) \/ Retry(p)
  <2>1. PICK plan : Go(p, [stage |-> "planned", plan |-> plan, run |-> NoRun])
    BY <1>3 DEF Plan, Retry
  <2> DEFINE changed == [stage |-> "planned", plan |-> plan, run |-> NoRun]
  <2>2. /\ DOMAIN changed = {"stage", "plan", "run"} /\ changed["stage"] = "planned"
        /\ changed["run"] = NoRun
    OBVIOUS
  <2>3. Go(p, changed) /\ DOMAIN changed \subseteq Fields
    BY <2>1, <2>2 DEF Fields
  <2> HIDE DEF changed
  <2> QED
    BY <1>2, <2>2, <2>3, Goes DEF Fields, Stages, Stored
<1>4. CASE Route(p)
  <2>1. Go(p, [stage |-> "idle"]) \/ \E plan : Go(p, [stage |-> "routed", plan |-> plan])
    BY <1>4 DEF Route
  <2>2. CASE Go(p, [stage |-> "idle"])
    BY <1>2, <2>2, GoesIdle DEF Stages, Stored
  <2>3. CASE \E plan : Go(p, [stage |-> "routed", plan |-> plan])
    <3>1. PICK plan : Go(p, [stage |-> "routed", plan |-> plan])
      BY <2>3
    <3> DEFINE changed == [stage |-> "routed", plan |-> plan]
    <3>2. DOMAIN changed = {"stage", "plan"} /\ changed["stage"] = "routed"
      OBVIOUS
    <3>3. Go(p, changed) /\ DOMAIN changed \subseteq Fields
      BY <3>1, <3>2 DEF Fields
    <3> HIDE DEF changed
    <3> QED
      BY <1>2, <3>2, <3>3, Goes DEF Fields, Stages, Stored
  <2> QED
    BY <2>1, <2>2, <2>3
<1>5. CASE Execute(p)
  <2>1. PICK done, rest :
           Go(p, [stage |-> "executed", run |-> [done |-> done, rest |-> rest, success |-> FALSE]])
    BY <1>5 DEF Execute
  <2> DEFINE run == [done |-> done, rest |-> rest, success |-> FALSE]
             changed == [stage |-> "executed", run |-> run]
  <2>2. /\ DOMAIN changed = {"stage", "run"} /\ changed["stage"] = "executed"
        /\ changed["run"] = run /\ DOMAIN run = {"done", "rest", "success"}
    OBVIOUS
  <2>3. Go(p, changed) /\ DOMAIN changed \subseteq Fields
    BY <2>1, <2>2 DEF Fields
  <2> HIDE DEF changed, run
  <2> QED
    BY <1>2, <2>2, <2>3, Goes DEF Fields, Stages, Stored
<1>6. CASE Verify(p)
  <2>1. \/ Go(p, [stage |-> "idle"])
        \/ \E success : Go(p, [stage |-> "learn", run |-> [proc[p].run EXCEPT !.success = success]])
    BY <1>6, Zenon DEF Verify
  <2>2. CASE Go(p, [stage |-> "idle"])
    BY <1>2, <2>2, GoesIdle DEF Stages, Stored
  <2>3. CASE \E success :
                Go(p, [stage |-> "learn", run |-> [proc[p].run EXCEPT !.success = success]])
    <3>1. PICK success :
             Go(p, [stage |-> "learn", run |-> [proc[p].run EXCEPT !.success = success]])
      BY <2>3
    <3> DEFINE run == [proc[p].run EXCEPT !.success = success]
               changed == [stage |-> "learn", run |-> run]
    <3>2. /\ DOMAIN changed = {"stage", "run"} /\ changed["stage"] = "learn"
          /\ changed["run"] = run /\ DOMAIN run = {"done", "rest", "success"}
      BY <1>2
    <3>3. Go(p, changed) /\ DOMAIN changed \subseteq Fields
      BY <3>1, <3>2 DEF Fields
    <3> HIDE DEF changed, run
    <3> QED
      BY <1>2, <3>2, <3>3, Goes DEF Fields, Stages, Stored
  <2> QED
    BY <2>1, <2>2, <2>3
<1>7. CASE \E c \in Caps : Approve(p, c)
  <2>1. PICK set : Go(p, [approved |-> set])
    BY <1>7 DEF Approve
  <2> DEFINE changed == [approved |-> set]
  <2>2. DOMAIN changed = {"approved"}
    OBVIOUS
  <2>3. Go(p, changed) /\ DOMAIN changed \subseteq Fields
    BY <2>1, <2>2 DEF Fields
  <2>4. proc[p].stage = "idle"
    BY <1>7 DEF Approve, At
  <2> HIDE DEF changed
  <2> QED
    BY <1>2, <2>2, <2>3, <2>4, Goes DEF Fields, Stages, Stored
<1> QED
  BY <1>3, <1>4, <1>5, <1>6, <1>7

(* The episode is stored, with what the run came to. *)
LEMMA ReflectInv ==
    ASSUME IInv, NEW p \in Procs, Reflect(p)
    PROVE  /\ IInv' /\ proc'[p].engine = proc[p].engine /\ Moved(p)
           /\ proc'[p].stage \in {"failures", "idle"}
<1>1. /\ ItemsOK /\ SkillEarned /\ Len(items) \in Nat
      /\ DOMAIN proc[p].run = {"done", "rest", "success"}
  BY Typed, ItemsDomain
<1> DEFINE n == Len(items) + 1
           new == [layer |-> "EPISODIC", sig |-> Signature(p), success |-> Succeeded(p),
                   cap |-> {}, live |-> TRUE]
<1>2. /\ Kept /\ ItemsOK' /\ Len(items') = n /\ items'[n] = new
  BY <1>1, PromoteKeeps DEF Reflect
<1>3. /\ new.layer = "EPISODIC" /\ new.sig = Signature(p) /\ new.success = proc[p].run.success
  BY DEF Succeeded
<1> HIDE DEF new
<1>4. SkillEarned'
  BY <1>1, <1>2, <1>3, SkillsStand
<1>5. PICK next \in {"failures", "idle"} : Go(p, [stage |-> next, item |-> n])
  BY DEF Reflect
<1> DEFINE changed == [stage |-> next, item |-> n]
<1>6. /\ DOMAIN changed = {"stage", "item"} /\ changed["stage"] = next /\ changed["item"] = n
  OBVIOUS
<1>7. Go(p, changed) /\ DOMAIN changed \subseteq Fields
  BY <1>5, <1>6 DEF Fields
<1> HIDE DEF changed
<1>8. Moved(p) /\ proc'[p].stage = next /\ proc'[p].item = n /\ proc'[p].engine = proc[p].engine
  BY <1>6, <1>7, Goes DEF Fields
<1>9. CASE next = "idle"
  <2>1. proc'[p].run = NoRun
    BY <1>6, <1>7, <1>9, Goes DEF Fields, NoWork
  <2>2. DOMAIN NoRun = {"done", "rest", "success"}
    BY DEF NoRun
  <2> QED
    BY <1>2, <1>4, <1>8, <1>9, <2>1, <2>2, OutsideInv DEF Stages, Stored
<1>10. CASE next = "failures"
  <2>1. proc'[p].plan = proc[p].plan /\ proc'[p].run = proc[p].run
    BY <1>6, <1>7, <1>10, Goes DEF Fields
  <2>2. n \in DOMAIN items'
    <3>1. DOMAIN items' = 1 .. n
      BY <1>2, ListTyped DEF ItemsOK
    <3> QED
      BY <1>1, <3>1
  <2>3. InHand(p)'
    BY <1>2, <1>3, <1>8, <2>1, <2>2 DEF InHand, Signature
  <2>4. StillEarned(p)'
    BY <1>8, <1>10 DEF StillEarned, At
  <2>5. Adds(proc[p].engine, proc'[p].engine, {})
    BY <1>8, Typed, AddsNothing
  <2>6. proc'[p].stage \in Stages
    BY <1>8, <1>10 DEF Stages, Stored
  <2>7. DOMAIN proc'[p].run = {"done", "rest", "success"}
    BY <1>1, <2>1
  <2>8. Kept /\ ItemsOK' /\ Moved(p)
    BY <1>2, <1>8
  <2>9. \A c \in {} : Cardinality(Failures(c)) >= FailureThreshold
    OBVIOUS
  <2>10. IInv'
    BY <1>4, <2>3, <2>4, <2>5, <2>6, <2>7, <2>8, <2>9, MovedInv
  <2> QED
    BY <1>8, <2>10
<1> QED
  BY <1>5, <1>8, <1>9, <1>10

LEMMA RecordFailureInv ==
    ASSUME IInv, NEW p \in Procs, RecordFailure(p)
    PROVE  IInv' /\ proc'[p].engine = proc[p].engine /\ Moved(p)
<1>1. /\ ItemsOK /\ SkillEarned /\ Len(items) \in Nat /\ proc[p].stage \in Stored
  BY Typed, ItemsDomain DEF RecordFailure, At, Stored
<1>2. Kept /\ ItemsOK' /\ SkillEarned'
  <2>1. CASE UNCHANGED items
    BY <2>1, SkillsUntouched
  <2>2. CASE Promote("FAILURE", Signature(p), FALSE, FailedCap(p))
    <3>1. /\ Kept /\ ItemsOK' /\ Len(items') = Len(items) + 1
          /\ \A i \in 1 .. Len(items) : items'[i] = items[i]
          /\ items'[Len(items) + 1] = [layer |-> "FAILURE", sig |-> Signature(p), success |-> FALSE,
                                       cap |-> FailedCap(p), live |-> TRUE]
      BY <1>1, <2>2, PromoteKeeps
    <3>2. items'[Len(items) + 1].layer = "FAILURE"
      BY <3>1
    <3> QED
      BY <1>1, <3>1, <3>2, SkillsStand
  <2> QED
    BY <2>1, <2>2 DEF RecordFailure
<1>3. Go(p, [stage |-> "skill"]) \/ Go(p, [stage |-> "idle"])
  BY DEF RecordFailure
<1>4. "skill" \in Stored \ {"promote"} /\ "skill" \in Stages \ {"idle"}
  BY DEF Stored, Stages
<1> QED
  BY <1>1, <1>2, <1>3, <1>4, IdleInv, OnInv, GoesIdle, GoesOn

LEMMA ReviewSkillInv ==
    ASSUME IInv, NEW p \in Procs, ReviewSkill(p)
    PROVE  IInv' /\ proc'[p].engine = proc[p].engine /\ Moved(p)
<1>1. Kept /\ ItemsOK' /\ SkillEarned' /\ items' = items
  BY SkillsUntouched DEF ReviewSkill
<1>2. proc[p].stage \in Stored
  BY DEF ReviewSkill, At, Stored
<1>3. CASE Go(p, [stage |-> "promote"]) /\ Earned(Signature(p))
  <2>1. "promote" \in Stages \ {"idle"} /\ "promote" \in Stored
    BY DEF Stages, Stored
  <2>2. /\ Moved(p) /\ proc'[p].stage = "promote"
        /\ UNCHANGED <<proc[p].plan, proc[p].run, proc[p].item, proc[p].engine>>
    BY <1>3, <2>1, GoesOn
  <2>3. StillEarned(p)'
    BY <1>1, <1>3, <2>2 DEF StillEarned, Earned, Signature, Successes, Live
  <2> QED
    BY <1>1, <1>2, <2>1, <2>2, <2>3, InsideInv
<1>4. CASE Go(p, [stage |-> "learned"]) \/ Go(p, [stage |-> "routing"]) \/ Go(p, [stage |-> "deprecate"])
  <2>1. \A x \in {"learned", "routing", "deprecate"} : x \in Stored \ {"promote"} /\ x \in Stages \ {"idle"}
    BY DEF Stored, Stages
  <2> QED
    BY <1>1, <1>2, <1>4, <2>1, OnInv, GoesOn
<1> QED
  BY <1>3, <1>4 DEF ReviewSkill

LEMMA PromoteSkillInv ==
    ASSUME IInv, NEW p \in Procs, PromoteSkill(p)
    PROVE  IInv' /\ proc'[p].engine = proc[p].engine /\ Moved(p)
<1>1. /\ ItemsOK /\ SkillEarned /\ proc[p].stage \in Stored /\ StillEarned(p) /\ At(p, "promote")
  BY Typed DEF PromoteSkill, At, Stored
<1>2. Kept /\ ItemsOK' /\ SkillEarned'
  <2>1. /\ Kept /\ ItemsOK' /\ Len(items') = Len(items) + 1
        /\ \A i \in 1 .. Len(items) : items'[i] = items[i]
        /\ items'[Len(items) + 1] = [layer |-> "PROCEDURAL", sig |-> Signature(p), success |-> TRUE,
                                     cap |-> {}, live |-> TRUE]
    BY <1>1, PromoteKeeps DEF PromoteSkill
  <2>2. items'[Len(items) + 1].sig = Signature(p)
    BY <2>1
  <2>3. Cardinality(Successes(Signature(p))) >= SkillThreshold
    BY <1>1 DEF StillEarned
  <2> QED
    BY <1>1, <2>1, <2>2, <2>3, SkillsStand
<1>3. Go(p, [stage |-> "learned"]) \/ Go(p, [stage |-> "idle"])
  BY DEF PromoteSkill
<1>4. "learned" \in Stored \ {"promote"} /\ "learned" \in Stages \ {"idle"}
  BY DEF Stored, Stages
<1> QED
  BY <1>1, <1>2, <1>3, <1>4, IdleInv, OnInv, GoesIdle, GoesOn

LEMMA DeprecateSkillInv ==
    ASSUME IInv, NEW p \in Procs, DeprecateSkill(p)
    PROVE  IInv' /\ proc'[p].engine = proc[p].engine /\ Moved(p)
<1>1. /\ ItemsOK /\ SkillEarned /\ proc[p].stage \in Stored
  BY Typed DEF DeprecateSkill, At, Stored
<1>2. Kept /\ ItemsOK' /\ SkillEarned'
  <2>1. PICK s \in LiveSkills(Signature(p)) : Deprecate(s)
    BY DEF DeprecateSkill
  <2>2. s \in DOMAIN items /\ items[s].layer = "PROCEDURAL"
    BY DEF LiveSkills, Live
  <2>3. Kept /\ ItemsOK' /\ Len(items') = Len(items) /\ Len(items) \in Nat
    BY <1>1, <2>1, <2>2, DeprecateKeeps, ItemsDomain
  <2> QED
    BY <1>1, <2>3, SkillsStand
<1>3. Go(p, [stage |-> "routing"]) \/ Go(p, [stage |-> "idle"])
  BY DEF DeprecateSkill
<1>4. "routing" \in Stored \ {"promote"} /\ "routing" \in Stages \ {"idle"}
  BY DEF Stored, Stages
<1> QED
  BY <1>1, <1>2, <1>3, <1>4, IdleInv, OnInv, GoesIdle, GoesOn
(* What an active version denies has failed often enough. *)
LEMMA DeniedHasFailed ==
    ASSUME NEW p \in Procs, Grounded(p), NEW x \in DeniedNow(proc[p].engine)
    PROVE  Cardinality(Failures(x)) >= FailureThreshold
<1>1. PICK v \in ActiveOf(proc[p].engine) : x \in proc[p].engine.versions[v].payload
  BY DEF DeniedNow
<1>2. v \in DOMAIN proc[p].engine.versions
  BY DEF ActiveOf
<1> QED
  BY <1>1, <1>2 DEF Grounded

(* Revision or not, with every write done or not: only what has failed      *)
(* often enough is denied, and when no write raised, all that was denied.   *)
LEMMA ReviseRoutingInv ==
    ASSUME IInv, NEW p \in Procs, ReviseRouting(p)
    PROVE  /\ IInv' /\ Moved(p) /\ proc'[p].stage \in {"idle", "learned"}
           /\ DeniedNow(proc[p].engine) \subseteq DeniedNow(proc'[p].engine) \/ proc'[p].refused
<1> DEFINE e == proc[p].engine
           c == FailedCap(p)
           effects == IF Failed(p) /\ Due(e, c) THEN Revision(e, c) ELSE <<>>
<1>1. PICK w \in 0 .. Len(effects) :
         /\ Go(p, [engine |-> Reached(e, effects, w),
                   refused |-> proc[p].refused \/ w < Len(effects),
                   stage |-> IF w < Len(effects) THEN "idle" ELSE "learned"])
         /\ UNCHANGED items
  BY Zenon DEF ReviseRouting
<1>2. /\ Grounded(p) /\ IsEngine(e) /\ proc[p].stage \in Stored
      /\ DOMAIN proc[p].run = {"done", "rest", "success"}
  BY Typed DEF ReviseRouting, At, Stored
<1>3. Kept /\ ItemsOK' /\ SkillEarned'
  BY <1>1, SkillsUntouched
<1> DEFINE d == Reached(e, effects, w)
           raised == w < Len(effects)
           refused == proc[p].refused \/ raised
           stage == IF raised THEN "idle" ELSE "learned"
<1>4. PICK said : /\ Adds(e, d, said)
                  /\ \A x \in said : Cardinality(Failures(x)) >= FailureThreshold
                  /\ w = Len(effects) => DeniedNow(e) \subseteq DeniedNow(d)
  <2>1. CASE Failed(p) /\ Due(e, c)
    <3> DEFINE s == DeniedNow(e) \cup {c}
    <3>1. effects = Revision(e, c)
      BY <2>1
    <3> HIDE DEF effects
    <3>2. Adds(e, d, s) /\ (w = Len(effects) => DeniedNow(e) \subseteq DeniedNow(d))
      BY <1>2, <3>1, RevisionSays
    <3>3. Cardinality(Failures(c)) >= FailureThreshold
      BY <2>1 DEF Due
    <3>4. \A x \in s : Cardinality(Failures(x)) >= FailureThreshold
      BY <1>2, <3>3, DeniedHasFailed
    <3> QED
      BY <3>2, <3>4
  <2>2. CASE ~(Failed(p) /\ Due(e, c))
    <3>1. effects = <<>>
      BY <2>2
    <3> HIDE DEF effects
    <3>2. d = e
      BY <3>1 DEF Reached
    <3>3. Adds(e, d, {})
      BY <1>2, <3>2, AddsNothing
    <3> QED
      BY <3>2, <3>3
  <2> QED
    BY <2>1, <2>2
<1>5. w \in Int /\ Len(effects) \in Int /\ (raised \/ w = Len(effects))
  <2>1. CASE Failed(p) /\ Due(e, c)
    <3>1. effects = Revision(e, c)
      BY <2>1
    <3> HIDE DEF effects
    <3>2. Len(effects) \in {2, 3}
      BY <1>2, <3>1, RevisionSays
    <3> QED
      BY <3>2
  <2>2. CASE ~(Failed(p) /\ Due(e, c))
    <3>1. effects = <<>>
      BY <2>2
    <3> HIDE DEF effects
    <3> QED
      BY <3>1
  <2> QED
    BY <2>1, <2>2
<1> DEFINE changed == [engine |-> d, refused |-> refused, stage |-> stage]
<1>6. /\ DOMAIN changed = {"engine", "refused", "stage"}
      /\ changed["engine"] = d /\ changed["stage"] = stage
  BY Zenon
<1>7. changed["refused"] = refused
  BY Zenon
<1>8. Go(p, changed)
  BY <1>1, Zenon
<1> HIDE DEF effects, d, e, changed
<1>9. DOMAIN changed \subseteq Fields
  BY <1>6 DEF Fields
<1> HIDE DEF refused, stage
<1>10. Moved(p) /\ proc'[p].engine = d /\ proc'[p].stage = stage
  BY <1>6, <1>8, <1>9, Goes DEF Fields
<1>11. proc'[p].refused = refused
  <2>1. "refused" \in Fields /\ "refused" \in DOMAIN changed
    BY <1>6 DEF Fields
  <2> QED
    BY <1>7, <1>8, <1>9, <2>1, Goes, Zenon
<1>12. DeniedNow(proc[p].engine) \subseteq DeniedNow(proc'[p].engine) \/ proc'[p].refused
  <2>1. CASE w = Len(effects)
    BY <1>4, <1>10, <2>1 DEF e
  <2>2. CASE raised
    BY <1>11, <2>2, Zenon DEF refused
  <2> QED
    BY <1>5, <2>1, <2>2
<1>13. Adds(proc[p].engine, proc'[p].engine, said)
  BY <1>4, <1>10 DEF e
<1>14. StillEarned(p)' /\ proc'[p].stage \in Stages
  BY <1>10 DEF stage, StillEarned, At, Stages, Stored
<1>15. CASE stage = "idle"
  <2>1. proc'[p].run = NoRun
    BY <1>6, <1>8, <1>9, <1>15, Goes DEF Fields, NoWork
  <2>2. DOMAIN proc'[p].run = {"done", "rest", "success"} /\ InHand(p)'
    BY <1>10, <1>15, <2>1 DEF NoRun, InHand, Stored
  <2> QED
    BY <1>3, <1>4, <1>10, <1>12, <1>13, <1>14, <1>15, <2>2, MovedInv
<1>16. CASE stage = "learned"
  <2>1. UNCHANGED <<proc[p].plan, proc[p].run, proc[p].item>>
    BY <1>6, <1>8, <1>9, <1>16, Goes DEF Fields
  <2>2. InHand(p)'
    BY <1>2, <1>3, <2>1, HandKept
  <2> QED
    BY <1>2, <1>3, <1>4, <1>10, <1>12, <1>13, <1>14, <1>16, <2>1, <2>2, MovedInv
<1> QED
  BY <1>15, <1>16 DEF stage

(* A rollback leaves what the versions say, and the run, as they were. *)
LEMMA RollBackInv ==
    ASSUME IInv, NEW p \in Procs, RollBack(p)
    PROVE  IInv' /\ Moved(p) /\ proc'[p].stage = "idle"
<1> DEFINE e == proc[p].engine
           effects == Rollback(e)
<1>1. PICK w \in 0 .. Len(effects) :
         Go(p, [engine |-> Reached(e, effects, w), refused |-> proc[p].refused \/ w < Len(effects)])
  BY Zenon DEF RollBack
<1>2. /\ IsEngine(e) /\ proc[p].stage = "idle" /\ DOMAIN proc[p].run = {"done", "rest", "success"}
  BY Typed DEF RollBack, At
<1>3. Kept /\ ItemsOK' /\ SkillEarned'
  BY SkillsUntouched DEF RollBack
<1> DEFINE d == Reached(e, effects, w)
           refused == proc[p].refused \/ w < Len(effects)
           changed == [engine |-> d, refused |-> refused]
<1>4. DOMAIN changed = {"engine", "refused"} /\ changed["engine"] = d
  BY Zenon
<1>5. Go(p, changed)
  BY <1>1, Zenon
<1> HIDE DEF refused
<1>6. Adds(e, d, {})
  BY <1>2, RollbackSays
<1> HIDE DEF effects, d, e, changed
<1>7. DOMAIN changed \subseteq Fields
  BY <1>4 DEF Fields
<1>8. /\ Moved(p) /\ proc'[p].engine = d /\ proc'[p].stage = "idle" /\ proc'[p].run = proc[p].run
  BY <1>2, <1>4, <1>5, <1>7, Goes DEF Fields
<1>9. Adds(proc[p].engine, proc'[p].engine, {})
  BY <1>6, <1>8 DEF e
<1>10. InHand(p)' /\ StillEarned(p)' /\ proc'[p].stage \in Stages
  BY <1>8 DEF InHand, StillEarned, At, Stages, Stored
<1>11. Moved(p) /\ DOMAIN proc'[p].run = {"done", "rest", "success"}
  BY <1>2, <1>8
<1> HIDE DEF e
<1> QED
  BY <1>3, <1>8, <1>9, <1>10, <1>11, MovedInv

LEMMA RestartInv ==
    ASSUME IInv, NEW p \in Procs, Restart(p)
    PROVE  IInv' /\ Moved(p) /\ proc'[p].stage = "idle"
<1>1. Kept /\ ItemsOK' /\ SkillEarned'
  BY SkillsUntouched DEF Restart
<1>2. /\ DOMAIN NewProcess = Fields /\ NewProcess.stage = "idle"
      /\ DOMAIN NewProcess.run = {"done", "rest", "success"} /\ NewProcess.engine = NewEngine
  BY DEF NewProcess, NoRun, Fields
<1>3. Adds(proc[p].engine, NewEngine, {})
  BY DEF Adds, NewEngine, IsEngine, IsList
<1> HIDE DEF NewProcess
<1>4. Moved(p) /\ proc'[p] = NewProcess
  BY <1>2, Typed DEF Restart, Moved
<1>5. InHand(p)' /\ StillEarned(p)' /\ proc'[p].stage \in Stages
  BY <1>2, <1>4 DEF InHand, StillEarned, At, Stages, Stored
<1> QED
  BY <1>1, <1>2, <1>3, <1>4, <1>5, MovedInv

(* Letting a run go when a write raises, or when learn is over. *)
LEMMA LetGoInv ==
    ASSUME IInv, NEW p \in Procs, LearnRaises(p) \/ Return(p)
    PROVE  IInv' /\ proc'[p].engine = proc[p].engine /\ Moved(p) /\ proc'[p].stage = "idle"
<1>1. Go(p, [stage |-> "idle"]) /\ UNCHANGED items
  BY DEF LearnRaises, Return
<1> QED
  BY <1>1, SkillsUntouched, IdleInv, GoesIdle

LEMMA InitInv ==
    ASSUME Init PROVE IInv
<1>1. /\ DOMAIN NewProcess = Fields /\ NewProcess.stage = "idle"
      /\ DOMAIN NewProcess.run = {"done", "rest", "success"} /\ NewProcess.engine = NewEngine
  BY DEF NewProcess, NoRun, Fields
<1>2. IsEngine(NewEngine) /\ DOMAIN NewEngine.versions = {} /\ IsList(<<>>)
  BY DEF NewEngine, IsEngine, IsList
<1> HIDE DEF NewProcess, NewEngine
<1>3. DOMAIN proc = Procs /\ proc = [p \in Procs |-> proc[p]] /\ \A p \in Procs : proc[p] = NewProcess
  BY DEF Init
<1>4. ProcsOK
  BY <1>1, <1>2, <1>3 DEF ProcsOK, ProcOK, Stages
<1>5. ItemsOK /\ SkillEarned
  BY <1>2 DEF Init, ItemsOK, SkillEarned
<1>6. \A p \in Procs : InHand(p) /\ StillEarned(p) /\ Grounded(p)
  BY <1>1, <1>2, <1>3 DEF InHand, StillEarned, Grounded, At, Stored
<1> QED
  BY <1>4, <1>5, <1>6, InvariantParts

(* Every step, with what it does to the engine. *)
LEMMA NextInv ==
    ASSUME IInv, NEW p \in Procs,
           \/ Plan(p) \/ Route(p) \/ Execute(p) \/ Verify(p) \/ Retry(p)
           \/ \E c \in Caps : Approve(p, c)
           \/ Reflect(p) \/ RecordFailure(p) \/ ReviewSkill(p)
           \/ PromoteSkill(p) \/ DeprecateSkill(p) \/ ReviseRouting(p) \/ LearnRaises(p)
           \/ Return(p) \/ RollBack(p) \/ Restart(p)
    PROVE  /\ IInv' /\ Moved(p)
           /\ \/ DeniedNow(proc[p].engine) \subseteq DeniedNow(proc'[p].engine)
              \/ proc'[p].refused \/ RollBack(p) \/ Restart(p)
<1>1. CASE RollBack(p)
  BY <1>1, RollBackInv
<1>2. CASE Restart(p)
  BY <1>2, RestartInv
<1>3. CASE ReviseRouting(p)
  BY <1>3, ReviseRoutingInv, Zenon
<1>4. CASE ~(RollBack(p) \/ Restart(p) \/ ReviseRouting(p))
  <2>1. IInv' /\ proc'[p].engine = proc[p].engine /\ Moved(p)
    BY <1>4, BeforeLearnInv, ReflectInv, RecordFailureInv, ReviewSkillInv, PromoteSkillInv,
       DeprecateSkillInv, LetGoInv
  <2> QED
    BY <2>1
<1> QED
  BY <1>1, <1>2, <1>3, <1>4

LEMMA StepInv ==
    ASSUME IInv, [Next]_vars PROVE IInv'
<1>1. CASE Next
  BY <1>1, NextInv DEF Next
<1>2. CASE UNCHANGED vars
  BY <1>2 DEF vars, IInv, ShapeInv, SkillEarned, InHand, StillEarned, Grounded, Signature, At,
              Successes, Failures, Live
<1> QED
  BY <1>1, <1>2
(* Plans, approvals and objectives do not come into it: whatever the        *)
(* capabilities and thresholds, memory and journal keep to IInv.            *)
THEOREM LearningInvariant == Spec => []IInv
<1>1. Init => IInv
  BY InitInv
<1>2. IInv /\ [Next]_vars => IInv'
  BY StepInv
<1> QED
  BY <1>1, <1>2, PTL DEF Spec

(* A skill rests on the threshold's number of older successful episodes of  *)
(* its signature (cog.py:181-197).                                          *)
THEOREM SkillEarnedHolds == Spec => []SkillEarned
<1>1. IInv => SkillEarned
  BY DEF IInv
<1> QED
  BY <1>1, LearningInvariant, PTL

(* What an active routing policy denies has failed on record at least as    *)
(* often as the threshold (cog.py:243-262).                                 *)
THEOREM DenialEarnedHolds == Spec => []DenialEarned
<1>1. IInv => DenialEarned
  BY DeniedHasFailed DEF IInv, DenialEarned
<1> QED
  BY <1>1, LearningInvariant, PTL

(* As long as no journal write raised, only a rollback or the end of the    *)
(* process takes a denial back (cog.py:246, 258).                           *)
THEOREM NoDenialForgottenHolds == Spec => NoDenialForgotten
<1> DEFINE Remembered(p) ==
       \/ DeniedNow(proc[p].engine) \subseteq DeniedNow(proc'[p].engine)
       \/ proc'[p].refused \/ RollBack(p) \/ Restart(p)
<1>1. ASSUME IInv, Next
      PROVE  \A q \in Procs : Remembered(q)
  <2>1. PICK p \in Procs : Moved(p) /\ Remembered(p)
    BY <1>1, NextInv DEF Next
  <2>2. ASSUME NEW q \in Procs \ {p}
        PROVE  Remembered(q)
    BY <2>1 DEF Moved
  <2> HIDE DEF Remembered
  <2> QED
    BY <2>1, <2>2
<1>2. IInv /\ [Next]_vars =>
         [\A p \in Procs :
             \/ DeniedNow(proc[p].engine) \subseteq DeniedNow(proc'[p].engine)
             \/ proc'[p].refused \/ RollBack(p) \/ Restart(p)]_vars
  BY <1>1, Zenon
<1> QED
  BY <1>2, LearningInvariant, PTL DEF Spec, NoDenialForgotten

-----------------------------------------------------------------------------
(* One process over a data directory. *)

Single == \A p, q \in Procs : p = q

(* No skill is added, and the runs whose learn ends here succeeded or have  *)
(* no skill to leave behind.                                                *)
LEMMA NoMoreSkills ==
    ASSUME ItemsOK, ItemsOK', Kept, AloneInv, Live("PROCEDURAL")' \subseteq Live("PROCEDURAL"),
           NEW ended, ended \subseteq DOMAIN items, learned' = learned \cup ended,
           \A i \in ended : items[i].success \/ LiveSkills(items[i].sig) = {}
    PROVE  OneSkillPerSignature' /\ SkillFalls' /\ learned' \subseteq DOMAIN items'
<1>1. /\ DOMAIN items = 1 .. Len(items) /\ DOMAIN items \subseteq DOMAIN items'
      /\ \A i \in DOMAIN items : items'[i].sig = items[i].sig /\ items'[i].success = items[i].success
  BY ItemsKept, ItemsDomain DEF Kept
<1>2. OneSkillPerSignature /\ SkillFalls /\ learned \subseteq DOMAIN items
  BY DEF AloneInv
<1>3. \A s \in Live("PROCEDURAL")' : s \in Live("PROCEDURAL") /\ items'[s].sig = items[s].sig
  BY <1>1 DEF Live
<1>4. OneSkillPerSignature'
  BY <1>2, <1>3 DEF OneSkillPerSignature
<1>5. ASSUME NEW i \in learned', ~items'[i].success,
             NEW s \in Live("PROCEDURAL")', items'[s].sig = items'[i].sig
      PROVE  s > i
  <2>1. i \in DOMAIN items /\ ~items[i].success /\ s \in LiveSkills(items[i].sig)
    BY <1>1, <1>2, <1>3, <1>5 DEF LiveSkills
  <2> QED
    BY <1>2, <2>1 DEF SkillFalls
<1>6. SkillFalls'
  BY <1>5 DEF SkillFalls, LiveSkills
<1> QED
  BY <1>1, <1>2, <1>4, <1>6
(* A step after which p is about to write no skill and no status.           *)
LEMMA AloneMoves ==
    ASSUME ItemsOK, ItemsOK', Kept, AloneInv, NEW p \in Procs, \A q \in Procs : q = p,
           Live("PROCEDURAL")' \subseteq Live("PROCEDURAL"), learned' = learned,
           proc'[p].stage \notin {"promote", "deprecate", "routing"}
    PROVE  AloneInv'
<1>1. OneSkillPerSignature' /\ SkillFalls' /\ learned' \subseteq DOMAIN items'
  <2> DEFINE ended == {}
  <2>1. ended \subseteq DOMAIN items /\ learned' = learned \cup ended
    OBVIOUS
  <2>2. \A i \in ended : items[i].success \/ LiveSkills(items[i].sig) = {}
    OBVIOUS
  <2> HIDE DEF ended
  <2> QED
    BY <2>1, <2>2, NoMoreSkills
<1>2. ~At(p, "promote")' /\ ~At(p, "deprecate")' /\ ~At(p, "routing")'
  BY DEF At
<1> QED
  BY <1>1, <1>2 DEF AloneInv

LEMMA AloneQuietly ==
    ASSUME IInv, AloneInv, NEW p \in Procs, \A q \in Procs : q = p,
           \/ Plan(p) \/ Route(p) \/ Execute(p) \/ Verify(p) \/ Retry(p)
           \/ \E c \in Caps : Approve(p, c)
           \/ LearnRaises(p) \/ Return(p) \/ RollBack(p) \/ Restart(p)
    PROVE  AloneInv'
<1>1. UNCHANGED <<items, learned>>
  BY DEF Plan, Route, Execute, Verify, Retry, Approve, LearnRaises, Return, RollBack, Restart
<1>2. proc'[p].stage \in (Stages \ Stored) \cup {"idle"}
  BY BeforeLearnInv, LetGoInv, RollBackInv, RestartInv
<1>3. proc'[p].stage \notin {"promote", "deprecate", "routing"}
  BY <1>2 DEF Stored
<1>4. Kept /\ ItemsOK' /\ ItemsOK
  BY <1>1, SkillsUntouched, Typed
<1>5. Live("PROCEDURAL")' \subseteq Live("PROCEDURAL")
  BY <1>1 DEF Live
<1> QED
  BY <1>1, <1>3, <1>4, <1>5, AloneMoves

(* An episode or a failure is no skill. *)
LEMMA NoSkillAppended ==
    ASSUME ItemsOK, NEW layer \in {"EPISODIC", "FAILURE"}, NEW sig, NEW success, NEW cap,
           Promote(layer, sig, success, cap)
    PROVE  Kept /\ ItemsOK' /\ Live("PROCEDURAL")' \subseteq Live("PROCEDURAL")
<1> DEFINE n == Len(items)
           new == [layer |-> layer, sig |-> sig, success |-> success, cap |-> cap, live |-> TRUE]
<1>1. /\ Kept /\ ItemsOK' /\ Len(items') = n + 1
      /\ \A i \in 1 .. n : items'[i] = items[i]
      /\ items'[n + 1] = new
  BY PromoteKeeps
<1>2. new.layer # "PROCEDURAL"
  OBVIOUS
<1>3. DOMAIN items = 1 .. n /\ n \in Nat
  BY ItemsDomain
<1>4. DOMAIN items' = 1 .. n + 1
  BY <1>1, ListTyped DEF ItemsOK
<1> HIDE DEF n, new
<1>5. \A s \in DOMAIN items' : s \in DOMAIN items \/ s = n + 1
  BY <1>3, <1>4
<1> QED
  BY <1>1, <1>2, <1>3, <1>5 DEF Live

LEMMA AloneStores ==
    ASSUME IInv, AloneInv, NEW p \in Procs, \A q \in Procs : q = p,
           Reflect(p) \/ RecordFailure(p)
    PROVE  AloneInv'
<1>1. ItemsOK
  BY Typed
<1>2. CASE Reflect(p)
  <2>1. proc'[p].stage \notin {"promote", "deprecate", "routing"}
    BY <1>2, ReflectInv
  <2>2. Kept /\ ItemsOK' /\ Live("PROCEDURAL")' \subseteq Live("PROCEDURAL")
    BY <1>1, <1>2, NoSkillAppended DEF Reflect
  <2>3. learned' = learned
    BY <1>2 DEF Reflect
  <2> QED
    BY <1>1, <2>1, <2>2, <2>3, AloneMoves
<1>3. CASE RecordFailure(p)
  <2>1. Go(p, [stage |-> "skill"]) \/ Go(p, [stage |-> "idle"])
    BY <1>3 DEF RecordFailure
  <2>2. "skill" \in Stages \ {"idle"}
    BY DEF Stored, Stages
  <2>3. proc'[p].stage \notin {"promote", "deprecate", "routing"}
    BY <2>1, <2>2, GoesOn, GoesIdle
  <2>4. Kept /\ ItemsOK' /\ Live("PROCEDURAL")' \subseteq Live("PROCEDURAL")
    <3>1. CASE UNCHANGED items
      BY <3>1, SkillsUntouched DEF Live
    <3>2. CASE Promote("FAILURE", Signature(p), FALSE, FailedCap(p))
      BY <1>1, <3>2, NoSkillAppended
    <3> QED
      BY <1>3, <3>1, <3>2 DEF RecordFailure
  <2>5. learned' = learned
    BY <1>3 DEF RecordFailure
  <2> QED
    BY <1>1, <2>3, <2>4, <2>5, AloneMoves
<1> QED
  BY <1>2, <1>3

(* What learn reads, it reads of itself: the skills of the signature, and   *)
(* whether the run succeeded.                                               *)
LEMMA AloneReviews ==
    ASSUME IInv, AloneInv, NEW p \in Procs, \A q \in Procs : q = p, ReviewSkill(p)
    PROVE  AloneInv'
<1>1. /\ ItemsOK /\ proc[p].item \in DOMAIN items
      /\ items[proc[p].item].success = proc[p].run.success
  BY Typed DEF ReviewSkill, At, InHand, Stored
<1>2. Kept /\ ItemsOK' /\ items' = items
  BY SkillsUntouched DEF ReviewSkill
<1>3. Live("PROCEDURAL")' \subseteq Live("PROCEDURAL")
  BY <1>2 DEF Live
<1>4. CASE Succeeded(p) /\ ~Earned(Signature(p)) /\ Go(p, [stage |-> "learned"]) /\ Ends(p)
  <2>1. "learned" \in Stages \ {"idle"}
    BY DEF Stages, Stored
  <2>2. proc'[p].stage = "learned"
    BY <1>4, <2>1, GoesOn
  <2>3. OneSkillPerSignature' /\ SkillFalls' /\ learned' \subseteq DOMAIN items'
    <3> DEFINE ended == {proc[p].item}
    <3>1. ended \subseteq DOMAIN items /\ learned' = learned \cup ended
      BY <1>1, <1>4 DEF Ends
    <3>2. \A i \in ended : items[i].success \/ LiveSkills(items[i].sig) = {}
      BY <1>1, <1>4 DEF Succeeded
    <3> HIDE DEF ended
    <3> QED
      BY <1>1, <1>2, <1>3, <3>1, <3>2, NoMoreSkills
  <2>4. ~At(p, "promote")' /\ ~At(p, "deprecate")' /\ ~At(p, "routing")'
    BY <2>2 DEF At
  <2> QED
    BY <2>3, <2>4 DEF AloneInv
<1>5. CASE /\ UNCHANGED learned
           /\ \/ Succeeded(p) /\ Earned(Signature(p)) /\ Go(p, [stage |-> "promote"])
              \/ ~Succeeded(p) /\ LiveSkills(Signature(p)) = {} /\ Go(p, [stage |-> "routing"])
              \/ ~Succeeded(p) /\ Go(p, [stage |-> "deprecate"])
  <2>1. OneSkillPerSignature' /\ SkillFalls' /\ learned' \subseteq DOMAIN items'
    BY <1>2, <1>5 DEF AloneInv, OneSkillPerSignature, SkillFalls, LiveSkills, Live
  <2>2. \A x \in {"promote", "routing", "deprecate"} : x \in Stages \ {"idle"}
    BY DEF Stages, Stored
  <2>3. UNCHANGED <<proc[p].plan, proc[p].run>>
    BY <1>5, <2>2, GoesOn
  <2>4. (Succeeded(p)' <=> Succeeded(p)) /\ (LiveSkills(Signature(p)) = {} => LiveSkills(Signature(p))' = {})
    BY <1>2, <2>3 DEF Succeeded, Signature, LiveSkills, Live
  <2>5. \/ At(p, "promote")' /\ ~At(p, "deprecate")' /\ ~At(p, "routing")'
           /\ Succeeded(p) /\ LiveSkills(Signature(p)) = {}
        \/ At(p, "routing")' /\ ~At(p, "promote")' /\ ~At(p, "deprecate")'
           /\ ~Succeeded(p) /\ LiveSkills(Signature(p)) = {}
        \/ At(p, "deprecate")' /\ ~At(p, "promote")' /\ ~At(p, "routing")' /\ ~Succeeded(p)
    BY <1>5, <2>2, GoesOn DEF At, Earned
  <2> QED
    BY <2>1, <2>4, <2>5 DEF AloneInv
<1> QED
  BY <1>4, <1>5 DEF ReviewSkill
(* The skill is written when the signature has none. *)
LEMMA AlonePromotes ==
    ASSUME IInv, AloneInv, NEW p \in Procs, \A q \in Procs : q = p, PromoteSkill(p)
    PROVE  AloneInv'
<1> DEFINE n == Len(items)
           sig == Signature(p)
           new == [layer |-> "PROCEDURAL", sig |-> sig, success |-> TRUE, cap |-> {}, live |-> TRUE]
<1>1. /\ ItemsOK /\ At(p, "promote") /\ Succeeded(p) /\ LiveSkills(sig) = {}
      /\ proc[p].item \in DOMAIN items /\ items[proc[p].item].success = proc[p].run.success
  BY Typed DEF PromoteSkill, AloneInv, At, InHand, Stored
<1>2. /\ Kept /\ ItemsOK' /\ Len(items') = n + 1
      /\ \A i \in 1 .. n : items'[i] = items[i]
      /\ items'[n + 1] = new
  BY <1>1, PromoteKeeps DEF PromoteSkill
<1>3. DOMAIN items = 1 .. n /\ n \in Nat
  BY <1>1, ItemsDomain
<1>4. DOMAIN items' = 1 .. n + 1
  BY <1>2, ListTyped DEF ItemsOK
<1>5. new.sig = sig
  OBVIOUS
<1> HIDE DEF n, sig, new
<1>6. \A s \in Live("PROCEDURAL")' :
         s = n + 1 \/ (s \in DOMAIN items /\ s \in Live("PROCEDURAL") /\ items'[s] = items[s])
  BY <1>2, <1>3, <1>4 DEF Live
<1>7. items'[n + 1].sig = sig
  BY <1>2, <1>5
<1>8. \A s \in Live("PROCEDURAL") : items[s].sig # sig
  BY <1>1 DEF LiveSkills
<1>9. OneSkillPerSignature'
  <2> SUFFICES ASSUME NEW s \in Live("PROCEDURAL")', NEW t \in Live("PROCEDURAL")',
                      items'[s].sig = items'[t].sig
               PROVE  s = t
    BY DEF OneSkillPerSignature
  <2> QED
    BY <1>6, <1>7, <1>8 DEF AloneInv, OneSkillPerSignature
<1>10. learned \subseteq 1 .. n /\ learned' \subseteq 1 .. n
       /\ \A i \in learned' : i \in learned \/ (i = proc[p].item /\ items[i].success)
  BY <1>1, <1>3 DEF PromoteSkill, AloneInv, Ends, Succeeded
<1>11. SkillFalls'
  <2> SUFFICES ASSUME NEW i \in learned', ~items'[i].success,
                      NEW s \in Live("PROCEDURAL")', items'[s].sig = items'[i].sig
               PROVE  s > i
    BY DEF SkillFalls, LiveSkills
  <2>1. items'[i] = items[i] /\ i \in 1 .. n /\ i \in learned
    BY <1>2, <1>10
  <2>2. CASE s = n + 1
    BY <1>3, <2>1, <2>2
  <2>3. CASE s \in Live("PROCEDURAL") /\ items'[s] = items[s]
    <3>1. s \in LiveSkills(items[i].sig) /\ ~items[i].success
      BY <2>1, <2>3 DEF LiveSkills, Live
    <3> QED
      BY <2>1, <3>1 DEF AloneInv, SkillFalls
  <2> QED
    BY <1>6, <2>2, <2>3
<1>12. ~At(p, "promote")' /\ ~At(p, "deprecate")' /\ ~At(p, "routing")'
  <2>1. Go(p, [stage |-> "learned"]) \/ Go(p, [stage |-> "idle"])
    BY DEF PromoteSkill
  <2>2. "learned" \in Stages \ {"idle"}
    BY DEF Stages, Stored
  <2> QED
    BY <2>1, <2>2, GoesOn, GoesIdle DEF At
<1>13. learned' \subseteq DOMAIN items'
  BY <1>3, <1>4, <1>10
<1> QED
  BY <1>9, <1>11, <1>12, <1>13 DEF AloneInv

(* The signature's one skill falls, and none is left.                       *)
LEMMA AloneDeprecates ==
    ASSUME IInv, AloneInv, NEW p \in Procs, \A q \in Procs : q = p, DeprecateSkill(p)
    PROVE  AloneInv'
<1>0. PICK sig : sig = Signature(p)
  OBVIOUS
<1>1. ItemsOK /\ At(p, "deprecate") /\ ~Succeeded(p)
  BY Typed DEF DeprecateSkill, AloneInv
<1>2. PICK s \in LiveSkills(sig) : Deprecate(s)
  BY <1>0 DEF DeprecateSkill
<1>3. /\ s \in DOMAIN items /\ items[s].layer = "PROCEDURAL" /\ items[s].sig = sig
      /\ s \in Live("PROCEDURAL")
  BY <1>2 DEF LiveSkills, Live
<1>4. Kept /\ ItemsOK'
  BY <1>1, <1>2, <1>3, DeprecateKeeps
<1>5. /\ DOMAIN items' = DOMAIN items /\ ~items'[s].live
      /\ \A i \in DOMAIN items : i # s => items'[i] = items[i]
  BY <1>1, <1>2, <1>3 DEF Deprecate, ItemsOK
<1>6. /\ Live("PROCEDURAL")' \subseteq Live("PROCEDURAL") \ {s}
      /\ \A t \in Live("PROCEDURAL")' : items'[t].sig = items[t].sig
  BY <1>5 DEF Live
<1>7. \A t \in Live("PROCEDURAL")' : items'[t].sig # sig
  BY <1>3, <1>6 DEF AloneInv, OneSkillPerSignature
<1>8. LiveSkills(sig)' = {}
  BY <1>7 DEF LiveSkills
<1>9. OneSkillPerSignature' /\ SkillFalls' /\ learned' \subseteq DOMAIN items'
  <2> DEFINE ended == {}
  <2>1. ended \subseteq DOMAIN items /\ learned' = learned \cup ended
    BY DEF DeprecateSkill
  <2>2. \A i \in ended : items[i].success \/ LiveSkills(items[i].sig) = {}
    OBVIOUS
  <2> HIDE DEF ended
  <2> QED
    BY <1>1, <1>4, <1>6, <2>1, <2>2, NoMoreSkills
<1>10. CASE Go(p, [stage |-> "idle"])
  BY <1>9, <1>10, GoesIdle DEF AloneInv, At
<1>11. CASE Go(p, [stage |-> "routing"])
  <2>1. "routing" \in Stages \ {"idle"}
    BY DEF Stages, Stored
  <2>2. /\ proc'[p].stage = "routing" /\ UNCHANGED <<proc[p].plan, proc[p].run>>
    BY <1>11, <2>1, GoesOn
  <2>3. ~Succeeded(p)' /\ LiveSkills(Signature(p))' = {}
    BY <1>0, <1>1, <1>8, <2>2 DEF Succeeded, Signature, LiveSkills
  <2> QED
    BY <1>9, <2>2, <2>3 DEF AloneInv, At
<1> QED
  BY <1>10, <1>11 DEF DeprecateSkill

(* A failed run ends when no skill of its signature is left.                *)
LEMMA AloneRevises ==
    ASSUME IInv, AloneInv, NEW p \in Procs, \A q \in Procs : q = p, ReviseRouting(p)
    PROVE  AloneInv'
<1>1. /\ ItemsOK /\ proc[p].item \in DOMAIN items /\ items[proc[p].item].sig = Signature(p)
      /\ LiveSkills(Signature(p)) = {}
  BY Typed DEF ReviseRouting, AloneInv, At, InHand, Stored
<1>2. Kept /\ ItemsOK' /\ items' = items
  BY SkillsUntouched DEF ReviseRouting
<1>3. Live("PROCEDURAL")' \subseteq Live("PROCEDURAL")
  BY <1>2 DEF Live
<1>4. ~At(p, "promote")' /\ ~At(p, "deprecate")' /\ ~At(p, "routing")'
  BY ReviseRoutingInv DEF At
<1>5. \E ended : /\ ended \subseteq {proc[p].item} /\ learned' = learned \cup ended
  <2>1. UNCHANGED learned \/ Ends(p)
    BY Zenon DEF ReviseRouting
  <2>2. learned' = learned \cup {} \/ learned' = learned \cup {proc[p].item}
    BY <2>1 DEF Ends
  <2> QED
    BY <2>2
<1>6. PICK ended : ended \subseteq {proc[p].item} /\ learned' = learned \cup ended
  BY <1>5
<1>7. /\ ended \subseteq DOMAIN items
      /\ \A i \in ended : items[i].success \/ LiveSkills(items[i].sig) = {}
  BY <1>1, <1>6
<1>8. OneSkillPerSignature' /\ SkillFalls' /\ learned' \subseteq DOMAIN items'
  BY <1>1, <1>2, <1>3, <1>6, <1>7, NoMoreSkills
<1> QED
  BY <1>4, <1>8 DEF AloneInv

LEMMA AloneNext ==
    ASSUME Single, IInv, AloneInv, [Next]_vars PROVE AloneInv'
<1>1. ASSUME Next
      PROVE  AloneInv'
  <2>1. PICK p \in Procs :
           \/ Plan(p) \/ Route(p) \/ Execute(p) \/ Verify(p) \/ Retry(p)
           \/ \E c \in Caps : Approve(p, c)
           \/ Reflect(p) \/ RecordFailure(p) \/ ReviewSkill(p)
           \/ PromoteSkill(p) \/ DeprecateSkill(p) \/ ReviseRouting(p) \/ LearnRaises(p)
           \/ Return(p) \/ RollBack(p) \/ Restart(p)
    BY <1>1 DEF Next
  <2>2. \A q \in Procs : q = p
    BY DEF Single
  <2> QED
    BY <2>1, <2>2, AloneQuietly, AloneStores, AloneReviews, AlonePromotes, AloneDeprecates,
       AloneRevises
<1>2. CASE UNCHANGED vars
  BY <1>2 DEF vars, AloneInv, OneSkillPerSignature, SkillFalls, LiveSkills, Live, At, Succeeded,
              Signature
<1> QED
  BY <1>1, <1>2

(* With one process over a data directory, what learn reads before it       *)
(* writes a skill or deprecates one still holds when it writes.             *)
THEOREM AloneInvariant ==
    ASSUME Single PROVE Spec => []AloneInv
<1>1. Init => AloneInv
  BY DEF Init, NewProcess, AloneInv, OneSkillPerSignature, SkillFalls, Live, At
<1>2. IInv /\ AloneInv /\ [Next]_vars => AloneInv'
  BY AloneNext
<1> QED
  BY <1>1, <1>2, LearningInvariant, PTL DEF Spec

(* A signature has at most one live skill, also when it was deprecated and  *)
(* earned again (cog.py:182-188).                                           *)
THEOREM OneSkillPerSignatureHolds ==
    ASSUME Single PROVE Spec => []OneSkillPerSignature
<1>1. AloneInv => OneSkillPerSignature
  BY DEF AloneInv
<1> QED
  BY <1>1, AloneInvariant, PTL

(* Once learn has come to its end for a failed run, no skill of its         *)
(* signature that is older than the run is live (cog.py:114, 222-234).      *)
THEOREM SkillFallsHolds ==
    ASSUME Single PROVE Spec => []SkillFalls
<1>1. AloneInv => SkillFalls
  BY DEF AloneInv
<1> QED
  BY <1>1, AloneInvariant, PTL

-----------------------------------------------------------------------------
(* Plans.  The lists that planning builds are loops, so the first facts are *)
(* how far a loop counts, that what it computes exists, and what it is.     *)

LEMMA LeastNumber ==
    ASSUME NEW Bad \in SUBSET Nat, Bad # {}
    PROVE  \E n \in Bad : \A m \in Bad : m >= n
<1> DEFINE L == OpToRel(<, Nat)
<1>1. \A m \in Nat, n \in Nat : m < n => <<m, n>> \in L
  BY DEF OpToRel
<1>2. IsWellFoundedOn(L, Nat)
  BY NatLessThanWellFounded
<1> HIDE DEF L
<1>3. PICK n \in Bad : \A m \in Bad : ~(<<m, n>> \in L)
  BY <1>2, WFMin
<1>4. \A m \in Bad : ~(m < n)
  BY <1>1, <1>3
<1> QED
  BY <1>4

LEMMA CountUp ==
    ASSUME NEW N \in Nat, NEW Good, 0 \in Good,
           \A k \in 0 .. N - 1 : k \in Good => k + 1 \in Good
    PROVE  \A k \in 0 .. N : k \in Good
<1> DEFINE Bad == {k \in 0 .. N : k \notin Good}
<1> SUFFICES ASSUME Bad # {}
             PROVE  FALSE
  OBVIOUS
<1>1. PICK n \in Bad : \A m \in Bad : m >= n
  <2>1. Bad \in SUBSET Nat /\ Bad # {}
    OBVIOUS
  <2> HIDE DEF Bad
  <2> QED
    BY <2>1, LeastNumber
<1>2. n # 0 /\ n - 1 \in 0 .. N - 1 /\ n \notin Good
  OBVIOUS
<1>3. n - 1 \in Good
  BY <1>1, <1>2
<1>4. (n - 1) + 1 \in Good
  BY <1>2, <1>3
<1> QED
  BY <1>2, <1>4

LEMMA ListOf ==
    ASSUME NEW n \in Nat, NEW s, s = [i \in 1 .. n |-> s[i]]
    PROVE  IsList(s) /\ Len(s) = n /\ DOMAIN s = 1 .. n
<1>1. DOMAIN s = 1 .. n
  OBVIOUS
<1>2. s \in [1 .. n -> {s[i] : i \in 1 .. n}]
  OBVIOUS
<1>3. s \in Seq({s[i] : i \in 1 .. n})
  BY <1>2
<1>4. Len(s) = n
  BY <1>1, <1>3
<1> QED
  BY <1>1, <1>4 DEF IsList

LEMMA ListConcat ==
    ASSUME NEW s, IsList(s), NEW t, IsList(t)
    PROVE  /\ IsList(s \o t) /\ Len(s \o t) = Len(s) + Len(t)
           /\ \A i \in 1 .. Len(s) + Len(t) :
                 (s \o t)[i] = IF i <= Len(s) THEN s[i] ELSE t[i - Len(s)]
<1>1. PICK S : s \in Seq(S) /\ DOMAIN s = 1 .. Len(s) /\ Len(s) \in Nat
  BY ListTyped
<1>2. PICK T : t \in Seq(T) /\ DOMAIN t = 1 .. Len(t) /\ Len(t) \in Nat
  BY ListTyped
<1> DEFINE U == S \cup T
<1>3. s \in Seq(U) /\ t \in Seq(U)
  BY <1>1, <1>2
<1> HIDE DEF U
<1>4. /\ s \o t \in Seq(U) /\ Len(s \o t) = Len(s) + Len(t)
      /\ \A i \in 1 .. Len(s) + Len(t) :
            (s \o t)[i] = IF i <= Len(s) THEN s[i] ELSE t[i - Len(s)]
  BY <1>1, <1>2, <1>3
<1> DEFINE c == s \o t
<1> HIDE DEF c
<1>5. c \in Seq(U) => IsList(c)
  BY DEF IsList
<1> QED
  BY <1>4, <1>5 DEF c

(* Flattening. What the intent engine finds in the clauses, one behind the  *)
(* other (intent/engine.py:131-137).                                       *)
Join(s, t) == s \o t

IsFlat(f, n, seqs) ==
    f = [i \in 1 .. n |-> IF i = 1 THEN seqs[i] ELSE Join(f[i - 1], seqs[i])]

LEMMA FlatExists ==
    ASSUME NEW seqs, NEW n \in Nat
    PROVE  \E f : IsFlat(f, n, seqs)
<1> DEFINE Good == {k \in 0 .. n : \E f : IsFlat(f, k, seqs)}
<1>1. 0 \in Good
  <2>1. IsFlat(<<>>, 0, seqs)
    BY DEF IsFlat
  <2> QED
    BY <2>1
<1>2. ASSUME NEW k \in 0 .. n - 1, k \in Good
      PROVE  k + 1 \in Good
  <2>1. PICK f : IsFlat(f, k, seqs)
    BY <1>2
  <2>2. PICK next : next = IF k = 0 THEN seqs[1] ELSE Join(f[k], seqs[k + 1])
    OBVIOUS
  <2> DEFINE g == [i \in 1 .. k + 1 |-> IF i = k + 1 THEN next ELSE f[i]]
  <2>3. /\ g = [i \in 1 .. k + 1 |-> g[i]]
        /\ g[k + 1] = next /\ \A i \in 1 .. k : g[i] = f[i]
    OBVIOUS
  <2> HIDE DEF g
  <2>4. \A i \in 1 .. k : f[i] = IF i = 1 THEN seqs[i] ELSE Join(f[i - 1], seqs[i])
    BY <2>1 DEF IsFlat
  <2>5. ASSUME NEW i \in 1 .. k + 1
        PROVE  g[i] = IF i = 1 THEN seqs[i] ELSE Join(g[i - 1], seqs[i])
    <3>1. CASE i = k + 1
      <4>1. CASE k = 0
        BY <4>1, <3>1, <2>2, <2>3
      <4>2. CASE k # 0
        <5>1. k \in 1 .. k /\ i - 1 = k /\ i # 1
          BY <4>2, <3>1
        <5> QED
          BY <5>1, <4>2, <3>1, <2>2, <2>3
      <4> QED
        BY <4>1, <4>2
    <3>2. CASE i # k + 1
      <4>1. i \in 1 .. k
        BY <3>2
      <4>2. i # 1 => i - 1 \in 1 .. k
        BY <4>1
      <4> QED
        BY <4>1, <4>2, <2>3, <2>4
    <3> QED
      BY <3>1, <3>2
  <2>6. IsFlat(g, k + 1, seqs)
    BY <2>3, <2>5 DEF IsFlat
  <2> QED
    BY <2>6
<1> HIDE DEF Good
<1>3. n \in Good
  BY <1>1, <1>2, CountUp
<1> QED
  BY <1>3 DEF Good

LEMMA Flattened ==
    ASSUME NEW seqs, IsList(seqs), \A i \in 1 .. Len(seqs) : IsList(seqs[i])
    PROVE  IsList(FlattenSeq(seqs))
<1>1. CASE Len(seqs) = 0
  BY <1>1 DEF FlattenSeq
<1>2. CASE Len(seqs) # 0
  <2>1. PICK n \in Nat \ {0} : n = Len(seqs)
    BY <1>2 DEF IsList
  <2> DEFINE flat == CHOOSE f : IsFlat(f, n, seqs)
  <2>2. FlattenSeq(seqs) = flat[n]
    BY <1>2, <2>1 DEF FlattenSeq, IsFlat, Join
  <2>3. IsFlat(flat, n, seqs)
    BY <2>1, FlatExists
  <2> HIDE DEF flat
  <2>4. \A i \in 1 .. n : flat[i] = IF i = 1 THEN seqs[i] ELSE Join(flat[i - 1], seqs[i])
    BY <2>3 DEF IsFlat
  <2> DEFINE Good == {k \in 0 .. n : k # 0 => IsList(flat[k])}
  <2>5. 0 \in Good
    BY <2>1
  <2>6. ASSUME NEW k \in 0 .. n - 1, k \in Good
        PROVE  k + 1 \in Good
    <3>1. k + 1 \in 1 .. n /\ (k + 1) - 1 = k
      BY <2>1
    <3>2. CASE k = 0
      BY <3>1, <3>2, <2>1, <2>4
    <3>3. CASE k # 0
      <4>1. IsList(flat[k]) /\ IsList(seqs[k + 1])
        BY <3>1, <3>3, <2>1, <2>6
      <4>2. IsList(Join(flat[k], seqs[k + 1]))
        BY <4>1, ListConcat DEF Join
      <4>3. flat[k + 1] = Join(flat[k], seqs[k + 1])
        BY <3>1, <3>3, <2>4
      <4> QED
        BY <3>1, <4>2, <4>3
    <3> QED
      BY <3>2, <3>3
  <2> HIDE DEF Good
  <2>7. n \in Good
    BY <2>1, <2>5, <2>6, CountUp
  <2> QED
    BY <2>1, <2>2, <2>7 DEF Good
<1> QED
  BY <1>1, <1>2

(* Leaving out what was seen. *)
See(seen, x) == IF x \in ToSet(seen) THEN seen ELSE Append(seen, x)

IsFold(f, n, seq) ==
    f = [s \in SUBSET (1 .. n) |->
            IF s = {} THEN <<>> ELSE See(f[s \ {Max(s)}], seq[Max(s)])]

LEMMA MaxIs ==
    ASSUME NEW n \in Nat, NEW s \in SUBSET (1 .. n), n \in s
    PROVE  Max(s) = n
<1>1. \A y \in s : n >= y
  OBVIOUS
<1>2. \E x \in s : \A y \in s : x >= y
  BY <1>1
<1>3. Max(s) \in s /\ \A y \in s : Max(s) >= y
  BY <1>2 DEF Max
<1>4. PICK m : m = Max(s)
  OBVIOUS
<1>5. m \in s /\ m >= n
  BY <1>3, <1>4
<1>6. m \in 1 .. n
  BY <1>5
<1>7. m = n
  BY <1>5, <1>6
<1> QED
  BY <1>4, <1>7

LEMMA FoldExists ==
    ASSUME NEW seq, NEW n \in Nat
    PROVE  \E f : IsFold(f, n, seq)
<1> DEFINE Good == {k \in 0 .. n : \E f : IsFold(f, k, seq)}
<1>1. 0 \in Good
  <2> DEFINE f == [s \in SUBSET (1 .. 0) |-> <<>>]
  <2>1. \A s \in SUBSET (1 .. 0) : s = {}
    OBVIOUS
  <2>2. IsFold(f, 0, seq)
    BY <2>1 DEF IsFold
  <2> QED
    BY <2>2
<1>2. ASSUME NEW k \in 0 .. n - 1, k \in Good
      PROVE  k + 1 \in Good
  <2>1. PICK f : IsFold(f, k, seq)
    BY <1>2
  <2> DEFINE next(s) == See(f[s \ {k + 1}], seq[k + 1])
             g == [s \in SUBSET (1 .. k + 1) |-> IF k + 1 \in s THEN next(s) ELSE f[s]]
  <2>2. /\ g = [s \in SUBSET (1 .. k + 1) |-> g[s]]
        /\ \A s \in SUBSET (1 .. k + 1) : g[s] = IF k + 1 \in s THEN next(s) ELSE f[s]
    OBVIOUS
  <2> HIDE DEF g
  <2>3. \A s \in SUBSET (1 .. k) :
           f[s] = IF s = {} THEN <<>> ELSE See(f[s \ {Max(s)}], seq[Max(s)])
    BY <2>1 DEF IsFold
  <2>4. ASSUME NEW s \in SUBSET (1 .. k)
        PROVE  s \in SUBSET (1 .. k + 1) /\ k + 1 \notin s /\ g[s] = f[s]
    <3>1. s \in SUBSET (1 .. k + 1) /\ k + 1 \notin s
      OBVIOUS
    <3> QED
      BY <3>1, <2>2
  <2>5. ASSUME NEW s \in SUBSET (1 .. k + 1)
        PROVE  g[s] = IF s = {} THEN <<>> ELSE See(g[s \ {Max(s)}], seq[Max(s)])
    <3>1. CASE k + 1 \in s
      <4>1. Max(s) = k + 1 /\ s # {}
        BY <3>1, MaxIs
      <4>2. s \ {k + 1} \in SUBSET (1 .. k)
        OBVIOUS
      <4>3. g[s \ {k + 1}] = f[s \ {k + 1}]
        BY <4>2, <2>4
      <4>4. g[s] = next(s)
        BY <3>1, <2>2
      <4> QED
        BY <4>1, <4>3, <4>4
    <3>2. CASE k + 1 \notin s
      <4>1. s \in SUBSET (1 .. k) /\ s \ {Max(s)} \in SUBSET (1 .. k)
        <5>1. \A i \in s : i \in 1 .. k
          BY <3>2
        <5> QED
          BY <5>1
      <4>2. g[s] = f[s] /\ g[s \ {Max(s)}] = f[s \ {Max(s)}]
        BY <4>1, <2>4
      <4> QED
        BY <4>1, <4>2, <2>3
    <3> QED
      BY <3>1, <3>2
  <2>6. IsFold(g, k + 1, seq)
    BY <2>2, <2>5 DEF IsFold
  <2> QED
    BY <2>6
<1> HIDE DEF Good
<1>3. n \in Good
  BY <1>1, <1>2, CountUp
<1> QED
  BY <1>3 DEF Good

LEMMA FirstOnlyList ==
    ASSUME NEW seq, IsList(seq)
    PROVE  IsList(FirstOnly(seq))
<1>1. PICK n \in Nat : n = Len(seq) /\ DOMAIN seq = 1 .. n
  BY ListTyped DEF IsList
<1> DEFINE fold == CHOOSE f : IsFold(f, n, seq)
<1>2. FirstOnly(seq) = fold[1 .. n]
  BY <1>1 DEF FirstOnly, FoldLeft, MapThenFoldSet, IsFold, See
<1>3. IsFold(fold, n, seq)
  BY FoldExists
<1> HIDE DEF fold
<1>4. \A s \in SUBSET (1 .. n) :
         fold[s] = IF s = {} THEN <<>> ELSE See(fold[s \ {Max(s)}], seq[Max(s)])
  BY <1>3 DEF IsFold
<1> DEFINE Good == {k \in 0 .. n : IsList(fold[1 .. k])}
<1>5. 0 \in Good
  <2>1. 1 .. 0 = {} /\ IsList(<<>>)
    BY DEF IsList
  <2>2. 1 .. 0 \in SUBSET (1 .. n)
    BY <2>1
  <2>3. fold[1 .. 0] = <<>>
    BY <2>1, <2>2, <1>4
  <2> QED
    BY <2>1, <2>3
<1>6. ASSUME NEW k \in 0 .. n - 1, k \in Good
      PROVE  k + 1 \in Good
  <2>1. PICK s : s = 1 .. k + 1
    OBVIOUS
  <2>2. s \in SUBSET (1 .. n) /\ s # {} /\ s \ {k + 1} = 1 .. k /\ Max(s) = k + 1
    <3>1. s \in SUBSET (1 .. k + 1) /\ k + 1 \in s /\ k + 1 \in Nat
      BY <2>1
    <3>2. Max(s) = k + 1
      BY <3>1, MaxIs
    <3>3. \A i \in s : i \in 1 .. n
      BY <2>1
    <3>4. s \ {k + 1} = 1 .. k
      BY <2>1
    <3> QED
      BY <3>1, <3>2, <3>3, <3>4
  <2>3. fold[s] = See(fold[1 .. k], seq[k + 1])
    BY <1>4, <2>2
  <2>4. PICK seen : seen = fold[1 .. k] /\ IsList(seen)
    BY <1>6
  <2>5. IsList(See(seen, seq[k + 1]))
    BY <2>4, ListAppend DEF See
  <2> QED
    BY <2>1, <2>3, <2>4, <2>5
<1> HIDE DEF Good
<1>7. n \in Good
  BY <1>5, <1>6, CountUp
<1> QED
  BY <1>2, <1>7 DEF Good

Slice(s, done, m) == [j \in 1 .. m |-> s[done + j]]

LEMMA SliceIsList ==
    ASSUME NEW s, NEW done \in Nat, NEW m \in Nat
    PROVE  /\ IsList(Slice(s, done, m)) /\ Len(Slice(s, done, m)) = m
           /\ DOMAIN Slice(s, done, m) = 1 .. m
           /\ \A j \in 1 .. m : Slice(s, done, m)[j] = s[done + j]
<1> DEFINE t == Slice(s, done, m)
<1>1. t = [j \in 1 .. m |-> t[j]] /\ \A j \in 1 .. m : t[j] = s[done + j]
  BY DEF Slice
<1> HIDE DEF t
<1>2. IsList(t) /\ Len(t) = m /\ DOMAIN t = 1 .. m
  BY <1>1, ListOf
<1> QED
  BY <1>1, <1>2 DEF t

LEMMA SliceGrows ==
    ASSUME NEW s, NEW done \in Nat, NEW m \in Nat
    PROVE  Append(Slice(s, done, m), s[done + m + 1]) = Slice(s, done, m + 1)
<1>1. PICK t : t = Slice(s, done, m)
  OBVIOUS
<1>2. PICK x : x = s[done + m + 1]
  OBVIOUS
<1>3. PICK u : u = Slice(s, done, m + 1)
  OBVIOUS
<1>4. IsList(t) /\ Len(t) = m /\ \A j \in 1 .. m : t[j] = s[done + j]
  BY <1>1, SliceIsList
<1>5. u = [j \in 1 .. m + 1 |-> u[j]] /\ \A j \in 1 .. m + 1 : u[j] = s[done + j]
  BY <1>3 DEF Slice
<1>6. PICK a : a = Append(t, x)
  OBVIOUS
<1>7. /\ IsList(a) /\ Len(a) = m + 1 /\ a[m + 1] = x
      /\ \A j \in 1 .. m : a[j] = t[j]
  BY <1>4, <1>6, ListAppend
<1>8. a = [j \in 1 .. m + 1 |-> a[j]]
  BY <1>7 DEF IsList
<1>9. ASSUME NEW j \in 1 .. m + 1
      PROVE  a[j] = u[j]
  <2>1. CASE j = m + 1
    <3>1. done + j = done + m + 1 /\ u[j] = s[done + j] /\ a[j] = x
      BY <2>1, <1>5, <1>7
    <3> QED
      BY <3>1, <1>2
  <2>2. CASE j # m + 1
    BY <2>2, <1>4, <1>5, <1>7
  <2> QED
    BY <2>1, <2>2
<1>10. a = u
  BY <1>5, <1>8, <1>9
<1> QED
  BY <1>1, <1>2, <1>3, <1>6, <1>10

-----------------------------------------------------------------------------
(* Plans. *)

IsTask(t) == {"id", "type", "deps"} \subseteq DOMAIN t

Told(plan) == \A i, j \in DOMAIN plan : plan[i].id = plan[j].id => i = j

(* What is left behind a prefix is the rest of the list. *)
LEMMA LeftIsSlice ==
    ASSUME NEW plan, IsList(plan), Told(plan), NEW done \in 0 .. Len(plan)
    PROVE  LeftOf(plan, {plan[i].id : i \in 1 .. done}) = Slice(plan, done, Len(plan) - done)
<1>1. PICK n \in Nat : n = Len(plan) /\ DOMAIN plan = 1 .. n
  BY ListTyped
<1>2. PICK completed : completed = {plan[i].id : i \in 1 .. done}
  OBVIOUS
<1>3. \A i \in 1 .. n : plan[i].id \in completed <=> i <= done
  BY <1>1, <1>2 DEF Told
<1> DEFINE Next1(f, i) == IF plan[i].id \in completed THEN f[i - 1] ELSE Append(f[i - 1], plan[i])
           Eq(f) == f = [i \in 0 .. n |-> IF i = 0 THEN <<>> ELSE Next1(f, i)]
           left == CHOOSE f : Eq(f)
           rest == [i \in 0 .. n |-> IF i <= done THEN <<>> ELSE Slice(plan, done, i - done)]
<1>4. LeftOf(plan, completed) = left[n]
  BY <1>1 DEF LeftOf
<1>5. Slice(plan, done, 0) = <<>>
  BY DEF Slice
<1>6. ASSUME NEW i \in 1 .. n, i > done
      PROVE  Append(Slice(plan, done, i - 1 - done), plan[i]) = Slice(plan, done, i - done)
  <2>1. PICK m \in Nat : m = i - 1 - done
    BY <1>1, <1>6
  <2>2. done + m + 1 = i /\ m + 1 = i - done
    BY <1>1, <2>1
  <2>3. Append(Slice(plan, done, m), plan[done + m + 1]) = Slice(plan, done, m + 1)
    BY SliceGrows
  <2> QED
    BY <2>1, <2>2, <2>3
<1>7. \A i \in 0 .. n : rest[i] = IF i = 0 THEN <<>> ELSE Next1(rest, i)
  <2>1. rest[0] = <<>>
    BY <1>1
  <2>2. ASSUME NEW i \in 1 .. n
        PROVE  rest[i] = Next1(rest, i)
    <3>1. i - 1 \in 0 .. n
      BY <1>1
    <3>2. CASE i <= done
      <4>1. rest[i - 1] = <<>> /\ rest[i] = <<>>
        BY <3>1, <3>2, <1>1
      <4> HIDE DEF rest
      <4> QED
        BY <4>1, <3>2, <1>3
    <3>3. CASE i > done
      <4>1. rest[i - 1] = Slice(plan, done, i - 1 - done)
        <5>1. CASE i - 1 = done
          <6>1. i - 1 - done = 0 /\ rest[i - 1] = <<>>
            BY <5>1, <3>1, <1>1
          <6> QED
            BY <6>1, <1>5
        <5>2. CASE i - 1 # done
          BY <5>2, <3>1, <3>3, <1>1
        <5> QED
          BY <5>1, <5>2
      <4>2. rest[i] = Slice(plan, done, i - done)
        BY <3>3, <1>1
      <4> HIDE DEF rest
      <4>3. ~(plan[i].id \in completed)
        BY <3>3, <1>1, <1>3
      <4> QED
        BY <4>1, <4>2, <4>3, <3>3, <1>6
    <3> QED
      BY <3>2, <3>3, <1>1
  <2> HIDE DEF rest, Next1
  <2> QED
    BY <2>1, <2>2, <1>1
<1>8. rest = [i \in 0 .. n |-> rest[i]]
  OBVIOUS
<1>9. Eq(rest)
  <2> HIDE DEF rest
  <2> QED
    BY <1>7, <1>8
<1>10. Eq(left)
  <2> HIDE DEF Eq
  <2> QED
    BY <1>9
<1> HIDE DEF left
<1>11. \A i \in 0 .. n : left[i] = IF i = 0 THEN <<>> ELSE Next1(left, i)
  BY <1>10
<1>12. rest[n] = Slice(plan, done, n - done)
  BY <1>1, <1>5
<1> HIDE DEF rest, Eq
<1> DEFINE Good == {i \in 0 .. n : left[i] = rest[i]}
<1>13. 0 \in Good
  BY <1>7, <1>11
<1>14. ASSUME NEW k \in 0 .. n - 1, k \in Good
       PROVE  k + 1 \in Good
  <2>1. PICK i \in 1 .. n : i = k + 1 /\ i - 1 = k
    BY <1>1
  <2>2. left[i] = Next1(left, i) /\ rest[i] = Next1(rest, i)
    BY <1>7, <1>11
  <2>3. left[i - 1] = rest[i - 1]
    BY <1>14, <2>1
  <2> QED
    BY <2>1, <2>2, <2>3
<1> HIDE DEF Good
<1>15. n \in Good
  BY <1>1, <1>13, <1>14, CountUp
<1> QED
  BY <1>1, <1>2, <1>4, <1>12, <1>15 DEF Good

(* What a plan keeps to, from planning to the successor of its successor.   *)
Sound(plan) ==
    /\ IsList(plan) /\ Told(plan) /\ \A i \in DOMAIN plan : IsTask(plan[i])
    /\ IsChain(plan)
    /\ plan # <<>> => Last(plan).type = "verify"

LEMMA EmptySound == Sound(<<>>)
BY DEF Sound, IsList, Told, IsChain

SoundUpTo(plan, n) ==
    /\ \A i, j \in 1 .. n : plan[i].id = plan[j].id => i = j
    /\ \A i \in 1 .. n : IsTask(plan[i])
    /\ \A i \in 1 .. n : \A d \in plan[i].deps : \E j \in 1 .. i - 1 : d = plan[j].id
    /\ \A i \in 2 .. n : plan[i - 1].id \in plan[i].deps
    /\ n # 0 => plan[n].type = "verify"

(* A list is sound when its tasks are, one after the other. *)
LEMMA SoundSays ==
    ASSUME NEW plan, NEW n \in Nat \ {0}, IsList(plan), Len(plan) = n, SoundUpTo(plan, n)
    PROVE  Sound(plan)
<1>1. DOMAIN plan = 1 .. n
  BY ListTyped
<1>2. IsChain(plan)
  <2>1. \A i \in 1 .. n : plan[i].deps \subseteq {plan[j].id : j \in 1 .. i - 1}
    BY DEF SoundUpTo
  <2>2. \A i \in 1 .. n : i > 1 => i \in 2 .. n
    OBVIOUS
  <2> QED
    BY <1>1, <2>1, <2>2 DEF IsChain, SoundUpTo
<1>3. Last(plan) = plan[n]
  BY DEF Last
<1> QED
  BY <1>1, <1>2, <1>3 DEF Sound, Told, SoundUpTo

LEMMA SoundTells ==
    ASSUME NEW plan, Sound(plan)
    PROVE  \E n \in Nat : n = Len(plan) /\ DOMAIN plan = 1 .. n /\ SoundUpTo(plan, n)
<1>1. PICK n \in Nat : n = Len(plan)
  BY DEF Sound, IsList
<1>2. DOMAIN plan = 1 .. n /\ IsList(plan)
  BY <1>1, ListTyped DEF Sound
<1>3. \A i, j \in 1 .. n : plan[i].id = plan[j].id => i = j
  BY <1>2 DEF Sound, Told
<1>4. \A i \in 1 .. n : IsTask(plan[i])
  BY <1>2 DEF Sound
<1>5. ASSUME NEW i \in 1 .. n
      PROVE  /\ plan[i].deps \subseteq {plan[j].id : j \in 1 .. i - 1}
             /\ i > 1 => plan[i - 1].id \in plan[i].deps
  BY <1>2 DEF Sound, IsChain
<1>6. \A i \in 1 .. n : \A d \in plan[i].deps : \E j \in 1 .. i - 1 : d = plan[j].id
  BY <1>5
<1>7. ASSUME NEW i \in 2 .. n
      PROVE  plan[i - 1].id \in plan[i].deps
  <2>1. i \in 1 .. n /\ i > 1
    OBVIOUS
  <2> QED
    BY <2>1, <1>5
<1>8. n # 0 => plan[n].type = "verify"
  <2>1. n # 0 => plan # <<>>
    BY <1>2
  <2>2. Last(plan) = plan[n]
    BY <1>1 DEF Last
  <2> QED
    BY <2>1, <2>2 DEF Sound
<1>9. SoundUpTo(plan, n)
  BY <1>3, <1>4, <1>6, <1>7, <1>8 DEF SoundUpTo
<1> QED
  BY <1>1, <1>2, <1>9

RoutedBy(plan, chosen) ==
    [i \in DOMAIN plan |-> [id |-> plan[i].id, type |-> plan[i].type,
                            deps |-> plan[i].deps, cap |-> chosen[i]]]

LEMMA RoutedSound ==
    ASSUME NEW plan, Sound(plan), NEW chosen
    PROVE  Sound(RoutedBy(plan, chosen)) /\ Len(RoutedBy(plan, chosen)) = Len(plan)
<1>0. PICK routed : routed = RoutedBy(plan, chosen)
  OBVIOUS
<1>1. PICK n \in Nat : n = Len(plan) /\ DOMAIN plan = 1 .. n /\ SoundUpTo(plan, n)
  BY SoundTells
<1>2. /\ DOMAIN plan = 1 .. n
      /\ \A i, j \in 1 .. n : plan[i].id = plan[j].id => i = j
      /\ \A i \in 1 .. n : \A d \in plan[i].deps : \E j \in 1 .. i - 1 : d = plan[j].id
      /\ \A i \in 2 .. n : plan[i - 1].id \in plan[i].deps
      /\ n # 0 => plan[n].type = "verify"
  BY <1>1 DEF SoundUpTo
<1>3. ASSUME NEW i \in 1 .. n
      PROVE  /\ routed[i].id = plan[i].id /\ routed[i].type = plan[i].type
             /\ routed[i].deps = plan[i].deps /\ IsTask(routed[i])
  <2>1. PICK a, b, c, d : a = plan[i].id /\ b = plan[i].type /\ c = plan[i].deps /\ d = chosen[i]
    OBVIOUS
  <2>2. routed[i] = [id |-> a, type |-> b, deps |-> c, cap |-> d]
    BY <2>1, <1>0, <1>2 DEF RoutedBy
  <2>3. /\ routed[i].id = a /\ routed[i].type = b /\ routed[i].deps = c
        /\ DOMAIN routed[i] = {"id", "type", "deps", "cap"}
    BY <2>2
  <2> QED
    BY <2>1, <2>3 DEF IsTask
<1>4. routed = [i \in 1 .. n |-> routed[i]]
  BY <1>0, <1>2 DEF RoutedBy
<1>5. IsList(routed) /\ Len(routed) = n
  BY <1>4, ListOf
<1>6. CASE n = 0
  <2>1. routed = <<>>
    BY <1>4, <1>6
  <2> QED
    BY <2>1, <1>0, <1>1, <1>5, <1>6, EmptySound
<1>7. CASE n # 0
  <2>1. n \in Nat \ {0} /\ n \in 1 .. n
    BY <1>7
  <2>2. \A i, j \in 1 .. n : routed[i].id = routed[j].id => i = j
    BY <1>2, <1>3
  <2>3. ASSUME NEW i \in 1 .. n, NEW d \in routed[i].deps
        PROVE  \E j \in 1 .. i - 1 : d = routed[j].id
    <3>1. PICK j \in 1 .. i - 1 : d = plan[j].id
      BY <1>2, <1>3
    <3>2. j \in 1 .. n
      OBVIOUS
    <3> QED
      BY <3>1, <3>2, <1>3
  <2>4. ASSUME NEW i \in 2 .. n
        PROVE  routed[i - 1].id \in routed[i].deps
    <3>1. i \in 1 .. n /\ i - 1 \in 1 .. n
      OBVIOUS
    <3> QED
      BY <3>1, <1>2, <1>3
  <2>5. routed[n].type = "verify"
    BY <2>1, <1>2, <1>3
  <2>6. SoundUpTo(routed, n)
    BY <2>2, <2>3, <2>4, <2>5, <1>3 DEF SoundUpTo
  <2>7. Sound(routed)
    BY <2>1, <2>6, <1>5, SoundSays
  <2> QED
    BY <2>7, <1>0, <1>1, <1>5
<1> QED
  BY <1>0, <1>6, <1>7

LEMMA ReplanSound ==
    ASSUME NEW plan, Sound(plan), NEW done \in 0 .. Len(plan)
    PROVE  Sound(Replan(plan, {plan[i].id : i \in 1 .. done}))
<1>1. PICK n \in Nat : n = Len(plan) /\ DOMAIN plan = 1 .. n /\ SoundUpTo(plan, n)
  BY SoundTells
<1>2. /\ DOMAIN plan = 1 .. n
      /\ \A i, j \in 1 .. n : plan[i].id = plan[j].id => i = j
      /\ \A i \in 1 .. n : IsTask(plan[i])
      /\ \A i \in 1 .. n : \A d \in plan[i].deps : \E j \in 1 .. i - 1 : d = plan[j].id
      /\ \A i \in 2 .. n : plan[i - 1].id \in plan[i].deps
      /\ n # 0 => plan[n].type = "verify"
  BY <1>1 DEF SoundUpTo
<1>3. PICK completed : completed = {plan[i].id : i \in 1 .. done}
  OBVIOUS
<1>4. PICK kept : kept = Slice(plan, done, n - done)
  OBVIOUS
<1>5. PICK m \in Nat : m = n - done /\ done \in Nat /\ done \in 0 .. n
  <2>1. n - done \in Nat /\ done \in Nat /\ done \in 0 .. n
    BY <1>1
  <2> QED
    BY <2>1
<1>6. LeftOf(plan, completed) = kept
  BY <1>1, <1>3, <1>4, LeftIsSlice DEF Sound
<1>7. DOMAIN kept = 1 .. m /\ \A j \in 1 .. m : kept[j] = plan[done + j]
  BY <1>4, <1>5, SliceIsList
<1>8. PICK next : next = Replan(plan, completed)
  OBVIOUS
<1>9. next = [i \in 1 .. m |-> [kept[i] EXCEPT !.deps = @ \ completed]]
  BY <1>6, <1>7, <1>8 DEF Replan
<1>10. ASSUME NEW i \in 1 .. m
       PROVE  /\ done + i \in 1 .. n
              /\ next[i].id = plan[done + i].id /\ next[i].type = plan[done + i].type
              /\ next[i].deps = plan[done + i].deps \ completed /\ IsTask(next[i])
  <2>1. done + i \in 1 .. n
    BY <1>5
  <2>2. PICK t : t = plan[done + i] /\ kept[i] = t /\ IsTask(t)
    BY <2>1, <1>2, <1>7
  <2>3. next[i] = [t EXCEPT !.deps = @ \ completed]
    BY <2>2, <1>9
  <2>4. /\ next[i].id = t.id /\ next[i].type = t.type /\ next[i].deps = t.deps \ completed
        /\ IsTask(next[i])
    BY <2>2, <2>3 DEF IsTask
  <2> QED
    BY <2>1, <2>2, <2>4
<1>11. next = [i \in 1 .. m |-> next[i]]
  BY <1>9
<1>12. IsList(next) /\ Len(next) = m
  BY <1>11, ListOf
<1>13. Sound(next)
  <2>1. CASE m = 0
    <3>1. next = <<>>
      BY <2>1, <1>11
    <3> QED
      BY <3>1, EmptySound
  <2>2. CASE m # 0
    <3>1. m \in Nat \ {0} /\ m \in 1 .. m /\ done + m = n /\ n # 0
      BY <2>2, <1>5
    <3>2. ASSUME NEW i \in 1 .. m, NEW j \in 1 .. m, next[i].id = next[j].id
          PROVE  i = j
      <4>1. done + i = done + j
        <5>1. done + i \in 1 .. n /\ done + j \in 1 .. n
          BY <1>10
        <5>2. plan[done + i].id = plan[done + j].id
          BY <3>2, <1>10
        <5> QED
          BY <5>1, <5>2, <1>2
      <4> QED
        BY <4>1, <1>5
    <3>3. ASSUME NEW i \in 1 .. m, NEW d \in next[i].deps
          PROVE  \E j \in 1 .. i - 1 : d = next[j].id
      <4>1. d \in plan[done + i].deps /\ d \notin completed /\ done + i \in 1 .. n
        BY <1>10
      <4>2. PICK k \in 1 .. (done + i) - 1 : d = plan[k].id
        BY <4>1, <1>2
      <4>3. ~(k \in 1 .. done)
        BY <4>1, <4>2, <1>3
      <4>4. PICK j \in 1 .. i - 1 : done + j = k
        <5>1. k - done \in 1 .. i - 1 /\ done + (k - done) = k
          BY <4>2, <4>3, <1>5
        <5> QED
          BY <5>1
      <4>5. j \in 1 .. m
        OBVIOUS
      <4> QED
        BY <4>2, <4>4, <4>5, <1>10
    <3>4. ASSUME NEW i \in 2 .. m
          PROVE  next[i - 1].id \in next[i].deps
      <4>1. i \in 1 .. m /\ i - 1 \in 1 .. m
        OBVIOUS
      <4>2. PICK k \in 2 .. n : k = done + i /\ k - 1 = done + (i - 1) /\ k - 1 \in 1 .. n
        BY <4>1, <1>10, <1>5
      <4>3. plan[k - 1].id \in plan[k].deps
        BY <4>2, <1>2
      <4>4. plan[k - 1].id \notin completed
        <5> SUFFICES ASSUME NEW l \in 1 .. done, plan[k - 1].id = plan[l].id
                     PROVE  FALSE
          BY <1>3
        <5>1. l \in 1 .. n /\ k - 1 # l
          BY <4>2, <1>5
        <5> QED
          BY <5>1, <4>2, <1>2
      <4>5. next[i].deps = plan[k].deps \ completed /\ next[i - 1].id = plan[k - 1].id
        BY <4>1, <4>2, <1>10
      <4> QED
        BY <4>3, <4>4, <4>5
    <3>5. next[m].type = "verify"
      BY <3>1, <1>2, <1>10
    <3>6. \A i \in 1 .. m : IsTask(next[i])
      BY <1>10
    <3>7. SoundUpTo(next, m)
      BY <3>2, <3>3, <3>4, <3>5, <3>6 DEF SoundUpTo
    <3> QED
      BY <3>1, <3>7, <1>12, SoundSays
  <2> QED
    BY <2>1, <2>2
<1> QED
  BY <1>3, <1>8, <1>13

LEMMA PlanOfSound ==
    ASSUME NEW intent, IsList(intent.goals), Plannable(intent), NEW budget
    PROVE  Sound(PlanOf(intent, budget))
<1>1. PICK n \in Nat \ {0} : n = Len(intent.goals)
  <2>1. Len(intent.goals) \in Nat
    BY DEF IsList
  <2>2. Len(intent.goals) # 0
    <3>1. PICK goals : goals = intent.goals
      OBVIOUS
    <3>2. IsList(goals) /\ goals # <<>>
      BY <3>1 DEF Plannable
    <3>3. Len(goals) = 0 => goals = <<>>
      BY <3>2 DEF IsList
    <3> QED
      BY <3>1, <3>2, <3>3
  <2> QED
    BY <2>1, <2>2
<1>2. PICK types : types = [i \in 1 .. n |-> Classify(intent.goals[i])]
  OBVIOUS
<1>3. PICK gathers \in BOOLEAN : gathers <=> intent.refs # {} /\ budget.gather
  OBVIOUS
<1> DEFINE first == IF gathers THEN {0} ELSE {}
           front == IF gathers THEN << [id |-> 0, type |-> "research", deps |-> {}] >> ELSE <<>>
           goals == [i \in 1 .. n |->
                        [id |-> i, type |-> types[i], deps |-> IF i = 1 THEN first ELSE {i - 1}]]
           back == << [id |-> n + 1, type |-> "verify", deps |-> 1 .. n] >>
           plan == front \o goals \o back
           f == IF gathers THEN 1 ELSE 0
<1>4. PlanOf(intent, budget) = plan
  <2>1. CASE gathers
    BY <1>1, <1>2, <1>3, <2>1 DEF PlanOf
  <2>2. CASE ~gathers
    BY <1>1, <1>2, <1>3, <2>2 DEF PlanOf
  <2> QED
    BY <2>1, <2>2
<1>5. IsList(front) /\ Len(front) = f /\ f \in {0, 1}
  BY DEF IsList
<1>6. IsList(goals) /\ Len(goals) = n
  <2>1. goals = [i \in 1 .. n |-> goals[i]]
    OBVIOUS
  <2> HIDE DEF goals
  <2> QED
    BY <2>1, ListOf
<1>7. IsList(back) /\ Len(back) = 1
  BY DEF IsList
<1>8. f = 1 => front[1] = [id |-> 0, type |-> "research", deps |-> {}]
  OBVIOUS
<1>9. \A i \in 1 .. n :
         goals[i] = [id |-> i, type |-> types[i], deps |-> IF i = 1 THEN first ELSE {i - 1}]
  OBVIOUS
<1>10. back[1] = [id |-> n + 1, type |-> "verify", deps |-> 1 .. n]
  OBVIOUS
<1>11. first = IF f = 1 THEN {0} ELSE {}
  OBVIOUS
<1> HIDE DEF front, goals, back, first, f
<1>12. PICK l \in Nat \ {0} : l = f + n + 1
  BY <1>5
<1>13. /\ IsList(front \o goals) /\ Len(front \o goals) = f + n
       /\ \A i \in 1 .. f + n :
             (front \o goals)[i] = IF i <= f THEN front[i] ELSE goals[i - f]
  BY <1>5, <1>6, ListConcat
<1>14. /\ IsList(plan) /\ Len(plan) = l
       /\ \A i \in 1 .. l :
             plan[i] = IF i <= f + n THEN (front \o goals)[i] ELSE back[i - (f + n)]
  <2>1. PICK s : s = front \o goals
    OBVIOUS
  <2>2. /\ IsList(s \o back) /\ Len(s \o back) = f + n + 1
        /\ \A i \in 1 .. f + n + 1 :
              (s \o back)[i] = IF i <= f + n THEN s[i] ELSE back[i - (f + n)]
    <3>1. IsList(s) /\ Len(s) = f + n /\ IsList(back) /\ Len(back) = 1
      BY <2>1, <1>7, <1>13
    <3>2. /\ IsList(s \o back) /\ Len(s \o back) = Len(s) + Len(back)
          /\ \A i \in 1 .. Len(s) + Len(back) :
                (s \o back)[i] = IF i <= Len(s) THEN s[i] ELSE back[i - Len(s)]
      BY <3>1, ListConcat
    <3> QED
      BY <3>1, <3>2
  <2> QED
    BY <2>1, <2>2, <1>12
<1> HIDE DEF plan
<1>15. f = 1 => plan[1] = [id |-> 0, type |-> "research", deps |-> {}]
  <2>1. f = 1 => 1 \in 1 .. f + n /\ 1 \in 1 .. l /\ 1 <= f
    BY <1>12
  <2> QED
    BY <2>1, <1>8, <1>13, <1>14
<1>16. ASSUME NEW i \in 1 .. n
       PROVE  /\ plan[f + i].id = i /\ plan[f + i].deps = IF i = 1 THEN first ELSE {i - 1}
              /\ IsTask(plan[f + i])
  <2>1. PICK k \in 1 .. l : k = f + i /\ k \in 1 .. f + n /\ ~(k <= f) /\ k - f = i /\ k <= f + n
    BY <1>5, <1>12
  <2>2. plan[k] = goals[i]
    BY <2>1, <1>13, <1>14
  <2>3. PICK type, deps : type = types[i] /\ deps = IF i = 1 THEN first ELSE {i - 1}
    OBVIOUS
  <2>4. plan[k] = [id |-> i, type |-> type, deps |-> deps]
    BY <2>2, <2>3, <1>9
  <2>5. plan[k].id = i /\ plan[k].deps = deps /\ IsTask(plan[k])
    BY <2>4 DEF IsTask
  <2> QED
    BY <2>1, <2>3, <2>5
<1>17. plan[l] = [id |-> n + 1, type |-> "verify", deps |-> 1 .. n]
  <2>1. l \in 1 .. l /\ ~(l <= f + n) /\ l - (f + n) = 1
    BY <1>5, <1>12
  <2> QED
    BY <2>1, <1>10, <1>14
<1>18. ASSUME NEW i \in 1 .. l
       PROVE  /\ plan[i].id = IF f = 1 THEN i - 1 ELSE i
              /\ IsTask(plan[i])
  <2>1. CASE f = 1 /\ i = 1
    BY <2>1, <1>15 DEF IsTask
  <2>2. CASE i = l
    BY <2>2, <1>5, <1>12, <1>17 DEF IsTask
  <2>3. CASE i # l /\ ~(f = 1 /\ i = 1)
    <3>1. PICK g \in 1 .. n : i = f + g
      <4>1. i - f \in 1 .. n /\ i = f + (i - f)
        BY <2>3, <1>5, <1>12
      <4> QED
        BY <4>1
    <3>2. plan[i].id = g /\ IsTask(plan[i])
      BY <3>1, <1>16
    <3> QED
      BY <3>1, <3>2, <1>5
  <2> QED
    BY <2>1, <2>2, <2>3
<1>19. \A i, j \in 1 .. l : plan[i].id = plan[j].id => i = j
  BY <1>18
<1>20. ASSUME NEW i \in 1 .. l, NEW d \in plan[i].deps
       PROVE  \E j \in 1 .. i - 1 : d = plan[j].id
  <2>1. CASE f = 1 /\ i = 1
    BY <2>1, <1>15
  <2>2. CASE i = l
    <3>1. d \in 1 .. n
      BY <2>2, <1>17
    <3>2. f + d \in 1 .. i - 1 /\ f + d \in 1 .. l
      BY <2>2, <3>1, <1>5, <1>12
    <3>3. plan[f + d].id = d
      BY <3>1, <3>2, <1>5, <1>18
    <3> QED
      BY <3>2, <3>3
  <2>3. CASE i # l /\ ~(f = 1 /\ i = 1)
    <3>1. PICK g \in 1 .. n : i = f + g
      <4>1. i - f \in 1 .. n /\ i = f + (i - f)
        BY <2>3, <1>5, <1>12
      <4> QED
        BY <4>1
    <3>2. plan[i].deps = IF g = 1 THEN first ELSE {g - 1}
      BY <3>1, <1>16
    <3>3. d = g - 1 /\ i - 1 \in 1 .. i - 1 /\ i - 1 \in 1 .. l
      <4>1. CASE g = 1
        <5>1. f = 1 /\ d = 0
          BY <4>1, <3>2, <1>11
        <5> QED
          BY <5>1, <4>1, <3>1, <1>12
      <4>2. CASE g # 1
        BY <4>2, <3>1, <3>2, <1>5, <1>12
      <4> QED
        BY <4>1, <4>2
    <3>4. plan[i - 1].id = g - 1
      BY <3>1, <3>3, <1>5, <1>18
    <3> QED
      BY <3>3, <3>4
  <2> QED
    BY <2>1, <2>2, <2>3
<1>21. ASSUME NEW i \in 2 .. l
       PROVE  plan[i - 1].id \in plan[i].deps
  <2>1. i \in 1 .. l /\ i - 1 \in 1 .. l
    BY <1>12
  <2>2. plan[i - 1].id = IF f = 1 THEN i - 2 ELSE i - 1
    BY <2>1, <1>18
  <2>3. CASE i = l
    <3>1. plan[i - 1].id = n
      BY <2>2, <2>3, <1>5, <1>12
    <3>2. n \in 1 .. n
      OBVIOUS
    <3> QED
      BY <3>1, <3>2, <2>3, <1>17
  <2>4. CASE i # l
    <3>1. PICK g \in 1 .. n : i = f + g
      <4>1. i - f \in 1 .. n /\ i = f + (i - f)
        BY <2>4, <1>5, <1>12
      <4> QED
        BY <4>1
    <3>2. plan[i].deps = IF g = 1 THEN first ELSE {g - 1}
      BY <3>1, <1>16
    <3>3. g = 1 => f = 1
      BY <3>1, <1>5
    <3>4. plan[i - 1].id = g - 1
      BY <2>2, <3>1, <1>5
    <3> QED
      BY <3>2, <3>3, <3>4, <1>11
  <2> QED
    BY <2>3, <2>4
<1>22. SoundUpTo(plan, l)
  <2>1. \A i \in 1 .. l : IsTask(plan[i])
    BY <1>18
  <2>2. plan[l].type = "verify"
    BY <1>17
  <2> QED
    BY <2>1, <2>2, <1>19, <1>20, <1>21 DEF SoundUpTo
<1> QED
  BY <1>4, <1>14, <1>22, SoundSays

(* What the intent engine finds is a list of goals. *)
LEMMA ParseLists ==
    ASSUME NEW objective \in Objectives
    PROVE  IsList(Parse(objective).goals)
<1>1. PICK clauses : clauses = objective.clauses
  OBVIOUS
<1>2. IsList(clauses) /\ \A i \in DOMAIN clauses : IsList(clauses[i].goals)
  BY <1>1, ObjectivesAssumption
<1>3. PICK n \in Nat : n = Len(clauses) /\ DOMAIN clauses = 1 .. n
  BY <1>2, ListTyped
<1> DEFINE said == [i \in DOMAIN clauses |-> IF IsGoals(clauses[i]) THEN clauses[i].goals ELSE <<>>]
<1>4. said = [i \in 1 .. n |-> said[i]]
  BY <1>3
<1>5. \A i \in 1 .. n : IsList(said[i])
  <2>1. IsList(<<>>)
    BY DEF IsList
  <2> QED
    BY <2>1, <1>2, <1>3
<1>6. GoalsIn(clauses) = FlattenSeq(said)
  BY DEF GoalsIn
<1> HIDE DEF said
<1>7. IsList(said) /\ Len(said) = n
  BY <1>4, ListOf
<1>8. IsList(FlattenSeq(said))
  BY <1>5, <1>7, Flattened
<1>9. IsList(FirstOnly(GoalsIn(clauses)))
  BY <1>6, <1>8, FirstOnlyList
<1>10. Parse(objective).goals = FirstOnly(GoalsIn(clauses))
  BY <1>1 DEF Parse
<1> QED
  BY <1>9, <1>10

-----------------------------------------------------------------------------
(* The plan a process holds. *)

(* The plan in hand, and how far its run came. *)
PlanHeld(p) == Sound(proc[p].plan) /\ proc[p].run.done \in 0 .. Len(proc[p].plan)

PlanInv == IInv /\ \A p \in Procs : PlanHeld(p)

LEMMA NothingHeld ==
    ASSUME NEW p \in Procs, proc'[p].plan = <<>>, proc'[p].run = NoRun
    PROVE  PlanHeld(p)'
BY EmptySound DEF PlanHeld, NoRun

(* A step that says nothing of plan or run keeps both, or lets both go.     *)
LEMMA QuietHeld ==
    ASSUME IInv, NEW p \in Procs, PlanHeld(p), NEW changed, Go(p, changed),
           DOMAIN changed \subseteq Fields \ {"plan", "run"}
    PROVE  PlanHeld(p)'
<1>1. /\ "stage" \notin DOMAIN changed \/ changed["stage"] # "idle" =>
             \A f \in Fields : f \notin DOMAIN changed => proc'[p][f] = proc[p][f]
      /\ "stage" \in DOMAIN changed /\ changed["stage"] = "idle" =>
             \A f \in {"plan", "run", "item"} : f \notin DOMAIN changed => proc'[p][f] = NoWork[f]
  BY Goes
<1>2. "plan" \in Fields /\ "run" \in Fields
  BY DEF Fields
<1>3. CASE "stage" \in DOMAIN changed /\ changed["stage"] = "idle"
  <2>1. proc'[p].plan = NoWork["plan"] /\ proc'[p].run = NoWork["run"]
    BY <1>1, <1>3
  <2>2. NoWork["plan"] = <<>> /\ NoWork["run"] = NoRun
    BY DEF NoWork
  <2> QED
    BY <2>1, <2>2, NothingHeld
<1>4. CASE ~("stage" \in DOMAIN changed /\ changed["stage"] = "idle")
  <2>1. proc'[p].plan = proc[p].plan /\ proc'[p].run = proc[p].run
    BY <1>1, <1>2, <1>4
  <2> QED
    BY <2>1 DEF PlanHeld
<1> QED
  BY <1>3, <1>4

(* ... as most steps do. *)
LEMMA OthersHeld ==
    ASSUME IInv, NEW p \in Procs, PlanHeld(p),
           \/ \E c \in Caps : Approve(p, c)
           \/ Reflect(p) \/ RecordFailure(p) \/ ReviewSkill(p)
           \/ PromoteSkill(p) \/ DeprecateSkill(p) \/ ReviseRouting(p) \/ LearnRaises(p)
           \/ Return(p) \/ RollBack(p)
    PROVE  PlanHeld(p)'
<1>1. CASE \E c \in Caps : Approve(p, c)
  <2>1. PICK approved : Go(p, [approved |-> approved])
    BY <1>1 DEF Approve
  <2> DEFINE changed == [approved |-> approved]
  <2>2. DOMAIN changed = {"approved"} /\ Go(p, changed)
    BY <2>1
  <2> HIDE DEF changed
  <2> QED
    BY <2>2, QuietHeld DEF Fields
<1>2. CASE Reflect(p)
  <2>1. PICK next, item : Go(p, [stage |-> next, item |-> item])
    BY <1>2 DEF Reflect
  <2> DEFINE changed == [stage |-> next, item |-> item]
  <2>2. DOMAIN changed = {"stage", "item"} /\ Go(p, changed)
    BY <2>1
  <2> HIDE DEF changed
  <2> QED
    BY <2>2, QuietHeld DEF Fields
<1>3. CASE ReviseRouting(p)
  <2>1. PICK engine, refused, stage :
           Go(p, [engine |-> engine, refused |-> refused, stage |-> stage])
    BY <1>3, Zenon DEF ReviseRouting
  <2> DEFINE changed == [engine |-> engine, refused |-> refused, stage |-> stage]
  <2>2. DOMAIN changed = {"engine", "refused", "stage"} /\ Go(p, changed)
    BY <2>1
  <2> HIDE DEF changed
  <2> QED
    BY <2>2, QuietHeld DEF Fields
<1>4. CASE RollBack(p)
  <2>1. PICK engine, refused : Go(p, [engine |-> engine, refused |-> refused])
    BY <1>4, Zenon DEF RollBack
  <2> DEFINE changed == [engine |-> engine, refused |-> refused]
  <2>2. DOMAIN changed = {"engine", "refused"} /\ Go(p, changed)
    BY <2>1
  <2> HIDE DEF changed
  <2> QED
    BY <2>2, QuietHeld DEF Fields
<1>5. CASE RecordFailure(p) \/ ReviewSkill(p) \/ PromoteSkill(p) \/ DeprecateSkill(p)
           \/ LearnRaises(p) \/ Return(p)
  <2>1. PICK next : Go(p, [stage |-> next])
    BY <1>5, Zenon DEF RecordFailure, ReviewSkill, PromoteSkill, DeprecateSkill, LearnRaises, Return
  <2> DEFINE changed == [stage |-> next]
  <2>2. DOMAIN changed = {"stage"} /\ Go(p, changed)
    BY <2>1
  <2> HIDE DEF changed
  <2> QED
    BY <2>2, QuietHeld DEF Fields
<1> QED
  BY <1>1, <1>2, <1>3, <1>4, <1>5

LEMMA PlanHolds ==
    ASSUME IInv, NEW p \in Procs, PlanHeld(p), Plan(p) \/ Retry(p)
    PROVE  PlanHeld(p)'
<1>1. PICK plan : Sound(plan) /\ Go(p, [stage |-> "planned", plan |-> plan, run |-> NoRun])
  <2>1. CASE Plan(p)
    <3>1. PICK objective \in Objectives :
             /\ Plannable(Parse(objective))
             /\ Go(p, [stage |-> "planned", run |-> NoRun,
                       plan |-> PlanOf(Parse(objective), Assess(Parse(objective)))])
      BY <2>1 DEF Plan
    <3>2. Sound(PlanOf(Parse(objective), Assess(Parse(objective))))
      BY <3>1, ParseLists, PlanOfSound
    <3> QED
      BY <3>1, <3>2
  <2>2. CASE Retry(p)
    <3>1. PICK done : done = proc[p].run.done /\ done \in 0 .. Len(proc[p].plan)
      BY DEF PlanHeld
    <3>2. PICK plan : plan = proc[p].plan /\ Sound(plan) /\ done \in 0 .. Len(plan)
      BY <3>1 DEF PlanHeld
    <3>3. Go(p, [stage |-> "planned", run |-> NoRun,
                 plan |-> Replan(plan, {plan[i].id : i \in 1 .. done})])
      BY <2>2, <3>1, <3>2 DEF Retry
    <3>4. Sound(Replan(plan, {plan[i].id : i \in 1 .. done}))
      BY <3>2, ReplanSound
    <3> QED
      BY <3>3, <3>4
  <2> QED
    BY <2>1, <2>2
<1> DEFINE changed == [stage |-> "planned", plan |-> plan, run |-> NoRun]
<1>2. /\ DOMAIN changed = {"stage", "plan", "run"} /\ changed["plan"] = plan
      /\ changed["run"] = NoRun /\ Go(p, changed)
  BY <1>1
<1> HIDE DEF changed
<1>3. proc'[p].plan = plan /\ proc'[p].run = NoRun
  BY <1>2, Goes DEF Fields
<1>4. 0 \in 0 .. Len(plan)
  BY <1>1 DEF Sound, IsList
<1> QED
  BY <1>1, <1>3, <1>4 DEF PlanHeld, NoRun

LEMMA RouteHolds ==
    ASSUME IInv, NEW p \in Procs, PlanHeld(p), Route(p)
    PROVE  PlanHeld(p)'
<1>1. PICK plan : plan = proc[p].plan /\ Sound(plan)
  BY DEF PlanHeld
<1>2. \/ Go(p, [stage |-> "idle"])
      \/ \E chosen : Go(p, [stage |-> "routed", plan |-> RoutedBy(plan, chosen)])
  BY <1>1 DEF Route, RoutedBy
<1>3. CASE Go(p, [stage |-> "idle"])
  <2> DEFINE changed == [stage |-> "idle"]
  <2>1. DOMAIN changed = {"stage"} /\ Go(p, changed)
    BY <1>3
  <2> HIDE DEF changed
  <2> QED
    BY <2>1, QuietHeld DEF Fields
<1>4. CASE \E chosen : Go(p, [stage |-> "routed", plan |-> RoutedBy(plan, chosen)])
  <2>1. PICK chosen : Go(p, [stage |-> "routed", plan |-> RoutedBy(plan, chosen)])
    BY <1>4
  <2>2. PICK routed : routed = RoutedBy(plan, chosen)
    OBVIOUS
  <2>3. Sound(routed) /\ Len(routed) = Len(plan)
    BY <1>1, <2>2, RoutedSound
  <2> DEFINE changed == [stage |-> "routed", plan |-> routed]
  <2>4. /\ DOMAIN changed = {"stage", "plan"} /\ changed["stage"] = "routed"
        /\ changed["plan"] = routed
    OBVIOUS
  <2>5. Go(p, changed)
    BY <2>1, <2>2
  <2> HIDE DEF changed
  <2>6. proc'[p].plan = routed /\ proc'[p].run = proc[p].run
    BY <2>4, <2>5, Goes DEF Fields
  <2> QED
    BY <1>1, <2>3, <2>6 DEF PlanHeld
<1> QED
  BY <1>2, <1>3, <1>4

LEMMA ExecuteHolds ==
    ASSUME IInv, NEW p \in Procs, PlanHeld(p), Execute(p)
    PROVE  PlanHeld(p)'
<1>1. PICK done \in 0 .. Len(proc[p].plan) : \E rest :
         Go(p, [stage |-> "executed", run |-> [done |-> done, rest |-> rest, success |-> FALSE]])
  BY DEF Execute
<1>2. PICK rest :
         Go(p, [stage |-> "executed", run |-> [done |-> done, rest |-> rest, success |-> FALSE]])
  BY <1>1
<1> DEFINE run == [done |-> done, rest |-> rest, success |-> FALSE]
           changed == [stage |-> "executed", run |-> run]
<1>3. /\ DOMAIN changed = {"stage", "run"} /\ changed["stage"] = "executed"
      /\ changed["run"] = run /\ run.done = done
  OBVIOUS
<1>4. Go(p, changed)
  BY <1>2
<1> HIDE DEF changed, run
<1>5. proc'[p].plan = proc[p].plan /\ proc'[p].run = run
  BY <1>3, <1>4, Goes DEF Fields
<1> QED
  BY <1>3, <1>5 DEF PlanHeld

LEMMA VerifyHolds ==
    ASSUME IInv, NEW p \in Procs, PlanHeld(p), Verify(p)
    PROVE  PlanHeld(p)'
<1>1. \/ Go(p, [stage |-> "idle"])
      \/ \E success : Go(p, [stage |-> "learn", run |-> [proc[p].run EXCEPT !.success = success]])
  BY Zenon DEF Verify
<1>2. CASE Go(p, [stage |-> "idle"])
  <2> DEFINE changed == [stage |-> "idle"]
  <2>1. DOMAIN changed = {"stage"} /\ Go(p, changed)
    BY <1>2
  <2> HIDE DEF changed
  <2> QED
    BY <2>1, QuietHeld DEF Fields
<1>3. CASE \E success :
              Go(p, [stage |-> "learn", run |-> [proc[p].run EXCEPT !.success = success]])
  <2>1. PICK success :
           Go(p, [stage |-> "learn", run |-> [proc[p].run EXCEPT !.success = success]])
    BY <1>3
  <2> DEFINE run == [proc[p].run EXCEPT !.success = success]
             changed == [stage |-> "learn", run |-> run]
  <2>2. DOMAIN proc[p].run = {"done", "rest", "success"}
    BY Typed
  <2>3. /\ DOMAIN changed = {"stage", "run"} /\ changed["stage"] = "learn"
        /\ changed["run"] = run /\ run.done = proc[p].run.done
    BY <2>2
  <2>4. Go(p, changed)
    BY <2>1
  <2> HIDE DEF changed, run
  <2>5. proc'[p].plan = proc[p].plan /\ proc'[p].run = run
    BY <2>3, <2>4, Goes DEF Fields
  <2> QED
    BY <2>3, <2>5 DEF PlanHeld
<1> QED
  BY <1>1, <1>2, <1>3

LEMMA RestartHolds ==
    ASSUME IInv, NEW p \in Procs, Restart(p)
    PROVE  PlanHeld(p)'
<1>1. proc'[p] = NewProcess
  BY Typed DEF Restart
<1>2. NewProcess.plan = <<>> /\ NewProcess.run = NoRun
  BY DEF NewProcess
<1> QED
  BY <1>1, <1>2, NothingHeld

LEMMA PlanInit == Init => PlanInv
<1> SUFFICES ASSUME Init
             PROVE  PlanInv
  OBVIOUS
<1>1. ASSUME NEW p \in Procs
      PROVE  PlanHeld(p)
  <2>1. proc[p] = NewProcess
    BY DEF Init
  <2>2. NewProcess.plan = <<>> /\ NewProcess.run = NoRun
    BY DEF NewProcess
  <2> QED
    BY <2>1, <2>2, EmptySound DEF PlanHeld, NoRun
<1> QED
  BY <1>1, InitInv DEF PlanInv

LEMMA PlanStep == PlanInv /\ [Next]_vars => PlanInv'
<1> SUFFICES ASSUME PlanInv, [Next]_vars
             PROVE  PlanInv'
  OBVIOUS
<1>1. IInv /\ IInv' /\ \A q \in Procs : PlanHeld(q)
  BY StepInv DEF PlanInv
<1>2. CASE Next
  <2>1. PICK p \in Procs :
           \/ Plan(p) \/ Route(p) \/ Execute(p) \/ Verify(p) \/ Retry(p)
           \/ \E c \in Caps : Approve(p, c)
           \/ Reflect(p) \/ RecordFailure(p) \/ ReviewSkill(p)
           \/ PromoteSkill(p) \/ DeprecateSkill(p) \/ ReviseRouting(p) \/ LearnRaises(p)
           \/ Return(p) \/ RollBack(p) \/ Restart(p)
    BY <1>2 DEF Next
  <2>2. PlanHeld(p)'
    BY <1>1, <2>1, PlanHolds, RouteHolds, ExecuteHolds, VerifyHolds, OthersHeld, RestartHolds
  <2>3. \A q \in Procs \ {p} : proc'[q] = proc[q]
    BY <1>1, <2>1, NextInv DEF Moved
  <2>4. \A q \in Procs : PlanHeld(q)'
    BY <1>1, <2>2, <2>3 DEF PlanHeld
  <2> QED
    BY <1>1, <2>4 DEF PlanInv
<1>3. CASE UNCHANGED vars
  BY <1>1, <1>3 DEF vars, PlanInv, PlanHeld
<1> QED
  BY <1>2, <1>3

(* Every plan, and every successor of one, is a chain ending in the         *)
(* verifying task (planner.py:68-149, 153-197).                             *)
THEOREM PlansAreChainsHolds == Spec => []PlansAreChains
<1>1. PlanInv => PlansAreChains
  BY DEF PlanInv, PlanHeld, Sound, PlansAreChains
<1> QED
  BY <1>1, PlanInit, PlanStep, PTL DEF Spec
=============================================================================
