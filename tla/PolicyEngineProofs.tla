------------------------- MODULE PolicyEngineProofs -------------------------
(***************************************************************************)
(* Proofs about PolicyEngine, for every set of payloads and every bound:   *)
(* IInv is inductive.  First what the operations are as lists of effects,  *)
(* then what one, two or no written records come to.                       *)
(***************************************************************************)
EXTENDS PolicyEngine, SequenceTheorems, TLAPS

(* The inductive invariant. *)
IInv == TypeOK /\ OneActive /\ JournalReplays

(* What OneActive says of an engine, and what JournalReplays says of it.    *)
Tops(e) == IF e.stack = <<>> THEN {} ELSE {Last(e.stack)}
Replays(e, j) == \A v \in DOMAIN e.versions : v \in DOMAIN j /\ j[v] = e.versions[v]
JournalOK(j) == DOMAIN j \subseteq Nat \ {0} /\ \A v \in DOMAIN j : j[v] \in Version

-----------------------------------------------------------------------------
(* The small steps in memory. *)

(* A status is set on a version that exists: the rest stays.                *)
LEMMA MarkOK ==
    ASSUME NEW e, EngineOK(e), NEW v \in DOMAIN e.versions,
           NEW status \in {"PROPOSED", "ACTIVE", "DEPRECATED"}
    PROVE  /\ EngineOK(Mark(e, v, status))
           /\ Mark(e, v, status).stack = e.stack
           /\ DOMAIN Mark(e, v, status).versions = DOMAIN e.versions
           /\ Mark(e, v, status).versions[v].status = status
           /\ \A u \in DOMAIN e.versions \ {v} :
                 Mark(e, v, status).versions[u] = e.versions[u]
           /\ ActiveOf(Mark(e, v, status)) =
                 IF status = "ACTIVE" THEN ActiveOf(e) \cup {v} ELSE ActiveOf(e) \ {v}
<1> DEFINE m == Mark(e, v, status)
<1>1. /\ e.versions \in Seq(Version) /\ e.versions[v] \in Version
      /\ e.stack \in Seq(Nat \ {0})
  BY DEF EngineOK
<1>2. /\ m.versions = [e.versions EXCEPT ![v].status = status]
      /\ m.stack = e.stack
      /\ m \in [versions : Seq(Version), stack : Seq(Nat \ {0})]
  <2>1. [e.versions[v] EXCEPT !.status = status] \in Version
    BY <1>1 DEF Version
  <2>2. [e.versions EXCEPT ![v].status = status] \in Seq(Version)
    BY <1>1, <2>1
  <2> QED
    BY <2>2 DEF Mark, EngineOK
<1>3. /\ DOMAIN m.versions = DOMAIN e.versions
      /\ m.versions[v].status = status
      /\ \A u \in DOMAIN e.versions \ {v} : m.versions[u] = e.versions[u]
  BY <1>1, <1>2 DEF Version
<1>4. EngineOK(m)
  BY <1>2, <1>3 DEF EngineOK
<1>5. ActiveOf(m) = IF status = "ACTIVE" THEN ActiveOf(e) \cup {v} ELSE ActiveOf(e) \ {v}
  BY <1>3 DEF ActiveOf
<1> QED
  BY <1>2, <1>3, <1>4, <1>5

(* A push puts an existing version on top of what was there.                *)
LEMMA PushOK ==
    ASSUME NEW e, EngineOK(e), NEW v \in DOMAIN e.versions
    PROVE  /\ EngineOK(Push(e, v))
           /\ Push(e, v).versions = e.versions
           /\ ActiveOf(Push(e, v)) = ActiveOf(e)
           /\ Push(e, v).stack # <<>> /\ Last(Push(e, v).stack) = v
           /\ Len(Push(e, v).stack) = Len(e.stack) + 1
           /\ Front(Push(e, v).stack) = e.stack
           /\ Pop(Push(e, v)) = e
<1>1. e.versions \in Seq(Version) /\ e.stack \in Seq(Nat \ {0}) /\ v \in Nat \ {0}
  BY DEF EngineOK
<1>2. Push(e, v) = [versions |-> e.versions, stack |-> Append(e.stack, v)]
  <2> DEFINE t == Append(e.stack, v)
  <2>1. Push(e, v) = [e EXCEPT !.stack = t]
    BY DEF Push
  <2> HIDE DEF t
  <2>2. [e EXCEPT !.stack = t] = [versions |-> e.versions, stack |-> t]
    BY DEF EngineOK
  <2> QED
    BY <2>1, <2>2 DEF t
<1>3. /\ Append(e.stack, v) \in Seq(Nat \ {0})
      /\ Append(e.stack, v) # <<>>
      /\ Last(Append(e.stack, v)) = v
      /\ Len(Append(e.stack, v)) = Len(e.stack) + 1
      /\ Front(Append(e.stack, v)) = e.stack
      /\ \A i \in DOMAIN Append(e.stack, v) :
            Append(e.stack, v)[i] = v \/ (i \in DOMAIN e.stack /\ Append(e.stack, v)[i] = e.stack[i])
  BY <1>1 DEF Last, Front
<1>4. EngineOK(Push(e, v))
  BY <1>1, <1>2, <1>3 DEF EngineOK
<1>5. Pop(Push(e, v)) = e
  <2>1. Pop(Push(e, v)) = [versions |-> e.versions, stack |-> e.stack]
    BY <1>2, <1>3 DEF Pop
  <2> QED
    BY <2>1 DEF EngineOK
<1> QED
  BY <1>2, <1>3, <1>4, <1>5 DEF ActiveOf

(* A pop takes the top away and leaves the versions.                        *)
LEMMA PopOK ==
    ASSUME NEW e, EngineOK(e), CanRollback(e)
    PROVE  /\ EngineOK(Pop(e))
           /\ Pop(e).versions = e.versions
           /\ Pop(e).stack = Front(e.stack) /\ Pop(e).stack # <<>>
           /\ Last(e.stack) \in DOMAIN e.versions
           /\ Last(Pop(e).stack) \in DOMAIN e.versions
<1>1. e.versions \in Seq(Version) /\ e.stack \in Seq(Nat \ {0}) /\ Len(e.stack) >= 2
  BY DEF EngineOK, CanRollback
<1>2. Pop(e) = [versions |-> e.versions, stack |-> Front(e.stack)]
  BY DEF EngineOK, Pop
<1>3. /\ Front(e.stack) \in Seq(Nat \ {0})
      /\ Len(Front(e.stack)) = Len(e.stack) - 1
      /\ \A i \in DOMAIN Front(e.stack) : i \in DOMAIN e.stack /\ Front(e.stack)[i] = e.stack[i]
  BY <1>1 DEF Front
<1>4. EngineOK(Pop(e))
  BY <1>2, <1>3 DEF EngineOK
<1>5. Len(e.stack) \in DOMAIN e.stack /\ Len(Front(e.stack)) \in DOMAIN Front(e.stack)
  BY <1>1, <1>3
<1> QED
  BY <1>1, <1>2, <1>3, <1>4, <1>5 DEF EngineOK, Last

-----------------------------------------------------------------------------
(* The operations as lists of effects. *)

LEMMA Lists ==
    ASSUME NEW a, NEW b
    PROVE  <<>> \o <<b>> = <<b>> /\ <<a>> \o <<b>> = <<a, b>>
<1>1. /\ <<a>> \in Seq({a, b}) /\ <<b>> \in Seq({a, b})
      /\ <<a, b>> \in Seq({a, b})
  OBVIOUS
<1>2. <<>> \o <<b>> = <<b>>
  BY <1>1, ConcatEmptySeq
<1>3. /\ <<a>> \o <<b>> \in Seq({a, b})
      /\ Len(<<a>> \o <<b>>) = 2
      /\ (<<a>> \o <<b>>)[1] = a /\ (<<a>> \o <<b>>)[2] = b
  <2>1. /\ <<a>> \o <<b>> \in Seq({a, b})
        /\ Len(<<a>> \o <<b>>) = Len(<<a>>) + Len(<<b>>)
        /\ \A i \in 1 .. Len(<<a>>) + Len(<<b>>) : (<<a>> \o <<b>>)[i] =
              IF i <= Len(<<a>>) THEN <<a>>[i] ELSE <<b>>[i - Len(<<a>>)]
    BY <1>1, ConcatProperties
  <2>2. Len(<<a>>) = 1 /\ Len(<<b>>) = 1 /\ <<a>>[1] = a /\ <<b>>[1] = b
    OBVIOUS
  <2> QED
    BY <2>1, <2>2
<1>4. <<a>> \o <<b>> = <<a, b>>
  <2> DEFINE s == <<a>> \o <<b>>
  <2>1. s \in Seq({a, b}) /\ Len(s) = 2 /\ s[1] = a /\ s[2] = b
    BY <1>3
  <2> HIDE DEF s
  <2>2. \A i \in 1 .. Len(s) : s[i] = <<a, b>>[i]
    BY <2>1
  <2>3. s = <<a, b>>
    BY <1>1, <2>1, <2>2, SeqEqual
  <2> QED
    BY <2>3 DEF s
<1> QED
  BY <1>2, <1>4

(* Activation writes one record when nothing was active and two when a      *)
(* version was; an active version is left alone.                            *)
LEMMA ActivateForm ==
    ASSUME NEW e, NEW v
    PROVE  /\ v \in ActiveOf(e) => Activate(e, v) = <<>>
           /\ ActiveOf(e) = {} =>
                 Activate(e, v) = << Effect(Push(Mark(e, v, "ACTIVE"), v), v) >>
           /\ \A c : ActiveOf(e) = {c} /\ v # c =>
                 Activate(e, v) =
                    << Effect(Mark(e, c, "DEPRECATED"), c),
                       Effect(Push(Mark(Mark(e, c, "DEPRECATED"), v, "ACTIVE"), v), v) >>
<1>1. v \in ActiveOf(e) => Activate(e, v) = <<>>
  BY DEF Activate
<1>2. ASSUME ActiveOf(e) = {}
      PROVE  Activate(e, v) = << Effect(Push(Mark(e, v, "ACTIVE"), v), v) >>
  <2> DEFINE on == Effect(Push(Mark(e, v, "ACTIVE"), v), v)
  <2>1. Activate(e, v) = <<>> \o << on >>
    BY <1>2 DEF Activate, Supersede
  <2> HIDE DEF on
  <2>2. <<>> \o << on >> = << on >>
    BY Lists
  <2> QED
    BY <2>1, <2>2 DEF on
<1>3. ASSUME NEW c, ActiveOf(e) = {c}, v # c
      PROVE  Activate(e, v) =
                << Effect(Mark(e, c, "DEPRECATED"), c),
                   Effect(Push(Mark(Mark(e, c, "DEPRECATED"), v, "ACTIVE"), v), v) >>
  <2> DEFINE off == Mark(e, c, "DEPRECATED")
             on == Effect(Push(Mark(off, v, "ACTIVE"), v), v)
  <2>1. Supersede(e) = << Effect(off, c) >>
    <3>1. (CHOOSE x \in ActiveOf(e) : TRUE) = c
      BY <1>3
    <3> QED
      BY <1>3, <3>1 DEF Supersede
  <2>2. Supersede(e)[1].engine = off
    BY <2>1 DEF Effect
  <2>3. Activate(e, v) = << Effect(off, c) >> \o << on >>
    BY <1>3, <2>1, <2>2 DEF Activate
  <2> HIDE DEF on, off
  <2>4. << Effect(off, c) >> \o << on >> = << Effect(off, c), on >>
    BY Lists
  <2> QED
    BY <2>3, <2>4 DEF on, off
<1> QED
  BY <1>1, <1>2, <1>3

-----------------------------------------------------------------------------
(* What is written. *)

(* The journal after the record of f, and after those of f and then g.      *)
Recorded(j, f) ==
    [v \in DOMAIN j \cup {f.version} |->
        IF v = f.version THEN f.engine.versions[v] ELSE j[v]]
BothRecorded(j, f, g) ==
    [v \in DOMAIN j \cup {f.version, g.version} |->
        IF v = g.version THEN g.engine.versions[v]
        ELSE IF v = f.version THEN f.engine.versions[v] ELSE j[v]]
Unrecorded(j) == [v \in DOMAIN j |-> j[v]]

(* One effect: the memory has changed, and the record is written or not.    *)
LEMMA OneEffect ==
    ASSUME NEW e, NEW j, NEW f
    PROVE  /\ Len(<<f>>) = 1
           /\ \A w \in 0 .. 1 : Reached(e, <<f>>, w) = f.engine
           /\ Record(j, <<f>>, 0) = Unrecorded(j)
           /\ Record(j, <<f>>, 1) = Recorded(j, f)
<1>1. Len(<<f>>) = 1 /\ <<f>>[1] = f /\ <<f>> # <<>>
  OBVIOUS
<1>2. \A w \in 0 .. 1 : Reached(e, <<f>>, w) = f.engine
  BY <1>1 DEF Reached
<1>3. Record(j, <<f>>, 0) = Unrecorded(j)
  <2>1. 1 .. 0 = {}
    OBVIOUS
  <2> QED
    BY <2>1 DEF Record, Unrecorded
<1>4. Record(j, <<f>>, 1) = Recorded(j, f)
  <2>1. 1 .. 1 = {1} /\ 1 + 1 .. 1 = {}
    OBVIOUS
  <2>2. DOMAIN j \cup {<<f>>[i].version : i \in 1 .. 1} = DOMAIN j \cup {f.version}
    BY <1>1, <2>1
  <2>3. ASSUME NEW v, \E i \in 1 .. 1 : <<f>>[i].version = v
        PROVE  (CHOOSE i \in 1 .. 1 : /\ <<f>>[i].version = v
                                     /\ \A k \in i + 1 .. 1 : <<f>>[k].version # v) = 1
    BY <2>1, <2>3
  <2> QED
    BY <1>1, <2>1, <2>2, <2>3 DEF Record, Recorded
<1> QED
  BY <1>1, <1>2, <1>3, <1>4

(* Two effects: the first write may raise, or the second, or neither.       *)
LEMMA TwoEffects ==
    ASSUME NEW e, NEW j, NEW f, NEW g
    PROVE  /\ Len(<<f, g>>) = 2
           /\ Reached(e, <<f, g>>, 0) = f.engine
           /\ \A w \in 1 .. 2 : Reached(e, <<f, g>>, w) = g.engine
           /\ Record(j, <<f, g>>, 0) = Unrecorded(j)
           /\ Record(j, <<f, g>>, 1) = Recorded(j, f)
           /\ Record(j, <<f, g>>, 2) = BothRecorded(j, f, g)
<1>1. Len(<<f, g>>) = 2 /\ <<f, g>>[1] = f /\ <<f, g>>[2] = g /\ <<f, g>> # <<>>
  OBVIOUS
<1> DEFINE es == <<f, g>>
<1> HIDE DEF es
<1>2. Len(es) = 2 /\ es[1] = f /\ es[2] = g /\ es # <<>>
  BY <1>1 DEF es
<1>3. Reached(e, es, 0) = f.engine /\ \A w \in 1 .. 2 : Reached(e, es, w) = g.engine
  BY <1>2 DEF Reached
<1>4. Record(j, es, 0) = Unrecorded(j)
  <2>1. 1 .. 0 = {}
    OBVIOUS
  <2> QED
    BY <2>1 DEF Record, Unrecorded
<1>5. Record(j, es, 1) = Recorded(j, f)
  <2>1. 1 .. 1 = {1} /\ 1 + 1 .. 1 = {}
    OBVIOUS
  <2>2. DOMAIN j \cup {es[i].version : i \in 1 .. 1} = DOMAIN j \cup {f.version}
    BY <1>2, <2>1
  <2>3. ASSUME NEW v, \E i \in 1 .. 1 : es[i].version = v
        PROVE  (CHOOSE i \in 1 .. 1 : /\ es[i].version = v
                                     /\ \A k \in i + 1 .. 1 : es[k].version # v) = 1
    BY <2>1, <2>3
  <2> QED
    BY <1>2, <2>1, <2>2, <2>3 DEF Record, Recorded
<1>6. Record(j, es, 2) = BothRecorded(j, f, g)
  <2>1. 1 .. 2 = {1, 2} /\ 1 + 1 .. 2 = {2} /\ 2 + 1 .. 2 = {}
    OBVIOUS
  <2>2. DOMAIN j \cup {es[i].version : i \in 1 .. 2} = DOMAIN j \cup {f.version, g.version}
    BY <1>2, <2>1
  <2>3. (CHOOSE i \in 1 .. 2 : /\ es[i].version = g.version
                             /\ \A k \in i + 1 .. 2 : es[k].version # g.version) = 2
    BY <1>2, <2>1
  <2>4. ASSUME f.version # g.version
        PROVE  (CHOOSE i \in 1 .. 2 : /\ es[i].version = f.version
                                     /\ \A k \in i + 1 .. 2 : es[k].version # f.version) = 1
    BY <1>2, <2>1, <2>4
  <2>5. \A v : (\E i \in 1 .. 2 : es[i].version = v) <=> v \in {f.version, g.version}
    BY <1>2, <2>1
  <2> QED
    BY <1>2, <2>2, <2>3, <2>4, <2>5 DEF Record, BothRecorded
<1> QED
  BY <1>1, <1>3, <1>4, <1>5, <1>6 DEF es

-----------------------------------------------------------------------------
(* Steps that keep the invariant. *)

(* An engine whose only active version, if any, is on top.                  *)
Sound(e) == EngineOK(e) /\ ActiveOf(e) \subseteq Tops(e)

(* d is e with at most version v changed or added.                          *)
Follows(e, d, v) ==
    /\ DOMAIN d.versions = DOMAIN e.versions \cup {v}
    /\ \A u \in DOMAIN e.versions \ {v} : d.versions[u] = e.versions[u]

LEMMA InvariantParts ==
    IInv <=> /\ Sound(engine) /\ (refused \/ ActiveOf(engine) = Tops(engine))
             /\ JournalOK(journal) /\ (refused \/ Replays(engine, journal))
             /\ refused \in BOOLEAN
BY DEF IInv, TypeOK, OneActive, JournalReplays, Sound, Tops, JournalOK, Replays

LEMMA InvariantNext ==
    ASSUME Sound(engine'), refused' \/ ActiveOf(engine') = Tops(engine'),
           JournalOK(journal'), refused' \/ Replays(engine', journal'),
           refused' \in BOOLEAN
    PROVE  IInv'
BY DEF IInv, TypeOK, OneActive, JournalReplays, Sound, Tops, JournalOK, Replays, ActiveOf

(* The versions of an engine can be recorded. *)
LEMMA Recordable ==
    ASSUME NEW e, EngineOK(e), NEW v \in DOMAIN e.versions
    PROVE  v \in Nat \ {0} /\ e.versions[v] \in Version
BY DEF EngineOK

(* An operation that writes nothing changes nothing. *)
LEMMA PerformNone ==
    ASSUME IInv, Perform(<<>>)
    PROVE  IInv'
<1>1. PICK w \in 0 .. Len(<<>>) : /\ engine' = Reached(engine, <<>>, w)
                                  /\ journal' = Record(journal, <<>>, w)
                                  /\ refused' = (refused \/ w < Len(<<>>))
  BY DEF Perform
<1>2. w = 0 /\ engine' = engine /\ refused' = (refused \/ w < 0)
  BY <1>1 DEF Reached
<1>3. refused' = refused
  BY <1>2, InvariantParts
<1>4. journal' = Unrecorded(journal)
  <2>1. 1 .. 0 = {}
    OBVIOUS
  <2> QED
    BY <1>1, <1>2, <2>1 DEF Record, Unrecorded
<1>5. JournalOK(journal') /\ (refused \/ Replays(engine, journal'))
  BY <1>4, InvariantParts DEF JournalOK, Unrecorded, Replays
<1> QED
  BY <1>2, <1>3, <1>5, InvariantParts, InvariantNext

(* One record, and two: written or not, the invariant is kept. *)
LEMMA PerformOne ==
    ASSUME IInv, NEW d, NEW v, Sound(d), Follows(engine, d, v),
           refused \/ ActiveOf(d) = Tops(d),
           Perform(<< Effect(d, v) >>)
    PROVE  IInv'
<1> DEFINE f == Effect(d, v)
<1>1. f.engine = d /\ f.version = v
  BY DEF Effect
<1>2. PICK w \in 0 .. 1 : /\ engine' = Reached(engine, <<f>>, w)
                           /\ journal' = Record(journal, <<f>>, w)
                           /\ refused' = (refused \/ w < 1)
  <2>1. Len(<<f>>) = 1
    BY OneEffect
  <2> QED
    BY <2>1 DEF Perform
<1> HIDE DEF f
<1>3. /\ \A x \in 0 .. 1 : Reached(engine, <<f>>, x) = f.engine
      /\ Record(journal, <<f>>, 0) = Unrecorded(journal)
      /\ Record(journal, <<f>>, 1) = Recorded(journal, f)
  BY OneEffect
<1>4. engine' = d
  BY <1>1, <1>2, <1>3
<1>5. v \in DOMAIN d.versions /\ v \in Nat \ {0} /\ d.versions[v] \in Version
  BY Recordable DEF Follows, Sound
<1>6. JournalOK(journal) /\ refused \in BOOLEAN
  BY InvariantParts
<1>7. CASE w = 0
  <2>1. JournalOK(journal')
    BY <1>2, <1>3, <1>6, <1>7 DEF JournalOK, Unrecorded
  <2>2. refused'
    <3>1. w < 1
      BY <1>7
    <3> QED
      BY <1>2, <3>1, Zenon
  <2> QED
    BY <1>4, <1>6, <2>1, <2>2, InvariantNext
<1>8. CASE w = 1
  <2>1. journal' = Recorded(journal, f)
    BY <1>2, <1>3, <1>8
  <2>2. refused' = refused
    BY <1>2, <1>6, <1>8
  <2>3. JournalOK(journal')
    BY <1>1, <1>5, <1>6, <2>1 DEF JournalOK, Recorded
  <2>4. refused \/ Replays(d, journal')
    BY <1>1, <2>1, InvariantParts DEF Replays, Follows, Recorded
  <2> QED
    BY <1>4, <1>6, <2>2, <2>3, <2>4, InvariantNext
<1> QED
  BY <1>2, <1>7, <1>8

LEMMA PerformTwo ==
    ASSUME IInv, NEW c, NEW u, Sound(c), Follows(engine, c, u),
           NEW d, NEW v, Sound(d), Follows(c, d, v), ActiveOf(d) = Tops(d),
           Perform(<< Effect(c, u), Effect(d, v) >>)
    PROVE  IInv'
<1> DEFINE f == Effect(c, u)
           g == Effect(d, v)
<1>1. f.engine = c /\ f.version = u /\ g.engine = d /\ g.version = v
  BY DEF Effect
<1>2. PICK w \in 0 .. 2 : /\ engine' = Reached(engine, <<f, g>>, w)
                           /\ journal' = Record(journal, <<f, g>>, w)
                           /\ refused' = (refused \/ w < 2)
  <2>1. Len(<<f, g>>) = 2
    BY TwoEffects
  <2> QED
    BY <2>1 DEF Perform
<1> HIDE DEF f, g
<1>3. /\ Reached(engine, <<f, g>>, 0) = f.engine
      /\ \A x \in 1 .. 2 : Reached(engine, <<f, g>>, x) = g.engine
      /\ Record(journal, <<f, g>>, 0) = Unrecorded(journal)
      /\ Record(journal, <<f, g>>, 1) = Recorded(journal, f)
      /\ Record(journal, <<f, g>>, 2) = BothRecorded(journal, f, g)
  BY TwoEffects
<1>4. Sound(engine')
  BY <1>1, <1>2, <1>3
<1>5. /\ u \in DOMAIN c.versions /\ u \in Nat \ {0} /\ c.versions[u] \in Version
      /\ v \in DOMAIN d.versions /\ v \in Nat \ {0} /\ d.versions[v] \in Version
  BY Recordable DEF Follows, Sound
<1>6. JournalOK(journal) /\ refused \in BOOLEAN
  BY InvariantParts
<1>7. CASE w < 2
  <2>1. JournalOK(journal')
    <3>1. journal' = Unrecorded(journal) \/ journal' = Recorded(journal, f)
      BY <1>2, <1>3, <1>7
    <3> QED
      BY <1>1, <1>5, <1>6, <3>1 DEF JournalOK, Unrecorded, Recorded
  <2>2. refused'
    BY <1>2, <1>7, Zenon
  <2> QED
    BY <1>4, <1>6, <2>1, <2>2, InvariantNext
<1>8. CASE w = 2
  <2>1. journal' = BothRecorded(journal, f, g) /\ engine' = d
    BY <1>1, <1>2, <1>3, <1>8
  <2>2. refused' = refused
    BY <1>2, <1>6, <1>8
  <2>3. JournalOK(journal')
    BY <1>1, <1>5, <1>6, <2>1 DEF JournalOK, BothRecorded
  <2>4. refused \/ Replays(d, journal')
    BY <1>1, <2>1, InvariantParts DEF Replays, Follows, BothRecorded
  <2> QED
    BY <1>4, <1>6, <2>1, <2>2, <2>3, <2>4, InvariantNext
<1> QED
  BY <1>2, <1>7, <1>8

-----------------------------------------------------------------------------
(* What each operation leads through. *)

(* An engine that had at most its top active has exactly v active, on top,  *)
(* when an activation is done; in between nothing is active.                *)
LEMMA ActivateEffects ==
    ASSUME NEW e, Sound(e), NEW v \in DOMAIN e.versions, v \notin ActiveOf(e),
           NEW c, c = e \/ (ActiveOf(e) # {} /\ c = Mark(e, Last(e.stack), "DEPRECATED")),
           ActiveOf(e) = {} <=> c = e,
           NEW d, d = Push(Mark(c, v, "ACTIVE"), v)
    PROVE  /\ Sound(c) /\ ActiveOf(c) = {}
           /\ c # e => /\ ActiveOf(e) = {Last(e.stack)} /\ v # Last(e.stack)
                       /\ Follows(e, c, Last(e.stack))
           /\ Sound(d) /\ Follows(c, d, v) /\ ActiveOf(d) = {v} /\ ActiveOf(d) = Tops(d)
<1>1. EngineOK(e) /\ ActiveOf(e) \subseteq Tops(e) /\ ActiveOf(e) \subseteq DOMAIN e.versions
  BY DEF Sound, ActiveOf
<1>2. /\ EngineOK(c) /\ ActiveOf(c) = {} /\ DOMAIN c.versions = DOMAIN e.versions
      /\ c # e => /\ ActiveOf(e) = {Last(e.stack)} /\ v # Last(e.stack)
                  /\ Follows(e, c, Last(e.stack))
  <2>1. CASE c = e
    BY <1>1, <2>1
  <2>2. CASE ActiveOf(e) # {} /\ c = Mark(e, Last(e.stack), "DEPRECATED")
    <3>1. ActiveOf(e) = {Last(e.stack)} /\ Last(e.stack) \in DOMAIN e.versions
      BY <1>1, <2>2 DEF Tops
    <3>2. /\ EngineOK(c) /\ ActiveOf(c) = ActiveOf(e) \ {Last(e.stack)}
          /\ DOMAIN c.versions = DOMAIN e.versions
          /\ \A x \in DOMAIN e.versions \ {Last(e.stack)} : c.versions[x] = e.versions[x]
      BY <1>1, <2>2, <3>1, MarkOK
    <3> QED
      BY <3>1, <3>2 DEF Follows
  <2> QED
    BY <2>1, <2>2
<1> DEFINE m == Mark(c, v, "ACTIVE")
<1>3. /\ EngineOK(m) /\ ActiveOf(m) = {v} /\ DOMAIN m.versions = DOMAIN c.versions
      /\ \A x \in DOMAIN c.versions \ {v} : m.versions[x] = c.versions[x]
  BY <1>2, MarkOK
<1> HIDE DEF m
<1>4. d = Push(m, v)
  BY DEF m
<1>5. /\ EngineOK(d) /\ d.versions = m.versions /\ ActiveOf(d) = {v} /\ Tops(d) = {v}
  BY <1>2, <1>3, <1>4, PushOK DEF Tops
<1>6. Follows(c, d, v)
  BY <1>2, <1>3, <1>5 DEF Follows
<1> QED
  BY <1>2, <1>5, <1>6 DEF Sound

(* A rollback gives the top up, and has the one below it active.            *)
LEMMA RollbackEffects ==
    ASSUME NEW e, Sound(e), CanRollback(e),
           NEW c, c = Mark(Pop(e), Last(e.stack), "DEPRECATED"),
           NEW d, d = Mark(c, Last(c.stack), "ACTIVE")
    PROVE  /\ Sound(c) /\ Follows(e, c, Last(e.stack)) /\ c.stack = Front(e.stack)
           /\ Sound(d) /\ Follows(c, d, Last(c.stack))
           /\ ActiveOf(d) = {Last(c.stack)} /\ ActiveOf(d) = Tops(d)
<1> DEFINE b == Pop(e)
<1>1. /\ EngineOK(b) /\ b.versions = e.versions /\ b.stack = Front(e.stack) /\ b.stack # <<>>
      /\ Last(e.stack) \in DOMAIN e.versions /\ Last(b.stack) \in DOMAIN e.versions
  BY PopOK DEF Sound
<1>2. e.stack # <<>> /\ ActiveOf(b) \subseteq {Last(e.stack)}
  <2>1. e.stack # <<>>
    BY DEF Sound, EngineOK, CanRollback
  <2> QED
    BY <1>1, <2>1 DEF Sound, Tops, ActiveOf
<1> HIDE DEF b
<1>3. c = Mark(b, Last(e.stack), "DEPRECATED")
  BY DEF b
<1>4. /\ EngineOK(c) /\ c.stack = b.stack /\ DOMAIN c.versions = DOMAIN b.versions
      /\ \A x \in DOMAIN b.versions \ {Last(e.stack)} : c.versions[x] = b.versions[x]
      /\ ActiveOf(c) = ActiveOf(b) \ {Last(e.stack)}
  BY <1>1, <1>3, MarkOK
<1>5. ActiveOf(c) = {}
  BY <1>2, <1>4
<1>6. /\ EngineOK(d) /\ d.stack = c.stack /\ DOMAIN d.versions = DOMAIN c.versions
      /\ \A x \in DOMAIN c.versions \ {Last(c.stack)} : d.versions[x] = c.versions[x]
      /\ ActiveOf(d) = {Last(c.stack)}
  <2>1. Last(c.stack) \in DOMAIN c.versions
    BY <1>1, <1>4
  <2>2. ActiveOf(d) = ActiveOf(c) \cup {Last(c.stack)}
    BY <1>4, <2>1, MarkOK
  <2> QED
    BY <1>4, <1>5, <2>1, <2>2, MarkOK
<1>7. Tops(d) = {Last(c.stack)}
  BY <1>1, <1>4, <1>6 DEF Tops
<1> QED
  BY <1>1, <1>4, <1>5, <1>6, <1>7 DEF Sound, Follows

-----------------------------------------------------------------------------
(* The invariant is inductive: one step for each action.                    *)

LEMMA InitIInv == Init => IInv
<1> SUFFICES ASSUME Init
             PROVE  IInv
  OBVIOUS
<1>1. /\ engine.versions = <<>> /\ engine.stack = <<>>
      /\ engine \in [versions : Seq(Version), stack : Seq(Nat \ {0})]
  BY DEF Init, NewEngine
<1>2. Sound(engine) /\ ActiveOf(engine) = Tops(engine) /\ Replays(engine, journal)
  BY <1>1 DEF Sound, EngineOK, ActiveOf, Tops, Replays
<1>3. JournalOK(journal) /\ refused \in BOOLEAN
  BY DEF Init, NoRecords, JournalOK
<1> QED
  BY <1>2, <1>3, InvariantParts

LEMMA StepIInv == IInv /\ [Next]_vars => IInv'
<1> SUFFICES ASSUME IInv, [Next]_vars
             PROVE  IInv'
  OBVIOUS
<1>1. /\ Sound(engine) /\ (refused \/ ActiveOf(engine) = Tops(engine))
      /\ JournalOK(journal) /\ (refused \/ Replays(engine, journal))
      /\ refused \in BOOLEAN
  BY InvariantParts
<1>2. CASE ProposeOne
  <2>1. PICK payload \in Payloads : Perform(Propose(engine, payload))
    BY <1>2 DEF ProposeOne
  <2> DEFINE version == [payload |-> payload, status |-> "PROPOSED"]
             n == Len(engine.versions) + 1
             d == [engine EXCEPT !.versions = Append(engine.versions, version)]
  <2>2. Propose(engine, payload) = << Effect(d, n) >>
    BY DEF Propose
  <2>3. /\ d.versions = Append(engine.versions, version) /\ d.stack = engine.stack
        /\ d \in [versions : Seq(Version), stack : Seq(Nat \ {0})]
        /\ engine.versions \in Seq(Version)
    <3>1. engine \in [versions : Seq(Version), stack : Seq(Nat \ {0})]
      BY <1>1 DEF Sound, EngineOK
    <3>2. version \in Version
      BY DEF Version
    <3>3. Append(engine.versions, version) \in Seq(Version)
      BY <3>1, <3>2
    <3> QED
      BY <3>1, <3>3
  <2> HIDE DEF d
  <2>4. DOMAIN d.versions = DOMAIN engine.versions \cup {n} /\ n \notin DOMAIN engine.versions
    BY <2>3
  <2>5. \A u \in DOMAIN engine.versions : d.versions[u] = engine.versions[u]
    BY <2>3
  <2>6. d.versions[n].status = "PROPOSED"
    BY <2>3
  <2>7. EngineOK(d)
    BY <1>1, <2>3, <2>4 DEF Sound, EngineOK
  <2>8. ActiveOf(d) = ActiveOf(engine) /\ Tops(d) = Tops(engine)
    BY <2>3, <2>4, <2>5, <2>6 DEF ActiveOf, Tops
  <2>9. Sound(d) /\ Follows(engine, d, n)
    BY <1>1, <2>4, <2>5, <2>7, <2>8 DEF Sound, Follows
  <2> QED
    BY <1>1, <2>1, <2>2, <2>8, <2>9, PerformOne
<1>3. CASE ActivateOne
  <2>1. PICK v \in DOMAIN engine.versions : Perform(Activate(engine, v))
    BY <1>3 DEF ActivateOne
  <2>2. CASE v \in ActiveOf(engine)
    <3>1. Perform(<<>>)
      BY <2>1, <2>2, ActivateForm
    <3> QED
      BY <3>1, PerformNone
  <2>3. CASE v \notin ActiveOf(engine) /\ ActiveOf(engine) = {}
    <3> DEFINE d == Push(Mark(engine, v, "ACTIVE"), v)
    <3>1. Perform(<< Effect(d, v) >>)
      BY <2>1, <2>3, ActivateForm
    <3>2. Sound(d) /\ Follows(engine, d, v) /\ ActiveOf(d) = Tops(d)
      BY <1>1, <2>3, ActivateEffects
    <3> HIDE DEF d
    <3> QED
      BY <3>1, <3>2, PerformOne
  <2>4. CASE v \notin ActiveOf(engine) /\ ActiveOf(engine) # {}
    <3> DEFINE u == Last(engine.stack)
               c == Mark(engine, u, "DEPRECATED")
               d == Push(Mark(c, v, "ACTIVE"), v)
    <3>1. ActiveOf(engine) = {u} /\ v # u
      BY <1>1, <2>4 DEF Sound, Tops
    <3>2. Perform(<< Effect(c, u), Effect(d, v) >>)
      BY <2>1, <3>1, ActivateForm
    <3>3. c # engine
      <4>1. ActiveOf(c) = ActiveOf(engine) \ {u}
        BY <1>1, <3>1, MarkOK DEF Sound, ActiveOf
      <4> QED
        BY <3>1, <4>1
    <3>4. /\ Sound(c) /\ Follows(engine, c, u)
          /\ Sound(d) /\ Follows(c, d, v) /\ ActiveOf(d) = Tops(d)
      BY <1>1, <2>4, <3>3, ActivateEffects
    <3> HIDE DEF u, c, d
    <3> QED
      BY <3>2, <3>4, PerformTwo
  <2> QED
    BY <2>2, <2>3, <2>4
<1>4. CASE RejectOne
  <2>1. PICK v \in DOMAIN engine.versions : Perform(<< Effect(engine, v) >>)
    BY <1>4 DEF RejectOne, RejectTrial
  <2>2. Follows(engine, engine, v)
    BY DEF Follows
  <2> QED
    BY <1>1, <2>1, <2>2, PerformOne
<1>5. CASE RollBack
  <2> DEFINE u == Last(engine.stack)
             c == Mark(Pop(engine), u, "DEPRECATED")
             d == Mark(c, Last(c.stack), "ACTIVE")
  <2>1. CanRollback(engine) /\ Perform(<< Effect(c, u), Effect(d, Last(c.stack)) >>)
    BY <1>5 DEF RollBack, Rollback
  <2>2. /\ Sound(c) /\ Follows(engine, c, u)
        /\ Sound(d) /\ Follows(c, d, Last(c.stack)) /\ ActiveOf(d) = Tops(d)
    BY <1>1, <2>1, RollbackEffects
  <2> HIDE DEF u, c, d
  <2> QED
    BY <2>1, <2>2, PerformTwo
<1>6. CASE Restart
  <2>1. /\ engine'.versions = <<>> /\ engine'.stack = <<>>
        /\ engine' \in [versions : Seq(Version), stack : Seq(Nat \ {0})]
        /\ refused' = FALSE /\ journal' = journal
    BY <1>6 DEF Restart, NewEngine
  <2>2. Sound(engine') /\ ActiveOf(engine') = Tops(engine') /\ Replays(engine', journal')
    BY <2>1 DEF Sound, EngineOK, ActiveOf, Tops, Replays
  <2> QED
    BY <1>1, <2>1, <2>2, InvariantNext
<1>7. CASE UNCHANGED vars
  BY <1>1, <1>7, InvariantNext DEF vars
<1> QED
  BY <1>2, <1>3, <1>4, <1>5, <1>6, <1>7 DEF Next

(* Giving up what was just activated, in an engine of the invariant.        *)
LEMMA UndoStep == IInv => RollbackUndoes
<1> SUFFICES ASSUME IInv,
                    NEW v \in DOMAIN engine.versions,
                    Activate(engine, v) # <<>>, ActiveOf(engine) # {}
             PROVE  LET on == Activate(engine, v)
                        up == Reached(engine, on, Len(on))
                        back == Rollback(up)
                    IN  ActiveOf(Reached(up, back, Len(back))) = ActiveOf(engine)
  BY DEF RollbackUndoes
<1> DEFINE u == Last(engine.stack)
           c == Mark(engine, u, "DEPRECATED")
           m == Mark(c, v, "ACTIVE")
           d == Push(m, v)
           b == Mark(Pop(d), Last(d.stack), "DEPRECATED")
           a == Mark(b, Last(b.stack), "ACTIVE")
<1>1. Sound(engine)
  BY InvariantParts
<1>2. v \notin ActiveOf(engine)
  BY ActivateForm
<1>3. ActiveOf(engine) = {u} /\ v # u /\ engine.stack # <<>> /\ u \in DOMAIN engine.versions
  BY <1>1, <1>2 DEF Sound, Tops, ActiveOf
<1>4. /\ EngineOK(c) /\ c.stack = engine.stack /\ DOMAIN c.versions = DOMAIN engine.versions
      /\ ActiveOf(c) = {}
  BY <1>1, <1>3, MarkOK DEF Sound
<1>5. EngineOK(m) /\ m.stack = engine.stack /\ DOMAIN m.versions = DOMAIN engine.versions
  BY <1>4, MarkOK
<1>6. Sound(d)
  <2>1. c # engine
    BY <1>3, <1>4
  <2> QED
    BY <1>1, <1>2, <1>3, <2>1, ActivateEffects
<1>7. /\ Front(d.stack) = engine.stack /\ Len(d.stack) = Len(engine.stack) + 1
  BY <1>5, PushOK
<1>8. CanRollback(d)
  <2>1. engine.stack \in Seq(Nat \ {0})
    BY <1>1 DEF Sound, EngineOK
  <2> QED
    BY <1>3, <1>7, <2>1 DEF CanRollback
<1> HIDE DEF u, c, m, d
<1>9. b.stack = engine.stack /\ ActiveOf(a) = {Last(b.stack)}
  <2>1. /\ b.stack = Front(d.stack)
        /\ ActiveOf(a) = {Last(b.stack)}
    BY <1>6, <1>8, RollbackEffects
  <2> QED
    BY <1>7, <2>1
<1>10. LET on == Activate(engine, v) IN Reached(engine, on, Len(on)) = d
  <2>1. Activate(engine, v) = << Effect(c, u), Effect(d, v) >>
    BY <1>3, ActivateForm DEF d, m, c
  <2>2. /\ Len(<< Effect(c, u), Effect(d, v) >>) = 2
        /\ \A w \in 1 .. 2 : Reached(engine, << Effect(c, u), Effect(d, v) >>, w) = Effect(d, v).engine
    BY TwoEffects
  <2> QED
    BY <2>1, <2>2 DEF Effect
<1>11. LET back == Rollback(d) IN Reached(d, back, Len(back)) = a
  <2>1. Rollback(d) = << Effect(b, Last(d.stack)), Effect(a, Last(b.stack)) >>
    BY DEF Rollback
  <2> HIDE DEF a, b
  <2>2. /\ Len(<< Effect(b, Last(d.stack)), Effect(a, Last(b.stack)) >>) = 2
        /\ \A w \in 1 .. 2 : Reached(d, << Effect(b, Last(d.stack)), Effect(a, Last(b.stack)) >>, w)
                               = Effect(a, Last(b.stack)).engine
    BY TwoEffects
  <2> QED
    BY <2>1, <2>2 DEF Effect
<1>12. Last(b.stack) = u
  BY <1>9 DEF u
<1> HIDE DEF a, b
<1> QED
  BY <1>3, <1>12, <1>9, <1>10, <1>11

(* The types, the place of the active version and the journal hold together *)
(* in every reachable state (policy.py:63-136).                             *)
THEOREM PolicyInvariant == Spec => []IInv
<1>1. Init => IInv
  BY InitIInv
<1>2. IInv /\ [Next]_vars => IInv'
  BY StepIInv
<1> QED
  BY <1>1, <1>2, PTL DEF Spec

(* No version is active but the one a rollback would give up                *)
(* (policy.py:80-102), for every set of payloads and without a bound on     *)
(* proposals or activations.                                                *)
THEOREM OneActiveHolds == Spec => []OneActive
<1>1. IInv => OneActive
  BY DEF IInv
<1> QED
  BY <1>1, PolicyInvariant, PTL

(* Until a write raises, the last record of a version is that version       *)
(* (policy.py:5-6, 125-136).                                                *)
THEOREM JournalReplaysHolds == Spec => []JournalReplays
<1>1. IInv => JournalReplays
  BY DEF IInv
<1> QED
  BY <1>1, PolicyInvariant, PTL

(* In every reachable state an activation followed by a rollback has the    *)
(* same version active as before (policy.py:78-104).                        *)
THEOREM RollbackUndoesHolds == Spec => []RollbackUndoes
BY PolicyInvariant, UndoStep, PTL
=============================================================================
