--------------------------- MODULE EventBusProofs ---------------------------
(***************************************************************************)
(* Proofs about EventBus, for any number of threads, subscriptions, topics *)
(* and events.  The lock is shown to work first; from it follow who nests  *)
(* in whom, how far each event has been delivered, and in which order      *)
(* subscribers are served.                                                 *)
(***************************************************************************)
EXTENDS EventBus, FiniteSetTheorems, SequenceTheorems, WellFoundedInduction, TLAPS

USE BusAssumption

-----------------------------------------------------------------------------
(***************************************************************************)
(* Sorting: what the audience of an event is.                              *)
(***************************************************************************)

(* R puts the elements of S in one line.                                    *)
Linear(R, S) ==
    /\ \A x, y \in S : x # y => <<x, y>> \in R \/ <<y, x>> \in R
    /\ \A x, y, z \in S : <<x, y>> \in R /\ <<y, z>> \in R => <<x, z>> \in R

Greatest(R, S, m) == m \in S /\ \A x \in S \ {m} : <<x, m>> \in R

LEMMA LinearSubset ==
    ASSUME NEW S, NEW R, Linear(R, S), NEW A \in SUBSET S
    PROVE  Linear(R, A)
BY DEF Linear

(* The least number with a property, by well-foundedness.                   *)
LEMMA LeastNumber ==
    ASSUME NEW Bad \in SUBSET Nat, Bad # {}
    PROVE  \E n \in Bad : \A m \in Bad : m >= n
<1> DEFINE L == OpToRel(<, Nat)
<1>1. \A m \in Nat, n \in Nat : m < n => <<m, n>> \in L
  BY DEF OpToRel
<1>2. IsWellFoundedOn(L, Nat)
  BY NatLessThanWellFounded
<1> HIDE DEF L
<1>3. PICK n \in Bad : \A m \in Bad : ~(<<m, n>> \in L)
  BY <1>2, WFMin
<1>4. \A m \in Bad : ~(m < n)
  BY <1>1, <1>3
<1> QED
  BY <1>4

(* A finite line has an end ...                                             *)
LEMMA GreatestExists ==
    ASSUME NEW S, IsFiniteSet(S), S # {}, NEW R, Linear(R, S)
    PROVE  \E m : Greatest(R, S, m)
<1> DEFINE Endless(A) == A # {} /\ ~\E m : Greatest(R, A, m)
           Bad == {n \in Nat : \E A \in SUBSET S : Endless(A) /\ Cardinality(A) = n}
<1> SUFFICES ASSUME ~\E m : Greatest(R, S, m)
             PROVE  FALSE
  OBVIOUS
<1>1. Endless(S)
  OBVIOUS
<1> HIDE DEF Endless
<1>2. Cardinality(S) \in Bad
  BY <1>1, FS_CardinalityType
<1>3. PICK n \in Bad : \A m \in Bad : m >= n
  <2>1. Bad \in SUBSET Nat /\ Bad # {}
    BY <1>2
  <2> HIDE DEF Bad
  <2> QED
    BY <2>1, LeastNumber
<1>4. PICK A \in SUBSET S : Endless(A) /\ Cardinality(A) = n
  BY <1>3
<1>5. IsFiniteSet(A)
  BY FS_Subset
<1>6. PICK x : x \in A
  BY <1>4 DEF Endless
<1> DEFINE B == A \ {x}
<1>7. IsFiniteSet(B) /\ Cardinality(B) = n - 1 /\ B \in SUBSET S
  BY <1>4, <1>5, <1>6, FS_RemoveElement
<1>8. CASE B = {}
  <2>1. Greatest(R, A, x)
    BY <1>6, <1>8 DEF Greatest
  <2> QED
    BY <1>4, <2>1 DEF Endless
<1>9. CASE B # {}
  <2>1. Cardinality(B) \in Nat
    BY <1>7, FS_CardinalityType
  <2>2. ~Endless(B)
    <3>1. ASSUME Endless(B)
          PROVE  FALSE
      <4>1. n - 1 \in Bad
        BY <1>7, <2>1, <3>1
      <4>2. n \in Nat
        BY <1>3
      <4> HIDE DEF Bad
      <4>3. n - 1 >= n
        BY <1>3, <4>1
      <4> QED
        BY <4>2, <4>3
    <3> QED
      BY <3>1
  <2>3. PICK m : Greatest(R, B, m)
    BY <1>9, <2>2 DEF Endless
  <2>4. m \in B /\ \A y \in B \ {m} : <<y, m>> \in R
    BY <2>3 DEF Greatest
  <2>5. \/ <<x, m>> \in R
        \/ <<m, x>> \in R
    BY <1>4, <1>6, <2>4 DEF Linear
  <2>6. CASE <<x, m>> \in R
    <3>1. Greatest(R, A, m)
      BY <2>4, <2>6 DEF Greatest
    <3> QED
      BY <1>4, <3>1 DEF Endless
  <2>7. CASE <<m, x>> \in R
    <3>1. \A y \in B : <<y, x>> \in R
      BY <1>4, <1>6, <2>4, <2>7 DEF Linear
    <3>2. Greatest(R, A, x)
      BY <1>6, <3>1 DEF Greatest
    <3> QED
      BY <1>4, <3>2 DEF Endless
  <2> QED
    BY <2>5, <2>6, <2>7
<1> QED
  BY <1>8, <1>9

InLine(R, seq) == \A i, j \in DOMAIN seq : i < j => <<seq[i], seq[j]>> \in R

(* ... so its elements can be listed from one end to the other.             *)
LEMMA ListingExists ==
    ASSUME NEW S, IsFiniteSet(S), NEW R, Linear(R, S)
    PROVE  \E seq \in [1..Cardinality(S) -> S] : InLine(R, seq)
<1> DEFINE Listed(A) == \E seq \in [1..Cardinality(A) -> A] : InLine(R, seq)
           Bad == {n \in Nat : \E A \in SUBSET S : ~Listed(A) /\ Cardinality(A) = n}
<1> SUFFICES ASSUME ~Listed(S)
             PROVE  FALSE
  OBVIOUS
<1> HIDE DEF Listed
<1>1. Cardinality(S) \in Bad
  BY FS_CardinalityType
<1>2. PICK n \in Bad : \A m \in Bad : m >= n
  <2>1. Bad \in SUBSET Nat /\ Bad # {}
    BY <1>1
  <2> HIDE DEF Bad
  <2> QED
    BY <2>1, LeastNumber
<1>3. PICK A \in SUBSET S : ~Listed(A) /\ Cardinality(A) = n
  BY <1>2
<1>4. IsFiniteSet(A) /\ Linear(R, A) /\ n \in Nat
  BY <1>2, FS_Subset, LinearSubset
<1>5. CASE A = {}
  <2>1. Cardinality(A) = 0
    BY <1>5, FS_EmptySet
  <2> DEFINE seq == [i \in 1..0 |-> i]
  <2>2. seq \in [1..Cardinality(A) -> A] /\ InLine(R, seq)
    BY <2>1 DEF InLine
  <2> QED
    BY <1>3, <2>2 DEF Listed
<1>6. CASE A # {}
  <2>1. PICK m : Greatest(R, A, m)
    BY <1>4, <1>6, GreatestExists
  <2>2. m \in A /\ \A y \in A \ {m} : <<y, m>> \in R
    BY <2>1 DEF Greatest
  <2> DEFINE B == A \ {m}
  <2>3. IsFiniteSet(B) /\ Cardinality(B) = n - 1 /\ B \in SUBSET S
    BY <1>3, <1>4, <2>2, FS_RemoveElement
  <2>4. n - 1 \in Nat
    BY <2>3, FS_CardinalityType
  <2>5. Listed(B)
    <3>1. ASSUME ~Listed(B)
          PROVE  FALSE
      <4>1. n - 1 \in Bad
        BY <2>3, <2>4, <3>1
      <4> HIDE DEF Bad
      <4>2. n - 1 >= n
        BY <1>2, <4>1
      <4> QED
        BY <1>4, <4>2
    <3> QED
      BY <3>1
  <2>6. PICK front \in [1..(n - 1) -> B] : InLine(R, front)
    BY <2>3, <2>5 DEF Listed
  <2> DEFINE seq == [i \in 1..n |-> IF i = n THEN m ELSE front[i]]
  <2>7. \A i \in 1..n : i # n => i \in 1..(n - 1)
    BY <1>4
  <2>8. seq \in [1..n -> A]
    BY <2>2, <2>7
  <2>9. ASSUME NEW i \in 1..n, NEW j \in 1..n, i < j
        PROVE  <<seq[i], seq[j]>> \in R
    <3>1. i # n /\ i \in 1..(n - 1) /\ seq[i] = front[i] /\ front[i] \in B
      BY <1>4, <2>7, <2>9
    <3>2. CASE j = n
      BY <2>2, <3>1, <3>2
    <3>3. CASE j # n
      <4>1. j \in 1..(n - 1) /\ seq[j] = front[j]
        BY <2>7, <3>3
      <4> QED
        BY <2>6, <2>9, <3>1, <4>1 DEF InLine
    <3> QED
      BY <3>2, <3>3
  <2>10. DOMAIN seq = 1..n
    OBVIOUS
  <2> HIDE DEF seq
  <2>11. InLine(R, seq)
    BY <2>9, <2>10 DEF InLine
  <2> QED
    BY <1>3, <2>8, <2>11 DEF Listed
<1> QED
  BY <1>5, <1>6

(* Whatever was subscribed, the audience of an event is a list of the       *)
(* subscriptions that match it, in the order of Before.                     *)
LEMMA AudienceListed ==
    ASSUME subs \in Seq(Subs), order \in [Subs -> Int], NEW topic
    PROVE  /\ Audience(topic) \in Listings(topic)
           /\ Audience(topic) \in Seq(Subs)
           /\ \A i \in DOMAIN Audience(topic) : Audience(topic)[i] \in ToSet(subs)
           /\ \A i, j \in DOMAIN Audience(topic) :
                 i < j => Before(Audience(topic)[i], Audience(topic)[j])
<1> DEFINE M == Matching(topic)
           R == {p \in M \X M : Before(p[1], p[2])}
<1>1. M \subseteq ToSet(subs) /\ M \subseteq Subs
  BY DEF Matching, ToSet
<1>2. IsFiniteSet(M)
  <2>1. IsFiniteSet(DOMAIN subs)
    BY FS_Interval
  <2>2. subs \in Surjection(DOMAIN subs, ToSet(subs))
    BY DEF Surjection, ToSet
  <2>3. IsFiniteSet(ToSet(subs))
    BY <2>1, <2>2, FS_Surjection
  <2> QED
    BY <1>1, <2>3, FS_Subset
<1> HIDE DEF M
<1>3. \A s \in M : Place(s) \in DOMAIN subs /\ subs[Place(s)] = s
  BY <1>1 DEF ToSet, Place
<1>4. \A s, u \in M : <<s, u>> \in R <=> Before(s, u)
  OBVIOUS
<1>5. \A s \in M : Place(s) \in Int /\ order[s] \in Int
  BY <1>1, <1>3
<1> HIDE DEF R
<1>6. Linear(R, M)
  <2>1. ASSUME NEW s \in M, NEW u \in M, s # u
        PROVE  <<s, u>> \in R \/ <<u, s>> \in R
    <3>1. Place(s) # Place(u)
      BY <1>3, <2>1
    <3> QED
      BY <1>4, <1>5, <3>1 DEF Before
  <2>2. ASSUME NEW s \in M, NEW u \in M, NEW v \in M, <<s, u>> \in R, <<u, v>> \in R
        PROVE  <<s, v>> \in R
    <3>1. Before(s, u) /\ Before(u, v)
      BY <1>4, <2>2
    <3>2. Before(s, v)
      BY <1>5, <3>1 DEF Before
    <3> QED
      BY <1>4, <3>2
  <2> QED
    BY <2>1, <2>2 DEF Linear
<1>7. PICK seq \in [1..Cardinality(M) -> M] : InLine(R, seq)
  BY <1>2, <1>6, ListingExists
<1>8. \A i, j \in DOMAIN seq : i < j => Before(seq[i], seq[j])
  BY <1>4, <1>7 DEF InLine
<1>9. /\ Audience(topic) \in Listings(topic)
      /\ \A i, j \in DOMAIN Audience(topic) :
            i < j => Before(Audience(topic)[i], Audience(topic)[j])
  BY <1>7, <1>8 DEF Audience, Listings, M
<1>10. Audience(topic) \in Seq(Subs)
  <2>1. Cardinality(M) \in Nat
    BY <1>2, FS_CardinalityType
  <2>2. Audience(topic) \in [1..Cardinality(M) -> M]
    BY <1>9 DEF Listings, M
  <2>3. Audience(topic) \in [1..Cardinality(M) -> Subs]
    BY <1>1, <2>2
  <2> QED
    BY <2>1, <2>3, SeqDef
<1>11. \A i \in DOMAIN Audience(topic) : Audience(topic)[i] \in M
  BY <1>9 DEF Listings, M
<1> QED
  BY <1>1, <1>9, <1>10, <1>11

-----------------------------------------------------------------------------
(***************************************************************************)
(* Types, and the shape of a step.                                         *)
(***************************************************************************)
Phases == {"next", "handler", "report"}
Frame  == [event : Nat, todo : Seq(Subs), phase : Phases]
Entry  == [topic : Topics \cup {BusError}, within : SUBSET Nat, due : Seq(Subs)]
CallType == {<<"none">>} \cup ({"publish"} \X Topics) \cup ({"subscribe"} \X Subs)

TypeOK ==
    /\ subs \in Seq(Subs) /\ order \in [Subs -> Int] /\ counter \in Nat
    /\ log \in Seq(Entry) /\ frames \in [Threads -> Seq(Frame)]
    /\ call \in [Threads -> CallType]
    /\ got \in Seq(Subs \X Nat) /\ after \in [Subs -> SUBSET Subs]

LEMMA CallArguments ==
    ASSUME NEW c \in CallType
    PROVE  /\ c[1] = "publish" => c[2] \in Topics
           /\ c[1] = "subscribe" => c[2] \in Subs
<1>1. CASE c = <<"none">>
  BY <1>1
<1>2. CASE c \in {"publish"} \X Topics
  BY <1>2
<1>3. CASE c \in {"subscribe"} \X Subs
  BY <1>3
<1> QED
  BY <1>1, <1>2, <1>3 DEF CallType

(* The calls that a publish leaves waiting, as it finds them: the same      *)
(* events and the same subscribers still to serve.                          *)
HeldLike(held, stack) ==
    /\ held \in Seq(Frame) /\ DOMAIN held = DOMAIN stack
    /\ \A i \in DOMAIN held :
          /\ held[i].event = stack[i].event /\ held[i].todo = stack[i].todo
          /\ held[i].phase = "handler" <=> stack[i].phase = "handler"

Publishes(t) ==
    /\ \E topic \in Topics \cup {BusError} : \E held :
          HeldLike(held, frames[t]) /\ Publish(t, topic, held)
    /\ frames[t] = <<>> => call[t][1] = "publish"
    /\ UNCHANGED <<subs, order, counter, call, got, after, cut>>

HandlerDone(t) ==
    /\ InPhase(t, "handler")
    /\ \E phase \in {"next", "report"} : SetTop(t, phase, Tail(Top(t).todo))
    /\ UNCHANGED <<subs, order, counter, log, call, got, after, cut>>

LEMMA TopFrame ==
    ASSUME TypeOK, NEW t \in Threads, frames[t] # <<>>
    PROVE  /\ Len(frames[t]) \in Nat /\ Len(frames[t]) >= 1
           /\ DOMAIN frames[t] = 1..Len(frames[t])
           /\ Len(frames[t]) \in DOMAIN frames[t]
           /\ Top(t) = frames[t][Len(frames[t])] /\ Top(t) \in Frame
BY DEF TypeOK, Top, Last

(* Publishing is the same whether a program, a handler or the reporting of  *)
(* an exception does it.                                                    *)
LEMMA PublishKinds ==
    ASSUME TypeOK, NEW t \in Threads, EnterPublish(t) \/ Report(t) \/ HandlerPublishes(t)
    PROVE  Publishes(t)
<1>1. CASE EnterPublish(t)
  <2>1. HeldLike(<<>>, frames[t])
    BY <1>1 DEF EnterPublish, HeldLike
  <2>2. call[t][2] \in Topics
    BY <1>1, CallArguments DEF EnterPublish, TypeOK
  <2> QED
    BY <1>1, <2>1, <2>2 DEF EnterPublish, Publishes
<1>2. CASE HandlerPublishes(t)
  <2>1. HeldLike(frames[t], frames[t])
    BY DEF TypeOK, HeldLike
  <2> QED
    BY <1>2, <2>1 DEF HandlerPublishes, InPhase, Publishes
<1>3. CASE Report(t)
  <2> DEFINE n == Len(frames[t])
             held == [frames[t] EXCEPT ![n].phase = "next"]
  <2>1. /\ n \in Nat /\ n >= 1 /\ DOMAIN frames[t] = 1..n /\ n \in DOMAIN frames[t]
        /\ frames[t] \in Seq(Frame) /\ frames[t][n].phase = "report"
    BY <1>3, TopFrame DEF Report, InPhase, TypeOK
  <2>2. \A f \in Frame : /\ [f EXCEPT !.phase = "next"] \in Frame
                         /\ [f EXCEPT !.phase = "next"].event = f.event
                         /\ [f EXCEPT !.phase = "next"].todo = f.todo
                         /\ [f EXCEPT !.phase = "next"].phase = "next"
    BY DEF Frame, Phases
  <2>3. HeldLike(held, frames[t])
    BY <2>1, <2>2 DEF HeldLike
  <2> QED
    BY <1>3, <2>3 DEF Report, InPhase, Publishes
<1> QED
  BY <1>1, <1>2, <1>3

NewFrame(e) == [event |-> Len(log) + 1, todo |-> e.due, phase |-> "next"]

(* What publishing does to the log and to the publishing thread's stack.    *)
Published(t, held, e) ==
    /\ e \in Entry /\ HeldLike(held, frames[t])
    /\ e.within = {held[i].event : i \in DOMAIN held}
    /\ \A i \in DOMAIN e.due : e.due[i] \in ToSet(subs)
    /\ \A i, j \in DOMAIN e.due : i < j => Before(e.due[i], e.due[j])
    /\ log' = Append(log, e)
    /\ frames'[t] = Append(held, NewFrame(e))
    /\ NewFrame(e) \in Frame
    /\ \A u \in Threads \ {t} : frames'[u] = frames[u] /\ frames[u] = <<>>
    /\ log' \in Seq(Entry) /\ frames' \in [Threads -> Seq(Frame)]

LEMMA PublishEffect ==
    ASSUME TypeOK, NEW t \in Threads, Publishes(t)
    PROVE  \E held, e : Published(t, held, e)
<1>1. PICK topic \in Topics \cup {BusError} :
          \E held : HeldLike(held, frames[t]) /\ Publish(t, topic, held)
  BY DEF Publishes
<1>1a. PICK held : HeldLike(held, frames[t]) /\ Publish(t, topic, held)
  BY <1>1
<1> DEFINE A == Audience(topic)
           W == {held[i].event : i \in DOMAIN held}
           e == [topic |-> topic, within |-> W, due |-> A]
<1>2. /\ A \in Seq(Subs)
      /\ \A i \in DOMAIN A : A[i] \in ToSet(subs)
      /\ \A i, j \in DOMAIN A : i < j => Before(A[i], A[j])
  BY AudienceListed DEF TypeOK
<1>3. W \in SUBSET Nat /\ held \in Seq(Frame)
  <2>1. held \in Seq(Frame)
    BY <1>1a DEF HeldLike
  <2>2. \A i \in DOMAIN held : held[i] \in Frame
    BY <2>1
  <2>3. \A f \in Frame : f.event \in Nat
    BY DEF Frame
  <2> QED
    BY <2>1, <2>2, <2>3
<1>4. /\ MayEnter(t) /\ log' = Append(log, e)
      /\ frames' = [frames EXCEPT ![t] =
            Append(held, [event |-> Len(log) + 1, todo |-> A, phase |-> "next"])]
  BY <1>1a DEF Publish
<1> HIDE DEF A, W
<1>5. e \in Entry /\ e.due = A /\ e.within = W
  BY <1>2, <1>3 DEF Entry
<1> HIDE DEF e
<1>6. NewFrame(e) = [event |-> Len(log) + 1, todo |-> A, phase |-> "next"]
  BY <1>5 DEF NewFrame
<1>7. NewFrame(e) \in Frame
  <2>1. Len(log) + 1 \in Nat
    BY DEF TypeOK
  <2> QED
    BY <1>2, <1>6, <2>1 DEF Frame, Phases
<1>8. log' \in Seq(Entry)
  BY <1>4, <1>5 DEF TypeOK
<1>9. Append(held, NewFrame(e)) \in Seq(Frame)
  BY <1>3, <1>7
<1>10. /\ frames' = [frames EXCEPT ![t] = Append(held, NewFrame(e))]
       /\ frames \in [Threads -> Seq(Frame)]
  BY <1>4, <1>6 DEF TypeOK
<1>11. /\ frames'[t] = Append(held, NewFrame(e)) /\ frames' \in [Threads -> Seq(Frame)]
       /\ \A u \in Threads \ {t} : frames'[u] = frames[u] /\ frames[u] = <<>>
  BY <1>4, <1>9, <1>10 DEF MayEnter
<1> QED
  BY <1>1a, <1>2, <1>4, <1>5, <1>7, <1>8, <1>11 DEF Published, W

(* What moving the running call on does to the stack.                       *)
TopChanged(t, g) ==
    /\ g \in Frame /\ frames[t] # <<>> /\ g.event = Top(t).event
    /\ frames'[t] = [frames[t] EXCEPT ![Len(frames[t])] = g]
    /\ \A u \in Threads \ {t} : frames'[u] = frames[u]
    /\ frames' \in [Threads -> Seq(Frame)]

LEMMA SetTopEffect ==
    ASSUME TypeOK, NEW t \in Threads, frames[t] # <<>>,
           NEW phase \in Phases, NEW todo \in Seq(Subs), SetTop(t, phase, todo)
    PROVE  \E g : TopChanged(t, g) /\ g.phase = phase /\ g.todo = todo
<1> DEFINE n == Len(frames[t])
           g == [Top(t) EXCEPT !.phase = phase, !.todo = todo]
<1>1. /\ n \in DOMAIN frames[t] /\ Top(t) = frames[t][n] /\ Top(t) \in Frame
      /\ frames \in [Threads -> Seq(Frame)]
  BY TopFrame DEF TypeOK
<1>2. g \in Frame /\ g.event = Top(t).event /\ g.phase = phase /\ g.todo = todo
  BY <1>1 DEF Frame
<1>3. frames' = [frames EXCEPT ![t] = [frames[t] EXCEPT ![n] = g]]
  BY <1>1 DEF SetTop
<1> HIDE DEF g
<1>4. [frames[t] EXCEPT ![n] = g] \in Seq(Frame)
  BY <1>1, <1>2
<1>5. /\ frames'[t] = [frames[t] EXCEPT ![n] = g]
      /\ \A u \in Threads \ {t} : frames'[u] = frames[u]
      /\ frames' \in [Threads -> Seq(Frame)]
  BY <1>1, <1>3, <1>4
<1> QED
  BY <1>2, <1>5 DEF TopChanged

LEMMA LeaveEffect ==
    ASSUME TypeOK, NEW t \in Threads, Leave(t)
    PROVE  /\ frames[t] # <<>> /\ frames'[t] \in Seq(Frame)
           /\ DOMAIN frames'[t] = 1..(Len(frames[t]) - 1)
           /\ \A i \in DOMAIN frames'[t] : frames'[t][i] = frames[t][i]
           /\ \A u \in Threads \ {t} : frames'[u] = frames[u]
           /\ frames' \in [Threads -> Seq(Frame)]
<1>1. frames[t] # <<>> /\ frames' = [frames EXCEPT ![t] = Front(@)]
  BY DEF Leave, InPhase
<1>2. frames \in [Threads -> Seq(Frame)]
  BY DEF TypeOK
<1>3. /\ Front(frames[t]) \in Seq(Frame)
      /\ DOMAIN Front(frames[t]) = 1..(Len(frames[t]) - 1)
      /\ \A i \in DOMAIN Front(frames[t]) : Front(frames[t])[i] = frames[t][i]
  BY <1>1, <1>2 DEF Front
<1> QED
  BY <1>1, <1>2, <1>3

(* What is not caught leaves every call of the thread.                      *)
LEMMA ExitEffect ==
    ASSUME TypeOK, NEW t \in Threads, HandlerExits(t)
    PROVE  /\ frames[t] # <<>> /\ frames'[t] = <<>>
           /\ \A u \in Threads \ {t} : frames'[u] = frames[u] /\ call'[u] = call[u]
           /\ frames' \in [Threads -> Seq(Frame)] /\ call' \in [Threads -> CallType]
           /\ call'[t] = <<"none">>
           /\ cut' = cut \cup {frames[t][i].event : i \in DOMAIN frames[t]}
           /\ UNCHANGED <<subs, order, counter, log, got, after>>
<1>1. frames \in [Threads -> Seq(Frame)] /\ call \in [Threads -> CallType]
  BY DEF TypeOK
<1>2. <<"none">> \in CallType /\ <<>> \in Seq(Frame)
  BY DEF CallType
<1> QED
  BY <1>1, <1>2 DEF HandlerExits, InPhase

(* The steps: a call of the bus begins, a delivery, a handler ends, a call   *)
(* returns, or the subscriptions change.                                    *)
LEMMA AllSteps ==
    ASSUME TypeOK, [Next]_vars
    PROVE  \/ \E t \in Threads :
                 \/ Publishes(t) \/ Deliver(t) \/ HandlerDone(t) \/ Leave(t)
                 \/ HandlerExits(t)
                 \/ CallPublish(t) \/ CallSubscribe(t) \/ EnterSubscribe(t)
                 \/ HandlerSubscribes(t) \/ Unsubscribe(t)
           \/ UNCHANGED vars
<1>1. ASSUME NEW t \in Threads, HandlerReturns(t) \/ HandlerRaises(t)
      PROVE  HandlerDone(t)
  BY <1>1 DEF HandlerReturns, HandlerRaises, HandlerDone, Others
<1>2. ASSUME NEW t \in Threads, EnterPublish(t) \/ Report(t) \/ HandlerPublishes(t)
      PROVE  Publishes(t)
  BY <1>2, PublishKinds
<1> QED
  BY <1>1, <1>2 DEF Next, Continue

(* What they do to the stacks.                                              *)
LEMMA StepKinds ==
    ASSUME TypeOK, [Next]_vars
    PROVE  \/ \E t \in Threads : \/ Publishes(t) \/ Deliver(t) \/ HandlerDone(t)
                                 \/ Leave(t) \/ HandlerExits(t)
           \/ UNCHANGED <<log, frames, got, cut>>
BY AllSteps DEF CallPublish, CallSubscribe, EnterSubscribe, HandlerSubscribes, Unsubscribe, vars

(* A running call is moved on in two ways.                                  *)
LEMMA DeliverEffect ==
    ASSUME TypeOK, NEW t \in Threads, Deliver(t)
    PROVE  /\ \E g : TopChanged(t, g) /\ g.phase = "handler" /\ g.todo = Top(t).todo
           /\ Top(t).phase = "next" /\ Top(t).todo # <<>> /\ log' = log
           /\ Head(Top(t).todo) \in Subs
           /\ got' = Append(got, <<Head(Top(t).todo), Top(t).event>>)
           /\ UNCHANGED <<subs, order, counter, call, after, cut>>
<1>1. Top(t) \in Frame /\ frames[t] # <<>>
  BY TopFrame DEF Deliver, InPhase
<1>2. Top(t).todo \in Seq(Subs)
  BY <1>1 DEF Frame
<1>3. \E g : TopChanged(t, g) /\ g.phase = "handler" /\ g.todo = Top(t).todo
  BY <1>1, <1>2, SetTopEffect DEF Deliver, Phases
<1> QED
  BY <1>1, <1>2, <1>3 DEF Deliver, InPhase

LEMMA HandlerDoneEffect ==
    ASSUME TypeOK, NEW t \in Threads, HandlerDone(t), Top(t).todo # <<>>
    PROVE  /\ \E g : TopChanged(t, g) /\ g.phase # "handler" /\ g.todo = Tail(Top(t).todo)
           /\ Top(t).phase = "handler" /\ log' = log /\ got' = got
           /\ UNCHANGED <<subs, order, counter, call, after, cut>>
<1>1. Top(t) \in Frame /\ frames[t] # <<>> /\ Top(t).phase = "handler"
  BY TopFrame DEF HandlerDone, InPhase
<1>2. Tail(Top(t).todo) \in Seq(Subs)
  BY <1>1 DEF Frame
<1>3. PICK phase \in {"next", "report"} : SetTop(t, phase, Tail(Top(t).todo))
  BY DEF HandlerDone
<1>4. \E g : TopChanged(t, g) /\ g.phase # "handler" /\ g.todo = Tail(Top(t).todo)
  <2>1. phase \in Phases /\ phase # "handler"
    BY DEF Phases
  <2> DEFINE rest == Tail(Top(t).todo)
  <2>2. rest \in Seq(Subs) /\ SetTop(t, phase, rest)
    BY <1>2, <1>3
  <2> HIDE DEF rest
  <2>3. PICK g : TopChanged(t, g) /\ g.phase = phase /\ g.todo = rest
    BY <1>1, <2>1, <2>2, SetTopEffect
  <2>4. TopChanged(t, g) /\ g.phase # "handler" /\ g.todo = rest
    BY <2>1, <2>3
  <2> QED
    BY <2>4 DEF rest
<1> QED
  BY <1>1, <1>4 DEF HandlerDone

-----------------------------------------------------------------------------
(***************************************************************************)
(* The lock and the stacks.                                                *)
(***************************************************************************)

(* One thread at a time is in the bus.                                      *)
LockInv == \A t, u \in Threads : frames[t] # <<>> /\ frames[u] # <<>> => t = u

(* A call is inside the earlier calls of its thread.                        *)
FramesInv ==
    \A t \in Threads :
        /\ \A i \in DOMAIN frames[t] :
              /\ frames[t][i].event \in DOMAIN log
              /\ frames[t][i].phase = "handler" => frames[t][i].todo # <<>>
        /\ \A i, j \in DOMAIN frames[t] : i < j => frames[t][i].event < frames[t][j].event

GotInv == \A k \in DOMAIN got : got[k][2] \in DOMAIN log

(* Whatever was logged while an event was being delivered says so.          *)
NestInv ==
    \A t \in Threads : \A i \in DOMAIN frames[t] : \A e \in DOMAIN log :
        e > frames[t][i].event => frames[t][i].event \in log[e].within

StackInv == TypeOK /\ LockInv /\ FramesInv /\ GotInv /\ NestInv

LEMMA Init_StackInv == Init => StackInv
<1> SUFFICES ASSUME Init
             PROVE  StackInv
  OBVIOUS
<1>1. TypeOK
  BY DEF Init, TypeOK, CallType
<1>2. (\A t \in Threads : frames[t] = <<>>) /\ log = <<>> /\ got = <<>>
  BY DEF Init
<1> QED
  BY <1>1, <1>2 DEF StackInv, LockInv, FramesInv, GotInv, NestInv

LEMMA NothingLeft ==
    ASSUME NEW S, NEW seq \in Seq(S), DOMAIN seq = {}
    PROVE  seq = <<>>
<1>1. seq # <<>> => Len(seq) \in Nat \ {0}
  BY EmptySeq
<1>2. DOMAIN seq = 1..Len(seq)
  OBVIOUS
<1>3. Len(seq) \in Nat \ {0} => 1 \in 1..Len(seq)
  OBVIOUS
<1> QED
  BY <1>1, <1>2, <1>3

LEMMA RemovedFrom ==
    ASSUME NEW S, NEW seq \in Seq(S), NEW i \in DOMAIN seq
    PROVE  RemoveAt(seq, i) \in Seq(S) /\ ToSet(RemoveAt(seq, i)) \subseteq ToSet(seq)
<1>1. /\ SubSeq(seq, 1, i - 1) \in Seq(S) /\ SubSeq(seq, i + 1, Len(seq)) \in Seq(S)
      /\ \A k \in DOMAIN SubSeq(seq, 1, i - 1) : SubSeq(seq, 1, i - 1)[k] \in ToSet(seq)
      /\ \A k \in DOMAIN SubSeq(seq, i + 1, Len(seq)) :
            SubSeq(seq, i + 1, Len(seq))[k] \in ToSet(seq)
  BY DEF ToSet
<1> DEFINE a == SubSeq(seq, 1, i - 1)
           b == SubSeq(seq, i + 1, Len(seq))
<1>2. RemoveAt(seq, i) = a \o b
  BY DEF RemoveAt
<1> HIDE DEF a, b
<1>3. a \in Seq(S) /\ b \in Seq(S)
  BY <1>1 DEF a, b
<1>4. /\ \A k \in DOMAIN a : a[k] \in ToSet(seq)
      /\ \A k \in DOMAIN b : b[k] \in ToSet(seq)
  BY <1>1 DEF a, b
<1>5. \A k \in DOMAIN (a \o b) : (a \o b)[k] \in ToSet(seq)
  BY <1>3, <1>4
<1> QED
  BY <1>2, <1>3, <1>5 DEF ToSet

(* Handing the bus from one call to the next keeps the types.               *)
LEMMA TypeStep ==
    ASSUME TypeOK, FramesInv, [Next]_vars
    PROVE  TypeOK'
<1>1. CASE UNCHANGED vars
  BY <1>1 DEF vars, TypeOK
<1>2. ASSUME NEW t \in Threads, CallPublish(t)
      PROVE  TypeOK'
  <2>1. PICK topic \in Topics : call' = [call EXCEPT ![t] = <<"publish", topic>>]
    BY <1>2 DEF CallPublish
  <2>2. <<"publish", topic>> \in CallType
    BY DEF CallType
  <2> QED
    BY <1>2, <2>1, <2>2 DEF CallPublish, TypeOK
<1>3. ASSUME NEW t \in Threads, CallSubscribe(t)
      PROVE  TypeOK'
  <2>1. PICK s \in Subs \ Made :
            /\ order' = [order EXCEPT ![s] = counter]
            /\ after' = [after EXCEPT ![s] = Returned]
            /\ call' = [call EXCEPT ![t] = <<"subscribe", s>>]
    BY <1>3 DEF CallSubscribe
  <2>2. <<"subscribe", s>> \in CallType /\ Returned \in SUBSET Subs
    BY DEF CallType, Returned, Made
  <2>3. after' \in [Subs -> SUBSET Subs] /\ order' \in [Subs -> Int]
    BY <2>1, <2>2 DEF TypeOK
  <2>4. call' \in [Threads -> CallType]
    BY <2>1, <2>2 DEF TypeOK
  <2>5. UNCHANGED <<subs, counter, log, frames, got>>
    BY <1>3 DEF CallSubscribe
  <2> QED
    BY <2>3, <2>4, <2>5 DEF TypeOK
<1>4. ASSUME NEW t \in Threads, HandlerSubscribes(t)
      PROVE  TypeOK'
  <2>1. PICK s \in Subs \ Made :
            /\ order' = [order EXCEPT ![s] = counter]
            /\ after' = [after EXCEPT ![s] = Returned]
            /\ subs' = Append(subs, s)
    BY <1>4 DEF HandlerSubscribes
  <2>2. Returned \in SUBSET Subs
    BY DEF Returned, Made
  <2>3. after' \in [Subs -> SUBSET Subs] /\ order' \in [Subs -> Int] /\ subs' \in Seq(Subs)
    BY <2>1, <2>2 DEF TypeOK
  <2>4. counter' = counter + 1 /\ UNCHANGED <<log, frames, call, got>>
    BY <1>4 DEF HandlerSubscribes
  <2> QED
    BY <2>3, <2>4 DEF TypeOK
<1>5. ASSUME NEW t \in Threads, EnterSubscribe(t)
      PROVE  TypeOK'
  <2>1. call[t][2] \in Subs
    BY <1>5, CallArguments DEF EnterSubscribe, TypeOK
  <2>2. <<"none">> \in CallType
    BY DEF CallType
  <2> QED
    BY <1>5, <2>1, <2>2 DEF EnterSubscribe, TypeOK
<1>6. ASSUME NEW t \in Threads, Unsubscribe(t)
      PROVE  TypeOK'
  <2>1. PICK i \in DOMAIN subs : subs' = RemoveAt(subs, i)
    BY <1>6 DEF Unsubscribe
  <2>2. subs' \in Seq(Subs)
    BY <2>1, RemovedFrom DEF TypeOK
  <2> QED
    BY <1>6, <2>2 DEF Unsubscribe, TypeOK
<1>7. ASSUME NEW t \in Threads, Publishes(t)
      PROVE  TypeOK'
  <2>1. log' \in Seq(Entry) /\ frames' \in [Threads -> Seq(Frame)]
    BY <1>7, PublishEffect DEF Published
  <2> QED
    BY <1>7, <2>1 DEF Publishes, TypeOK
<1>8. ASSUME NEW t \in Threads, Deliver(t)
      PROVE  TypeOK'
  <2>1. frames' \in [Threads -> Seq(Frame)] /\ Head(Top(t).todo) \in Subs
    BY <1>8, DeliverEffect DEF TopChanged
  <2>2. Top(t).event \in Nat
    BY <1>8, TopFrame DEF Deliver, InPhase, Frame
  <2>3. got' \in Seq(Subs \X Nat)
    BY <1>8, <2>1, <2>2 DEF Deliver, TypeOK
  <2> QED
    BY <1>8, <2>1, <2>3 DEF Deliver, TypeOK
<1>9. ASSUME NEW t \in Threads, HandlerDone(t)
      PROVE  TypeOK'
  <2>1. Top(t).todo # <<>>
    BY <1>9, TopFrame DEF HandlerDone, InPhase, FramesInv
  <2>2. frames' \in [Threads -> Seq(Frame)]
    BY <1>9, <2>1, HandlerDoneEffect DEF TopChanged
  <2> QED
    BY <1>9, <2>2 DEF HandlerDone, TypeOK
<1>10. ASSUME NEW t \in Threads, Leave(t)
       PROVE  TypeOK'
  <2>1. frames' \in [Threads -> Seq(Frame)]
    BY <1>10, LeaveEffect
  <2>2. <<"none">> \in CallType
    BY DEF CallType
  <2>3. call' \in [Threads -> CallType]
    BY <1>10, <2>2 DEF Leave, TypeOK
  <2> QED
    BY <1>10, <2>1, <2>3 DEF Leave, TypeOK
<1>11. ASSUME NEW t \in Threads, HandlerExits(t)
       PROVE  TypeOK'
  BY <1>11, ExitEffect DEF TypeOK
<1> QED
  BY <1>1, <1>2, <1>3, <1>4, <1>5, <1>6, <1>7, <1>8, <1>9, <1>10, <1>11, AllSteps

(* The open calls of a stack after a step: those that were open before, or  *)
(* the new one.                                                             *)
LEMMA StackStep ==
    ASSUME StackInv, [Next]_vars
    PROVE  StackInv'
<1> USE DEF StackInv
<1>1. TypeOK'
  BY TypeStep
<1>2. ASSUME NEW t \in Threads, Publishes(t)
      PROVE  LockInv' /\ FramesInv' /\ GotInv' /\ NestInv'
  <2>1. PICK held, e : Published(t, held, e)
    BY <1>2, PublishEffect
  <2> DEFINE n == Len(held)
             f == Append(held, NewFrame(e))
  <2>2. /\ HeldLike(held, frames[t]) /\ held \in Seq(Frame) /\ n \in Nat
        /\ DOMAIN held = 1..n /\ DOMAIN frames[t] = 1..n
    BY <2>1 DEF Published, HeldLike
  <2>3. /\ DOMAIN f = 1..(n + 1)
        /\ \A i \in 1..n : f[i] = held[i]
        /\ f[n + 1] = NewFrame(e) /\ frames'[t] = f
    BY <2>1, <2>2 DEF Published
  <2> HIDE DEF f
  <2>4. /\ log' = Append(log, e) /\ log \in Seq(Entry) /\ Len(log) \in Nat
        /\ DOMAIN log' = 1..(Len(log) + 1) /\ DOMAIN log = 1..Len(log)
        /\ \A k \in DOMAIN log : log'[k] = log[k]
        /\ log'[Len(log) + 1] = e
    BY <2>1 DEF Published, TypeOK
  <2>5. /\ f[n + 1].event = Len(log) + 1 /\ f[n + 1].phase = "next"
    BY <2>3 DEF NewFrame
  <2>6. \A i \in 1..n :
            /\ f[i].event = frames[t][i].event /\ f[i].todo = frames[t][i].todo
            /\ f[i].phase = "handler" <=> frames[t][i].phase = "handler"
    BY <2>2, <2>3 DEF HeldLike
  <2>7. \A u \in Threads \ {t} : frames'[u] = <<>>
    BY <2>1 DEF Published
  <2>8. \A i \in 1..n : f[i].event \in 1..Len(log)
    BY <2>2, <2>4, <2>6 DEF FramesInv
  <2>9. LockInv'
    BY <2>7 DEF LockInv
  <2>10. GotInv'
    BY <1>2, <2>4 DEF GotInv, Publishes
  <2>11. FramesInv'
    <3>1. ASSUME NEW i \in DOMAIN f
          PROVE  f[i].event \in DOMAIN log' /\ (f[i].phase = "handler" => f[i].todo # <<>>)
      <4>1. CASE i = n + 1
        BY <2>4, <2>5, <4>1
      <4>2. CASE i \in 1..n
        BY <2>2, <2>4, <2>6, <2>8, <4>2 DEF FramesInv
      <4> QED
        BY <2>2, <2>3, <4>1, <4>2
    <3>2. ASSUME NEW i \in DOMAIN f, NEW j \in DOMAIN f, i < j
          PROVE  f[i].event < f[j].event
      <4>0. i \in 1..n
        BY <2>2, <2>3, <3>2
      <4>1. CASE j = n + 1
        BY <2>4, <2>5, <2>8, <4>0, <4>1
      <4>2. CASE j \in 1..n
        BY <2>2, <2>6, <3>2, <4>0, <4>2 DEF FramesInv
      <4> QED
        BY <2>2, <2>3, <4>1, <4>2
    <3> QED
      BY <2>3, <2>7, <3>1, <3>2 DEF FramesInv
  <2>12. NestInv'
    <3>1. ASSUME NEW i \in DOMAIN f, NEW k \in DOMAIN log', k > f[i].event
          PROVE  f[i].event \in log'[k].within
      <4>1. i \in 1..n
        BY <2>2, <2>3, <2>4, <2>5, <3>1
      <4>2. CASE k \in DOMAIN log
        BY <2>2, <2>4, <2>6, <3>1, <4>1, <4>2 DEF NestInv
      <4>3. CASE k = Len(log) + 1
        <5>1. e.within = {held[l].event : l \in DOMAIN held}
          BY <2>1 DEF Published
        <5> QED
          BY <2>2, <2>3, <2>4, <4>1, <4>3, <5>1
      <4> QED
        BY <2>4, <4>2, <4>3
    <3> QED
      BY <2>3, <2>7, <3>1 DEF NestInv
  <2> QED
    BY <2>9, <2>10, <2>11, <2>12
<1>3. ASSUME NEW t \in Threads, NEW g, TopChanged(t, g), log' = log,
             g.phase = "handler" => g.todo # <<>>
      PROVE  LockInv' /\ FramesInv' /\ NestInv'
  <2> DEFINE n == Len(frames[t])
             f == frames'[t]
  <2>1. n \in DOMAIN frames[t] /\ Top(t) = frames[t][n] /\ frames[t] # <<>>
    BY <1>3, TopFrame DEF TopChanged
  <2>2. /\ DOMAIN f = DOMAIN frames[t] /\ f[n] = g
        /\ \A i \in DOMAIN f : i # n => f[i] = frames[t][i]
        /\ \A i \in DOMAIN f : f[i].event = frames[t][i].event
    BY <1>3, <2>1 DEF TopChanged
  <2>3. \A u \in Threads \ {t} : frames'[u] = <<>>
    BY <1>3, <2>1 DEF TopChanged, LockInv
  <2>4. LockInv'
    BY <2>3 DEF LockInv
  <2>5. FramesInv'
    <3>1. \A i \in DOMAIN f : f[i].event \in DOMAIN log /\ (f[i].phase = "handler" => f[i].todo # <<>>)
      BY <1>3, <2>1, <2>2 DEF FramesInv
    <3>2. \A i, j \in DOMAIN f : i < j => f[i].event < f[j].event
      BY <2>2 DEF FramesInv
    <3> QED
      BY <1>3, <2>3, <3>1, <3>2 DEF FramesInv
  <2>6. NestInv'
    <3>1. \A i \in DOMAIN f : \A e \in DOMAIN log :
              e > f[i].event => f[i].event \in log[e].within
      BY <2>2 DEF NestInv
    <3> QED
      BY <1>3, <2>3, <3>1 DEF NestInv
  <2> QED
    BY <2>4, <2>5, <2>6
<1>4. ASSUME NEW t \in Threads, Deliver(t)
      PROVE  LockInv' /\ FramesInv' /\ GotInv' /\ NestInv'
  <2>1. LockInv' /\ FramesInv' /\ NestInv'
    BY <1>3, <1>4, DeliverEffect
  <2>2. Top(t).event \in DOMAIN log
    BY <1>4, TopFrame DEF FramesInv, Deliver, InPhase
  <2>3. GotInv'
    <3>1. got' = Append(got, <<Head(Top(t).todo), Top(t).event>>) /\ log' = log
      BY <1>4, DeliverEffect
    <3>2. got \in Seq(Subs \X Nat)
      BY DEF TypeOK
    <3>3. \A k \in DOMAIN got' : got'[k] = <<Head(Top(t).todo), Top(t).event>>
                                  \/ (k \in DOMAIN got /\ got'[k] = got[k])
      BY <3>1, <3>2
    <3> QED
      BY <2>2, <3>1, <3>3 DEF GotInv
  <2> QED
    BY <2>1, <2>3
<1>5. ASSUME NEW t \in Threads, HandlerDone(t)
      PROVE  LockInv' /\ FramesInv' /\ GotInv' /\ NestInv'
  <2>1. Top(t).todo # <<>>
    BY <1>5, TopFrame DEF HandlerDone, InPhase, FramesInv
  <2>2. LockInv' /\ FramesInv' /\ NestInv'
    BY <1>3, <1>5, <2>1, HandlerDoneEffect
  <2>3. GotInv'
    BY <1>5 DEF HandlerDone, GotInv
  <2> QED
    BY <2>2, <2>3
<1>6. ASSUME NEW t \in Threads, Leave(t)
      PROVE  LockInv' /\ FramesInv' /\ GotInv' /\ NestInv'
  <2>1. /\ frames[t] # <<>> /\ DOMAIN frames'[t] \subseteq DOMAIN frames[t]
        /\ \A i \in DOMAIN frames'[t] : frames'[t][i] = frames[t][i]
        /\ \A u \in Threads \ {t} : frames'[u] = <<>>
    BY <1>6, LeaveEffect, TopFrame DEF LockInv
  <2>2. log' = log /\ got' = got
    BY <1>6 DEF Leave
  <2>3. LockInv' /\ GotInv'
    BY <2>1, <2>2 DEF LockInv, GotInv
  <2>4. FramesInv'
    BY <2>1, <2>2 DEF FramesInv
  <2>5. NestInv'
    BY <2>1, <2>2 DEF NestInv
  <2> QED
    BY <2>3, <2>4, <2>5
<1>7. CASE UNCHANGED <<log, frames, got, cut>>
  BY <1>1, <1>7 DEF LockInv, FramesInv, GotInv, NestInv
<1>8. ASSUME NEW t \in Threads, HandlerExits(t)
      PROVE  LockInv' /\ FramesInv' /\ GotInv' /\ NestInv'
  <2>1. \A u \in Threads : frames'[u] = <<>>
    BY <1>8, ExitEffect DEF LockInv
  <2>2. log' = log /\ got' = got
    BY <1>8, ExitEffect
  <2> QED
    BY <2>1, <2>2 DEF LockInv, FramesInv, GotInv, NestInv
<1> QED
  BY <1>1, <1>2, <1>4, <1>5, <1>6, <1>7, <1>8, StepKinds

LEMMA StackInvariant == Spec => []StackInv
<1>1. StackInv /\ [Next]_vars => StackInv'
  BY StackStep
<1> QED
  BY Init_StackInv, <1>1, PTL DEF Spec

-----------------------------------------------------------------------------
(***************************************************************************)
(* In which order one subscriber sees two events.                          *)
(***************************************************************************)

LEMMA LaterFirstStep ==
    ASSUME StackInv, LaterFirstOnlyWithin, [Next]_vars
    PROVE  LaterFirstOnlyWithin'
<1> USE DEF StackInv
<1>1. ASSUME NEW t \in Threads, Deliver(t)
      PROVE  LaterFirstOnlyWithin'
  <2> DEFINE n == Len(frames[t])
             d == <<Head(Top(t).todo), Top(t).event>>
  <2>1. /\ n \in DOMAIN frames[t] /\ Top(t) = frames[t][n]
        /\ got' = Append(got, d) /\ log' = log
    BY <1>1, TopFrame, DeliverEffect DEF Deliver, InPhase
  <2> HIDE DEF n
  <2>2. got \in Seq(Subs \X Nat)
    BY DEF TypeOK
  <2>3. ASSUME NEW i \in DOMAIN got', NEW j \in DOMAIN got', i < j, got'[i][2] > got'[j][2]
        PROVE  got'[i][1] = got'[j][1] => got'[j][2] \in log[got'[i][2]].within
    <3>1. i \in DOMAIN got /\ got'[i] = got[i]
      BY <2>1, <2>2, <2>3
    <3>2. CASE j \in DOMAIN got
      <4>1. got'[j] = got[j]
        BY <2>1, <2>2, <3>2
      <4> QED
        BY <2>3, <3>1, <3>2, <4>1 DEF LaterFirstOnlyWithin
    <3>3. CASE j \notin DOMAIN got
      <4>1. got'[j] = d
        BY <2>1, <2>2, <3>3
      <4>2. got[i][2] \in DOMAIN log
        BY <3>1 DEF GotInv
      <4> QED
        BY <2>1, <2>3, <3>1, <4>1, <4>2 DEF NestInv
    <3> QED
      BY <3>2, <3>3
  <2> QED
    BY <2>1, <2>3 DEF LaterFirstOnlyWithin
<1>2. ASSUME NEW t \in Threads, Publishes(t)
      PROVE  LaterFirstOnlyWithin'
  <2>1. PICK held, e : Published(t, held, e)
    BY <1>2, PublishEffect
  <2>2. got' = got /\ log' = Append(log, e) /\ log \in Seq(Entry)
    BY <1>2, <2>1 DEF Publishes, Published, TypeOK
  <2>3. \A k \in DOMAIN log : log'[k] = log[k]
    BY <2>2
  <2> QED
    BY <2>2, <2>3 DEF LaterFirstOnlyWithin, GotInv
<1>3. ASSUME log' = log, got' = got
      PROVE  LaterFirstOnlyWithin'
  BY <1>3 DEF LaterFirstOnlyWithin
<1> QED
  BY <1>1, <1>2, <1>3, StepKinds DEF HandlerDone, Leave, HandlerExits

(* Events reach a subscriber in log order, but for those published while    *)
(* the earlier one was still being delivered.                               *)
THEOREM LaterFirstOnlyWithinHolds == Spec => []LaterFirstOnlyWithin
<1>1. Init => LaterFirstOnlyWithin
  BY DEF Init, LaterFirstOnlyWithin
<1>2. StackInv /\ LaterFirstOnlyWithin /\ [Next]_vars => LaterFirstOnlyWithin'
  BY LaterFirstStep
<1> QED
  BY <1>1, <1>2, StackInvariant, PTL DEF Spec

-----------------------------------------------------------------------------
(***************************************************************************)
(* How far each event has been delivered.                                  *)
(***************************************************************************)

(* Served, of any record of deliveries and any list of those due.           *)
ServedBy(record, due, e, n) ==
    \E place \in [1..n -> DOMAIN record] :
        /\ \A i, j \in 1..n : i < j => place[i] < place[j]
        /\ \A i \in 1..n : record[place[i]] = <<due[i], e>>
        /\ \A k \in DOMAIN record : record[k][2] = e => \E i \in 1..n : place[i] = k

(* todo is what is left of due after the first k.                           *)
Remaining(todo, due, k) ==
    /\ k \in Nat /\ Len(due) = k + Len(todo)
    /\ \A i \in 1..Len(todo) : todo[i] = due[k + i]

(* A running handler has its event already.                                 *)
Given(f, k) == IF f.phase = "handler" THEN k + 1 ELSE k

FrameServed(f, due, record) ==
    \E k \in Nat : Remaining(f.todo, due, k) /\ ServedBy(record, due, f.event, Given(f, k))

Open(e) == \E t \in Threads : \E i \in DOMAIN frames[t] : frames[t][i].event = e

(* What is no longer being published reached all, or was cut short.         *)
Over(e, due, record, short) ==
    \E n \in 0..Len(due) : ServedBy(record, due, e, n) /\ (e \in short \/ n = Len(due))

ServeInv ==
    /\ \A t \in Threads : \A i \in DOMAIN frames[t] :
          FrameServed(frames[t][i], log[frames[t][i].event].due, got)
    /\ \A e \in DOMAIN log : ~Open(e) => Over(e, log[e].due, got, cut)

LEMMA RemainingTail ==
    ASSUME NEW due \in Seq(Subs), NEW todo \in Seq(Subs), todo # <<>>, NEW k \in Nat,
           Remaining(todo, due, k)
    PROVE  Head(todo) = due[k + 1] /\ Remaining(Tail(todo), due, k + 1)
<1>1. /\ Len(due) = k + Len(todo) /\ Len(todo) \in Nat /\ Len(todo) >= 1
      /\ \A i \in 1..Len(todo) : todo[i] = due[k + i]
  BY DEF Remaining
<1>2. Head(todo) = todo[1] /\ todo[1] = due[k + 1]
  BY <1>1
<1>3. Len(Tail(todo)) = Len(todo) - 1
  BY <1>1
<1>4. ASSUME NEW i \in 1..Len(Tail(todo))
      PROVE  Tail(todo)[i] = due[(k + 1) + i]
  <2>1. i + 1 \in 1..Len(todo) /\ Tail(todo)[i] = todo[i + 1]
    BY <1>1, <1>3
  <2>2. todo[i + 1] = due[k + (i + 1)] /\ k + (i + 1) = (k + 1) + i
    BY <1>1, <2>1
  <2> QED
    BY <2>1, <2>2
<1> QED
  BY <1>1, <1>2, <1>3, <1>4 DEF Remaining

(* Nobody was served who was not delivered to ...                           *)
LEMMA NoneServed ==
    ASSUME NEW record, NEW due, NEW e, \A k \in DOMAIN record : record[k][2] # e
    PROVE  ServedBy(record, due, e, 0)
<1> DEFINE place == [i \in 1..0 |-> 1]
<1>1. place \in [1..0 -> DOMAIN record]
  OBVIOUS
<1>2. /\ \A i, j \in 1..0 : i < j => place[i] < place[j]
      /\ \A i \in 1..0 : record[place[i]] = <<due[i], e>>
  OBVIOUS
<1> HIDE DEF place
<1> QED
  BY <1>1, <1>2 DEF ServedBy

(* ... a delivery of the event serves the next ...                          *)
LEMMA OneMoreServed ==
    ASSUME NEW record \in Seq(Subs \X Nat), NEW due, NEW e, NEW n \in Nat,
           ServedBy(record, due, e, n), NEW d, d = <<due[n + 1], e>>
    PROVE  ServedBy(Append(record, d), due, e, n + 1)
<1>1. PICK place \in [1..n -> DOMAIN record] :
          /\ \A i, j \in 1..n : i < j => place[i] < place[j]
          /\ \A i \in 1..n : record[place[i]] = <<due[i], e>>
          /\ \A k \in DOMAIN record : record[k][2] = e => \E i \in 1..n : place[i] = k
  BY DEF ServedBy
<1> DEFINE last == Len(record) + 1
           more == Append(record, d)
           next == [i \in 1..(n + 1) |-> IF i = n + 1 THEN last ELSE place[i]]
<1>2. /\ DOMAIN record = 1..Len(record) /\ Len(record) \in Nat
      /\ DOMAIN more = 1..last /\ more[last] = d
      /\ \A k \in DOMAIN record : more[k] = record[k]
  OBVIOUS
<1>3. \A i \in 1..(n + 1) : i # n + 1 => i \in 1..n
  OBVIOUS
<1>4. /\ next[n + 1] = last
      /\ \A i \in 1..n : next[i] = place[i] /\ place[i] \in DOMAIN record
      /\ DOMAIN next = 1..(n + 1)
  BY <1>1
<1>5. next \in [1..(n + 1) -> DOMAIN more]
  BY <1>1, <1>2, <1>3
<1> HIDE DEF more, next
<1>6. \A i, j \in 1..(n + 1) : i < j => next[i] < next[j]
  <2> SUFFICES ASSUME NEW i \in 1..(n + 1), NEW j \in 1..(n + 1), i < j
               PROVE  next[i] < next[j]
    OBVIOUS
  <2>1. i \in 1..n
    OBVIOUS
  <2>2. CASE j = n + 1
    BY <1>2, <1>4, <2>1, <2>2
  <2>3. CASE j \in 1..n
    BY <1>1, <1>4, <2>1, <2>3
  <2> QED
    BY <1>3, <2>2, <2>3
<1>7. \A i \in 1..(n + 1) : more[next[i]] = <<due[i], e>>
  <2> SUFFICES ASSUME NEW i \in 1..(n + 1)
               PROVE  more[next[i]] = <<due[i], e>>
    OBVIOUS
  <2>1. CASE i = n + 1
    BY <1>2, <1>4, <2>1
  <2>2. CASE i \in 1..n
    BY <1>1, <1>2, <1>4, <2>2
  <2> QED
    BY <1>3, <2>1, <2>2
<1>8. \A k \in DOMAIN more : more[k][2] = e => \E i \in 1..(n + 1) : next[i] = k
  <2> SUFFICES ASSUME NEW k \in DOMAIN more, more[k][2] = e
               PROVE  \E i \in 1..(n + 1) : next[i] = k
    OBVIOUS
  <2>1. CASE k = last
    BY <1>4, <2>1
  <2>2. CASE k # last
    <3>1. k \in DOMAIN record /\ record[k][2] = e
      BY <1>2, <2>2
    <3>2. PICK i \in 1..n : place[i] = k
      BY <1>1, <3>1
    <3>3. i \in 1..(n + 1) /\ next[i] = k
      BY <1>4, <3>2
    <3> QED
      BY <3>3
  <2> QED
    BY <2>1, <2>2
<1> QED
  BY <1>5, <1>6, <1>7, <1>8 DEF ServedBy, more

(* ... and one of another event serves nobody.                              *)
LEMMA NoMoreServed ==
    ASSUME NEW record \in Seq(Subs \X Nat), NEW due, NEW e, NEW n \in Nat,
           ServedBy(record, due, e, n), NEW d, d[2] # e
    PROVE  ServedBy(Append(record, d), due, e, n)
<1>1. PICK place \in [1..n -> DOMAIN record] :
          /\ \A i, j \in 1..n : i < j => place[i] < place[j]
          /\ \A i \in 1..n : record[place[i]] = <<due[i], e>>
          /\ \A k \in DOMAIN record : record[k][2] = e => \E i \in 1..n : place[i] = k
  BY DEF ServedBy
<1> DEFINE last == Len(record) + 1
           more == Append(record, d)
<1>2. /\ DOMAIN record = 1..Len(record) /\ Len(record) \in Nat
      /\ DOMAIN more = 1..last /\ more[last] = d
      /\ \A k \in DOMAIN record : more[k] = record[k]
  OBVIOUS
<1>3. place \in [1..n -> DOMAIN more]
  BY <1>1, <1>2
<1> HIDE DEF more
<1>4. \A i \in 1..n : more[place[i]] = <<due[i], e>>
  BY <1>1, <1>2
<1>5. \A k \in DOMAIN more : more[k][2] = e => \E i \in 1..n : place[i] = k
  <2> SUFFICES ASSUME NEW k \in DOMAIN more, more[k][2] = e
               PROVE  \E i \in 1..n : place[i] = k
    OBVIOUS
  <2>1. k # last
    BY <1>2
  <2>2. k \in DOMAIN record /\ record[k][2] = e
    BY <1>2, <2>1
  <2> QED
    BY <1>1, <2>2
<1> QED
  BY <1>1, <1>3, <1>4, <1>5 DEF ServedBy, more

(* Only the event, the subscribers left and whether a handler runs matter.  *)
LEMMA FrameServedLike ==
    ASSUME NEW f, NEW g, NEW due, NEW record, FrameServed(f, due, record),
           g.event = f.event, g.todo = f.todo, g.phase = "handler" <=> f.phase = "handler"
    PROVE  FrameServed(g, due, record)
BY DEF FrameServed, Given

LEMMA Init_ServeInv == Init => ServeInv
BY DEF Init, ServeInv

LEMMA ServeStep ==
    ASSUME StackInv, ServeInv, [Next]_vars
    PROVE  ServeInv'
<1> USE DEF StackInv
<1>1a. got \in Seq(Subs \X Nat) /\ log \in Seq(Entry) /\ Len(log) \in Nat
  BY DEF TypeOK
<1>1. ASSUME NEW t \in Threads, Publishes(t)
      PROVE  ServeInv'
  <2>1. PICK held, e : Published(t, held, e)
    BY <1>1, PublishEffect
  <2> DEFINE n == Len(held)
             f == Append(held, NewFrame(e))
             new == Len(log) + 1
  <2>2. /\ HeldLike(held, frames[t]) /\ held \in Seq(Frame) /\ n \in Nat
        /\ DOMAIN held = 1..n /\ DOMAIN frames[t] = 1..n
    BY <2>1 DEF Published, HeldLike
  <2>3. /\ DOMAIN f = 1..(n + 1) /\ \A i \in 1..n : f[i] = held[i]
        /\ f[n + 1] = NewFrame(e) /\ frames'[t] = f
    BY <2>1, <2>2 DEF Published
  <2> HIDE DEF f
  <2>4. /\ log' = Append(log, e) /\ DOMAIN log' = 1..new /\ DOMAIN log = 1..Len(log)
        /\ \A k \in DOMAIN log : log'[k] = log[k] /\ k # new
        /\ log'[new] = e /\ got' = got /\ cut' = cut /\ e \in Entry
    BY <1>1a, <1>1, <2>1 DEF Published, Publishes
  <2>5. \A u \in Threads \ {t} : frames'[u] = <<>> /\ frames[u] = <<>>
    BY <2>1 DEF Published
  <2>6. \A i \in 1..n :
            /\ f[i].event = frames[t][i].event /\ f[i].todo = frames[t][i].todo
            /\ f[i].phase = "handler" <=> frames[t][i].phase = "handler"
            /\ f[i].event \in DOMAIN log
    BY <2>2, <2>3 DEF HeldLike, FramesInv
  <2>7. \A i \in 1..n : FrameServed(f[i], log'[f[i].event].due, got)
    <3> SUFFICES ASSUME NEW i \in 1..n
                 PROVE  FrameServed(f[i], log'[f[i].event].due, got)
      OBVIOUS
    <3>1. FrameServed(frames[t][i], log[frames[t][i].event].due, got)
      BY <2>2 DEF ServeInv
    <3>2. log'[f[i].event].due = log[frames[t][i].event].due
      BY <2>4, <2>6
    <3> QED
      BY <2>6, <3>1, <3>2, FrameServedLike
  <2>8. FrameServed(f[n + 1], log'[f[n + 1].event].due, got)
    <3>1. /\ f[n + 1].event = new /\ f[n + 1].todo = e.due /\ f[n + 1].phase = "next"
          /\ log'[new] = e
      BY <2>3, <2>4 DEF NewFrame
    <3>2. ServedBy(got, e.due, new, 0)
      <4>1. \A k \in DOMAIN got : got[k][2] # new
        BY <2>4 DEF GotInv
      <4> QED
        BY <4>1, NoneServed
    <3>3. Remaining(e.due, e.due, 0)
      <4>1. e.due \in Seq(Subs)
        BY <2>4 DEF Entry
      <4> QED
        BY <4>1 DEF Remaining
    <3> QED
      BY <3>1, <3>2, <3>3 DEF FrameServed, Given
  <2>9. \A u \in Threads : \A i \in DOMAIN frames'[u] :
            FrameServed(frames'[u][i], log'[frames'[u][i].event].due, got')
    <3>1. \A i \in DOMAIN f : i \in 1..n \/ i = n + 1
      BY <2>2, <2>3
    <3>2. \A i \in DOMAIN f : FrameServed(f[i], log'[f[i].event].due, got)
      BY <2>7, <2>8, <3>1
    <3> SUFFICES ASSUME NEW u \in Threads, NEW i \in DOMAIN frames'[u]
                 PROVE  FrameServed(frames'[u][i], log'[frames'[u][i].event].due, got')
      OBVIOUS
    <3>3. u = t
      BY <2>5
    <3>4. i \in DOMAIN f /\ frames'[u] = f /\ got' = got
      BY <2>3, <2>4, <3>3
    <3> QED
      BY <3>2, <3>4
  <2>10. ASSUME NEW k \in DOMAIN log', ~Open(k)'
         PROVE  Over(k, log'[k].due, got', cut')
    <3>1. f[n + 1].event = new /\ n + 1 \in DOMAIN f
      BY <2>2, <2>3 DEF NewFrame
    <3>2. k # new
      BY <2>3, <2>10, <3>1 DEF Open
    <3>3. k \in DOMAIN log
      BY <1>1a, <2>4, <3>2
    <3>4. ~Open(k)
      BY <2>2, <2>3, <2>5, <2>6, <2>10 DEF Open
    <3> QED
      BY <2>4, <3>3, <3>4 DEF ServeInv
  <2> QED
    BY <2>9, <2>10 DEF ServeInv
<1>2. ASSUME NEW t \in Threads, NEW g, TopChanged(t, g), log' = log, cut' = cut,
             \A k \in DOMAIN log : k # g.event =>
                 \A due, n : n \in Nat /\ ServedBy(got, due, k, n) => ServedBy(got', due, k, n),
             FrameServed(g, log[g.event].due, got')
      PROVE  ServeInv'
  <2> DEFINE n == Len(frames[t])
             f == frames'[t]
  <2>1. n \in DOMAIN frames[t] /\ Top(t) = frames[t][n] /\ frames[t] # <<>>
        /\ DOMAIN frames[t] = 1..n
    BY <1>2, TopFrame DEF TopChanged
  <2>2. /\ DOMAIN f = DOMAIN frames[t] /\ f[n] = g
        /\ \A i \in DOMAIN f : i # n => f[i] = frames[t][i]
        /\ \A i \in DOMAIN f : f[i].event = frames[t][i].event
    BY <1>2, <2>1 DEF TopChanged
  <2>3. \A u \in Threads \ {t} : frames'[u] = <<>> /\ frames[u] = <<>>
    BY <1>2, <2>1 DEF TopChanged, LockInv
  <2>4. ASSUME NEW i \in DOMAIN f, i # n
        PROVE  FrameServed(f[i], log[f[i].event].due, got')
    <3>1. f[i].event # g.event /\ f[i].event \in DOMAIN log
      <4>1. i < n
        BY <2>1, <2>2, <2>4
      <4>2. frames[t][i].event < frames[t][n].event /\ frames[t][i].event \in DOMAIN log
        BY <2>1, <2>2, <4>1 DEF FramesInv
      <4>3. frames[t][n].event = g.event
        BY <2>1, <2>2
      <4>4. frames[t][i].event \in Nat
        BY <1>1a, <4>2
      <4> QED
        BY <2>2, <4>2, <4>3, <4>4
    <3>2. FrameServed(f[i], log[f[i].event].due, got)
      BY <2>2, <2>4 DEF ServeInv
    <3>3. PICK k \in Nat : /\ Remaining(f[i].todo, log[f[i].event].due, k)
                           /\ ServedBy(got, log[f[i].event].due, f[i].event, Given(f[i], k))
      BY <3>2 DEF FrameServed
    <3>4. Given(f[i], k) \in Nat
      BY DEF Given
    <3>5. ServedBy(got', log[f[i].event].due, f[i].event, Given(f[i], k))
      BY <1>2, <3>1, <3>3, <3>4
    <3> QED
      BY <3>3, <3>5 DEF FrameServed
  <2>5. \A u \in Threads : \A i \in DOMAIN frames'[u] :
            FrameServed(frames'[u][i], log'[frames'[u][i].event].due, got')
    BY <1>2, <2>2, <2>3, <2>4
  <2>6. ASSUME NEW k \in DOMAIN log', ~Open(k)'
        PROVE  Over(k, log'[k].due, got', cut')
    <3>1. k \in DOMAIN log /\ k # g.event
      BY <1>2, <2>1, <2>2, <2>6 DEF Open
    <3>2. ~Open(k)
      BY <2>2, <2>3, <2>6 DEF Open
    <3>3. PICK m \in 0..Len(log[k].due) :
              ServedBy(got, log[k].due, k, m) /\ (k \in cut \/ m = Len(log[k].due))
      BY <3>1, <3>2 DEF ServeInv, Over
    <3>4. ServedBy(got', log[k].due, k, m)
      BY <1>2, <3>1, <3>3
    <3> QED
      BY <1>2, <3>3, <3>4 DEF Over
  <2> QED
    BY <2>5, <2>6 DEF ServeInv
<1>3. ASSUME NEW t \in Threads, Deliver(t) \/ HandlerDone(t)
      PROVE  /\ frames[t] # <<>> /\ Top(t) \in Frame /\ Top(t).event \in DOMAIN log
             /\ Top(t).todo # <<>> /\ Top(t).todo \in Seq(Subs)
             /\ log[Top(t).event].due \in Seq(Subs)
             /\ FrameServed(Top(t), log[Top(t).event].due, got)
  <2>1. /\ frames[t] # <<>> /\ Len(frames[t]) \in DOMAIN frames[t]
        /\ Top(t) = frames[t][Len(frames[t])] /\ Top(t) \in Frame
    BY <1>3, TopFrame DEF Deliver, HandlerDone, InPhase
  <2>2. Top(t).event \in DOMAIN log /\ (Top(t).phase = "handler" => Top(t).todo # <<>>)
    BY <2>1 DEF FramesInv
  <2>3. Top(t).todo # <<>>
    BY <1>3, <2>2 DEF Deliver, HandlerDone, InPhase
  <2>4. log[Top(t).event] \in Entry
    BY <1>1a, <2>2
  <2>5. FrameServed(Top(t), log[Top(t).event].due, got)
    BY <2>1 DEF ServeInv
  <2> QED
    BY <2>1, <2>2, <2>3, <2>4, <2>5 DEF Entry, Frame
<1>4. ASSUME NEW t \in Threads, Deliver(t)
      PROVE  ServeInv'
  <2> DEFINE e == Top(t).event
             due == log[e].due
             todo == Top(t).todo
             d == <<Head(todo), e>>
  <2>1. PICK g : TopChanged(t, g) /\ g.phase = "handler" /\ g.todo = todo
    BY <1>4, DeliverEffect
  <2>2. /\ Top(t).phase = "next" /\ log' = log /\ got' = Append(got, d)
        /\ g.event = e /\ cut' = cut
    BY <1>4, <2>1, DeliverEffect DEF TopChanged
  <2>3. PICK k \in Nat : Remaining(todo, due, k) /\ ServedBy(got, due, e, k)
    BY <1>3, <1>4, <2>2 DEF FrameServed, Given
  <2>4. todo # <<>> /\ todo \in Seq(Subs) /\ due \in Seq(Subs)
    BY <1>3, <1>4
  <2> HIDE DEF todo, due, e
  <2>5. Head(todo) = due[k + 1]
    BY <2>3, <2>4, RemainingTail
  <2>6. ServedBy(got', due, e, k + 1)
    BY <1>1a, <2>2, <2>3, <2>5, OneMoreServed
  <2>7. FrameServed(g, due, got')
    BY <2>1, <2>2, <2>3, <2>6 DEF FrameServed, Given
  <2>8. ASSUME NEW l \in DOMAIN log, l # g.event, NEW other, NEW n,
               n \in Nat, ServedBy(got, other, l, n)
        PROVE  ServedBy(got', other, l, n)
    <3>1. d[2] # l
      BY <2>2, <2>8
    <3> QED
      BY <1>1a, <2>2, <2>8, <3>1, NoMoreServed
  <2>9. FrameServed(g, log[g.event].due, got')
    BY <2>2, <2>7 DEF due
  <2> QED
    BY <1>2, <2>1, <2>2, <2>8, <2>9
<1>5. ASSUME NEW t \in Threads, HandlerDone(t)
      PROVE  ServeInv'
  <2> DEFINE e == Top(t).event
             due == log[e].due
             todo == Top(t).todo
  <2>1. todo # <<>> /\ todo \in Seq(Subs) /\ due \in Seq(Subs)
    BY <1>3, <1>5
  <2>2. PICK g : TopChanged(t, g) /\ g.phase # "handler" /\ g.todo = Tail(todo)
    BY <1>5, <2>1, HandlerDoneEffect
  <2>3. /\ Top(t).phase = "handler" /\ log' = log /\ got' = got /\ g.event = e
        /\ cut' = cut
    BY <1>5, <2>1, <2>2, HandlerDoneEffect DEF TopChanged
  <2>4. PICK k \in Nat : Remaining(todo, due, k) /\ ServedBy(got, due, e, k + 1)
    BY <1>3, <1>5, <2>3 DEF FrameServed, Given
  <2> HIDE DEF todo, due, e
  <2>5. Remaining(Tail(todo), due, k + 1)
    BY <2>1, <2>4, RemainingTail
  <2>6. FrameServed(g, due, got)
    BY <2>2, <2>3, <2>4, <2>5 DEF FrameServed, Given
  <2>7. FrameServed(g, log[g.event].due, got')
    BY <2>3, <2>6 DEF due
  <2> QED
    BY <1>2, <2>2, <2>3, <2>7
<1>6. ASSUME NEW t \in Threads, Leave(t)
      PROVE  ServeInv'
  <2> DEFINE n == Len(frames[t])
  <2>1. /\ frames[t] # <<>> /\ DOMAIN frames'[t] = 1..(n - 1) /\ DOMAIN frames[t] = 1..n
        /\ \A i \in DOMAIN frames'[t] : frames'[t][i] = frames[t][i]
        /\ \A u \in Threads \ {t} : frames'[u] = <<>> /\ frames[u] = <<>>
        /\ n \in DOMAIN frames[t] /\ n \in Nat /\ Top(t) = frames[t][n]
    BY <1>6, LeaveEffect, TopFrame DEF LockInv
  <2>2. /\ log' = log /\ got' = got /\ cut' = cut
        /\ Top(t).phase = "next" /\ Top(t).todo = <<>>
    BY <1>6 DEF Leave, InPhase
  <2>3. \A u \in Threads : \A i \in DOMAIN frames'[u] :
            FrameServed(frames'[u][i], log'[frames'[u][i].event].due, got')
    BY <2>1, <2>2 DEF ServeInv
  <2>4. ASSUME NEW k \in DOMAIN log', ~Open(k)'
        PROVE  Over(k, log'[k].due, got', cut')
    <3>1. CASE ~Open(k)
      BY <2>2, <2>4, <3>1 DEF ServeInv
    <3>2. CASE k = Top(t).event
      <4>1. FrameServed(Top(t), log[k].due, got)
        BY <2>1, <3>2 DEF ServeInv
      <4>2. PICK m \in Nat : Remaining(<<>>, log[k].due, m) /\ ServedBy(got, log[k].due, k, m)
        BY <2>2, <3>2, <4>1 DEF FrameServed, Given
      <4>3. Len(log[k].due) = m
        BY <4>2 DEF Remaining
      <4> QED
        BY <2>2, <4>2, <4>3 DEF Over
    <3>3. CASE Open(k) /\ k # Top(t).event
      <4>1. PICK u \in Threads : \E i \in DOMAIN frames[u] : frames[u][i].event = k
        BY <3>3 DEF Open
      <4>2. u = t
        BY <2>1, <4>1
      <4>3. PICK i \in DOMAIN frames[t] : frames[t][i].event = k
        BY <4>1, <4>2
      <4>4. i \in DOMAIN frames'[t]
        BY <2>1, <3>3, <4>3
      <4> QED
        BY <2>1, <2>4, <4>3, <4>4 DEF Open
    <3> QED
      BY <3>1, <3>2, <3>3
  <2> QED
    BY <2>3, <2>4 DEF ServeInv
<1>7. CASE UNCHANGED <<log, frames, got, cut>>
  BY <1>7 DEF ServeInv, Open
<1>8. ASSUME NEW t \in Threads, HandlerExits(t)
      PROVE  ServeInv'
  <2>1. /\ \A u \in Threads : frames'[u] = <<>>
        /\ \A u \in Threads \ {t} : frames[u] = <<>>
        /\ log' = log /\ got' = got
        /\ cut' = cut \cup {frames[t][i].event : i \in DOMAIN frames[t]}
    BY <1>8, ExitEffect DEF LockInv
  <2>2. ASSUME NEW k \in DOMAIN log
        PROVE  Over(k, log[k].due, got, cut')
    <3>1. CASE ~Open(k)
      BY <2>1, <3>1 DEF ServeInv, Over
    <3>2. CASE Open(k)
      <4>1. PICK i \in DOMAIN frames[t] : frames[t][i].event = k
        BY <2>1, <3>2 DEF Open
      <4>2. k \in cut'
        BY <2>1, <4>1
      <4> DEFINE f == frames[t][i]
                 due == log[k].due
      <4>3. PICK m \in Nat : Remaining(f.todo, due, m) /\ ServedBy(got, due, k, Given(f, m))
        BY <4>1 DEF ServeInv, FrameServed
      <4>4. f \in Frame /\ (f.phase = "handler" => f.todo # <<>>)
        BY DEF TypeOK, FramesInv
      <4>5. Len(f.todo) \in Nat /\ (f.phase = "handler" => Len(f.todo) >= 1)
        BY <4>4, EmptySeq DEF Frame
      <4>6. Given(f, m) \in 0..Len(due)
        BY <4>3, <4>5 DEF Given, Remaining
      <4> QED
        BY <4>2, <4>3, <4>6 DEF Over
    <3> QED
      BY <3>1, <3>2
  <2>3. \A u \in Threads : \A i \in DOMAIN frames'[u] :
            FrameServed(frames'[u][i], log'[frames'[u][i].event].due, got')
    BY <2>1
  <2>4. \A k \in DOMAIN log' : Over(k, log'[k].due, got', cut')
    BY <2>1, <2>2
  <2> QED
    BY <2>3, <2>4 DEF ServeInv
<1> QED
  BY <1>1, <1>4, <1>5, <1>6, <1>7, <1>8, StepKinds

(* Every event that is no longer being published was given, once and in     *)
(* their order, to those who were due it, or to the first of them when it   *)
(* was cut short.                                                           *)
THEOREM DeliveredOnceHolds == Spec => []DeliveredOnce
<1>1. StackInv /\ ServeInv /\ [Next]_vars => ServeInv'
  BY ServeStep
<1>2. ServeInv => DeliveredOnce
  BY DEF ServeInv, Over, DeliveredOnce, Open, Served, ServedBy
<1> QED
  BY Init_ServeInv, <1>1, <1>2, StackInvariant, PTL DEF Spec

-----------------------------------------------------------------------------
(***************************************************************************)
(* The order of subscription.                                              *)
(***************************************************************************)
OrderInv ==
    /\ \A s \in Made : order[s] <= counter
    /\ \A s \in Returned : order[s] < counter
    /\ \A u \in Subs : \A s \in after[u] : s \in Made /\ order[s] < order[u]
    /\ \A t \in Threads : call[t][1] = "subscribe" => call[t][2] \in Made
    /\ \A i \in DOMAIN subs : subs[i] \in Made
    /\ \A e \in DOMAIN log : \A i \in DOMAIN log[e].due :
          /\ log[e].due[i] \in Made
          /\ \A j \in DOMAIN log[e].due : i < j => order[log[e].due[i]] <= order[log[e].due[j]]

OrderedDue ==
    \A e \in DOMAIN log : \A i \in DOMAIN log[e].due :
        /\ log[e].due[i] \in Made
        /\ \A j \in DOMAIN log[e].due : i < j => order[log[e].due[i]] <= order[log[e].due[j]]

LEMMA Init_OrderInv == Init => OrderInv
<1> SUFFICES ASSUME Init
             PROVE  OrderInv
  OBVIOUS
<1>1. Made = {}
  BY DEF Init, Made
<1>2. /\ subs = <<>> /\ log = <<>> /\ after = [s \in Subs |-> {}]
      /\ \A t \in Threads : call[t] = <<"none">>
  BY DEF Init
<1>3. Returned = {}
  BY <1>1 DEF Returned
<1>4. <<"none">>[1] # "subscribe"
  OBVIOUS
<1> QED
  BY <1>1, <1>2, <1>3, <1>4 DEF OrderInv

(* A subscription that is made is not made again, and what was logged stays *)
(* in order.                                                                *)
LEMMA OrdersFixed ==
    ASSUME StackInv, OrderInv, log' = log, NEW s \in Subs \ Made,
           order' = [order EXCEPT ![s] = counter]
    PROVE  /\ Made' = Made \cup {s} /\ order'[s] = counter
           /\ \A u \in Made : order'[u] = order[u]
           /\ OrderedDue'
<1>1. /\ order \in [Subs -> Int] /\ counter \in Nat /\ log \in Seq(Entry)
  BY DEF StackInv, TypeOK
<1>2. order'[s] = counter /\ \A u \in Subs \ {s} : order'[u] = order[u]
  BY <1>1
<1>3. Made' = Made \cup {s}
  BY <1>1, <1>2 DEF Made
<1>4. \A u \in Made : order'[u] = order[u]
  BY <1>2 DEF Made
<1>5. OrderedDue'
  <2>1. \A e \in DOMAIN log : \A i \in DOMAIN log[e].due :
            /\ log[e].due[i] \in Made
            /\ \A j \in DOMAIN log[e].due : i < j => order[log[e].due[i]] <= order[log[e].due[j]]
    BY DEF OrderInv
  <2> QED
    BY <1>3, <1>4, <2>1 DEF OrderedDue
<1> QED
  BY <1>2, <1>3, <1>4, <1>5

(* Who is in the bus is in a call of publish.                               *)
CallInv == \A t \in Threads : frames[t] # <<>> => call[t][1] = "publish"

LEMMA CallStep ==
    ASSUME StackInv, CallInv, [Next]_vars
    PROVE  CallInv'
<1> USE DEF StackInv
<1>1. call \in [Threads -> CallType] /\ frames \in [Threads -> Seq(Frame)]
  BY DEF TypeOK
<1>2. ASSUME NEW t \in Threads, frames' = frames,
             \A u \in Threads \ {t} : call'[u] = call[u],
             call'[t] = call[t] \/ frames[t] = <<>>
      PROVE  CallInv'
  BY <1>2 DEF CallInv
<1>3. ASSUME NEW t \in Threads,
             CallPublish(t) \/ CallSubscribe(t) \/ EnterSubscribe(t)
      PROVE  CallInv'
  <2>1. frames' = frames /\ frames[t] = <<>> /\ \A u \in Threads \ {t} : call'[u] = call[u]
    <3>1. CASE CallPublish(t)
      BY <1>1, <3>1 DEF CallPublish
    <3>2. CASE CallSubscribe(t)
      BY <1>1, <3>2 DEF CallSubscribe
    <3>3. CASE EnterSubscribe(t)
      BY <1>1, <3>3 DEF EnterSubscribe
    <3> QED
      BY <1>3, <3>1, <3>2, <3>3
  <2> QED
    BY <1>2, <2>1
<1>4. ASSUME NEW t \in Threads, HandlerSubscribes(t) \/ Unsubscribe(t)
      PROVE  CallInv'
  BY <1>2, <1>4 DEF HandlerSubscribes, Unsubscribe
<1>5. ASSUME NEW t \in Threads, Publishes(t)
      PROVE  CallInv'
  <2>1. \A u \in Threads \ {t} : frames'[u] = <<>>
    BY <1>5, PublishEffect DEF Published
  <2>2. call' = call /\ call[t][1] = "publish"
    BY <1>5 DEF Publishes, CallInv
  <2> QED
    BY <2>1, <2>2 DEF CallInv
<1>6. ASSUME NEW t \in Threads, NEW g, TopChanged(t, g), call' = call
      PROVE  CallInv'
  BY <1>6 DEF TopChanged, CallInv
<1>7. ASSUME NEW t \in Threads, Deliver(t)
      PROVE  CallInv'
  BY <1>6, <1>7, DeliverEffect
<1>8. ASSUME NEW t \in Threads, HandlerDone(t)
      PROVE  CallInv'
  <2>1. Top(t).todo # <<>>
    BY <1>8, TopFrame DEF HandlerDone, InPhase, FramesInv
  <2> QED
    BY <1>6, <1>8, <2>1, HandlerDoneEffect
<1>9. ASSUME NEW t \in Threads, Leave(t)
      PROVE  CallInv'
  <2>1. /\ frames[t] # <<>> /\ DOMAIN frames'[t] = 1..(Len(frames[t]) - 1)
        /\ \A u \in Threads \ {t} : frames'[u] = frames[u]
        /\ frames'[t] \in Seq(Frame)
    BY <1>9, LeaveEffect
  <2>2. \A u \in Threads \ {t} : call'[u] = call[u]
    BY <1>1, <1>9 DEF Leave
  <2>3. CASE Len(frames[t]) = 1
    <3>1. frames'[t] = <<>>
      <4>1. DOMAIN frames'[t] = {}
        BY <2>1, <2>3
      <4> QED
        BY <2>1, <4>1, NothingLeft
    <3> QED
      BY <2>1, <2>2, <3>1 DEF CallInv
  <2>4. CASE Len(frames[t]) # 1
    <3>1. call' = call
      BY <1>9, <2>4 DEF Leave
    <3> QED
      BY <2>1, <3>1 DEF CallInv
  <2> QED
    BY <2>3, <2>4
<1>10. CASE UNCHANGED vars
  BY <1>10 DEF vars, CallInv
<1>11. ASSUME NEW t \in Threads, HandlerExits(t)
       PROVE  CallInv'
  BY <1>11, ExitEffect DEF CallInv
<1> QED
  BY <1>3, <1>4, <1>5, <1>7, <1>8, <1>9, <1>10, <1>11, AllSteps

LEMMA OrderStep ==
    ASSUME StackInv, CallInv, OrderInv, [Next]_vars
    PROVE  OrderInv'
<1> USE DEF StackInv
<1>1. /\ order \in [Subs -> Int] /\ counter \in Nat /\ log \in Seq(Entry) /\ subs \in Seq(Subs)
      /\ after \in [Subs -> SUBSET Subs] /\ call \in [Threads -> CallType]
      /\ Made \subseteq Subs /\ Returned \subseteq Made
  BY DEF TypeOK, Made, Returned
<1>2. ASSUME NEW t \in Threads, CallSubscribe(t)
      PROVE  OrderInv'
  <2>1. PICK s \in Subs \ Made :
            /\ order' = [order EXCEPT ![s] = counter]
            /\ after' = [after EXCEPT ![s] = Returned]
            /\ call' = [call EXCEPT ![t] = <<"subscribe", s>>]
    BY <1>2 DEF CallSubscribe
  <2>2. UNCHANGED <<subs, counter, log>> /\ call[t] = <<"none">>
    BY <1>2 DEF CallSubscribe
  <2>3. /\ Made' = Made \cup {s} /\ order'[s] = counter
        /\ \A u \in Made : order'[u] = order[u]
        /\ OrderedDue'
    BY <2>1, <2>2, OrdersFixed
  <2>4. /\ call'[t] = <<"subscribe", s>> /\ \A u \in Threads \ {t} : call'[u] = call[u]
        /\ call'[t][1] = "subscribe" /\ call'[t][2] = s
    BY <1>1, <2>1
  <2>5. Returned' \subseteq Returned
    <3>1. s \in {call'[u][2] : u \in {v \in Threads : call'[v][1] = "subscribe"}}
      BY <2>4
    <3>2. call[t][1] # "subscribe"
      BY <2>2
    <3>3. {call[u][2] : u \in {v \in Threads : call[v][1] = "subscribe"}}
            \subseteq {call'[u][2] : u \in {v \in Threads : call'[v][1] = "subscribe"}}
      BY <2>4, <3>2
    <3> QED
      BY <2>3, <3>1, <3>3 DEF Returned
  <2>6. \A u \in Made' : order'[u] <= counter'
    BY <1>1, <2>2, <2>3 DEF OrderInv
  <2>7. \A u \in Returned' : order'[u] < counter'
    BY <1>1, <2>2, <2>3, <2>5 DEF OrderInv
  <2>8. ASSUME NEW u \in Subs, NEW r \in after'[u]
        PROVE  r \in Made' /\ order'[r] < order'[u]
    <3>1. CASE u = s
      <4>1. r \in Returned /\ r \in Made /\ order[r] < counter
        BY <1>1, <2>1, <2>8, <3>1 DEF OrderInv
      <4> QED
        BY <2>3, <3>1, <4>1
    <3>2. CASE u # s
      <4>1. r \in Made /\ order[r] < order[u]
        BY <1>1, <2>1, <2>8, <3>2 DEF OrderInv
      <4>2. order'[u] = order[u]
        BY <1>1, <2>1, <3>2
      <4> QED
        BY <2>3, <4>1, <4>2
    <3> QED
      BY <3>1, <3>2
  <2>9. \A u \in Threads : call'[u][1] = "subscribe" => call'[u][2] \in Made'
    BY <2>3, <2>4 DEF OrderInv
  <2>10. \A i \in DOMAIN subs' : subs'[i] \in Made'
    BY <2>2, <2>3 DEF OrderInv
  <2> QED
    BY <2>3, <2>6, <2>7, <2>8, <2>9, <2>10 DEF OrderInv, OrderedDue
<1>3. ASSUME NEW t \in Threads, HandlerSubscribes(t)
      PROVE  OrderInv'
  <2>1. PICK s \in Subs \ Made :
            /\ order' = [order EXCEPT ![s] = counter]
            /\ after' = [after EXCEPT ![s] = Returned]
            /\ subs' = Append(subs, s)
    BY <1>3 DEF HandlerSubscribes
  <2>2. UNCHANGED <<call, log>> /\ counter' = counter + 1
    BY <1>3 DEF HandlerSubscribes
  <2>3. /\ Made' = Made \cup {s} /\ order'[s] = counter
        /\ \A u \in Made : order'[u] = order[u]
        /\ OrderedDue'
    BY <2>1, <2>2, OrdersFixed
  <2>4. \A u \in Made' : order'[u] < counter'
    BY <1>1, <2>2, <2>3 DEF OrderInv
  <2>5. \A u \in Made' : order'[u] <= counter'
    BY <1>1, <2>2, <2>3 DEF OrderInv
  <2>6. Returned' \subseteq Made'
    BY DEF Returned
  <2>8. ASSUME NEW u \in Subs, NEW r \in after'[u]
        PROVE  r \in Made' /\ order'[r] < order'[u]
    <3>1. CASE u = s
      <4>1. r \in Returned /\ r \in Made /\ order[r] < counter
        BY <1>1, <2>1, <2>8, <3>1 DEF OrderInv
      <4> QED
        BY <2>3, <3>1, <4>1
    <3>2. CASE u # s
      <4>1. r \in Made /\ order[r] < order[u]
        BY <1>1, <2>1, <2>8, <3>2 DEF OrderInv
      <4>2. order'[u] = order[u]
        BY <1>1, <2>1, <3>2
      <4> QED
        BY <2>3, <4>1, <4>2
    <3> QED
      BY <3>1, <3>2
  <2>9. \A u \in Threads : call'[u][1] = "subscribe" => call'[u][2] \in Made'
    BY <2>2, <2>3 DEF OrderInv
  <2>10. \A i \in DOMAIN subs' : subs'[i] \in Made'
    BY <1>1, <2>1, <2>3 DEF OrderInv
  <2> QED
    BY <2>3, <2>4, <2>5, <2>6, <2>8, <2>9, <2>10 DEF OrderInv, OrderedDue
<1>4. ASSUME NEW t \in Threads, EnterSubscribe(t)
      PROVE  OrderInv'
  <2>1. /\ counter' = counter + 1 /\ subs' = Append(subs, call[t][2])
        /\ call' = [call EXCEPT ![t] = <<"none">>] /\ call[t][1] = "subscribe"
        /\ UNCHANGED <<order, log, after>>
    BY <1>4 DEF EnterSubscribe
  <2>2. Made' = Made /\ Returned' \subseteq Made
    BY <2>1 DEF Made, Returned
  <2>3. \A u \in Made : order[u] < counter' /\ order[u] <= counter'
    BY <1>1, <2>1 DEF OrderInv
  <2>4. \A u \in Threads : call'[u][1] = "subscribe" => call'[u][2] \in Made
    BY <1>1, <2>1 DEF OrderInv
  <2>5. \A i \in DOMAIN subs' : subs'[i] \in Made
    BY <1>1, <2>1 DEF OrderInv
  <2> QED
    BY <2>1, <2>2, <2>3, <2>4, <2>5 DEF OrderInv
<1>5. ASSUME UNCHANGED <<order, counter, after, subs, log>>,
             \A u \in Threads : call'[u][1] = "subscribe" <=> call[u][1] = "subscribe",
             \A u \in Threads : call[u][1] = "subscribe" => call'[u] = call[u]
      PROVE  OrderInv'
  <2>1. Made' = Made
    BY <1>5 DEF Made
  <2>2. Returned' = Returned
    BY <1>5, <2>1 DEF Returned
  <2> QED
    BY <1>5, <2>1, <2>2 DEF OrderInv
<1>6. ASSUME NEW t \in Threads, CallPublish(t)
      PROVE  OrderInv'
  <2>1. PICK topic \in Topics : call' = [call EXCEPT ![t] = <<"publish", topic>>]
    BY <1>6 DEF CallPublish
  <2>2. UNCHANGED <<subs, order, counter, log, after>> /\ call[t] = <<"none">>
    BY <1>6 DEF CallPublish
  <2>3. call'[t][1] # "subscribe" /\ call[t][1] # "subscribe"
    BY <1>1, <2>1, <2>2
  <2>4. \A u \in Threads \ {t} : call'[u] = call[u]
    BY <1>1, <2>1
  <2> QED
    BY <1>5, <2>2, <2>3, <2>4
<1>7. ASSUME NEW t \in Threads, Unsubscribe(t)
      PROVE  OrderInv'
  <2>1. PICK i \in DOMAIN subs : subs' = RemoveAt(subs, i)
    BY <1>7 DEF Unsubscribe
  <2>2. UNCHANGED <<order, counter, log, call, after>>
    BY <1>7 DEF Unsubscribe
  <2>3. ToSet(subs') \subseteq ToSet(subs)
    BY <1>1, <2>1, RemovedFrom
  <2>4. \A k \in DOMAIN subs' : subs'[k] \in Made
    BY <2>3 DEF ToSet, OrderInv
  <2>5. Made' = Made /\ Returned' = Returned
    BY <2>2 DEF Made, Returned
  <2> QED
    BY <2>2, <2>4, <2>5 DEF OrderInv
<1>8. ASSUME NEW t \in Threads, Publishes(t)
      PROVE  OrderInv'
  <2>1. PICK held, e : Published(t, held, e)
    BY <1>8, PublishEffect
  <2>2. UNCHANGED <<subs, order, counter, call, after>> /\ log' = Append(log, e) /\ e \in Entry
    BY <1>8, <2>1 DEF Publishes, Published
  <2>3. Made' = Made /\ Returned' = Returned
    BY <2>2 DEF Made, Returned
  <2>4. ASSUME NEW i \in DOMAIN e.due
        PROVE  /\ e.due[i] \in Made
               /\ \A j \in DOMAIN e.due : i < j => order[e.due[i]] <= order[e.due[j]]
    <3>1. \A j \in DOMAIN e.due : e.due[j] \in Made /\ order[e.due[j]] \in Int
      BY <1>1, <2>1 DEF Published, ToSet, OrderInv
    <3>2. ASSUME NEW j \in DOMAIN e.due, i < j
          PROVE  order[e.due[i]] <= order[e.due[j]]
      <4>1. Before(e.due[i], e.due[j])
        BY <2>1, <3>2 DEF Published
      <4> QED
        BY <3>1, <4>1 DEF Before
    <3> QED
      BY <3>1, <3>2
  <2>5. \A k \in DOMAIN log' : log'[k] = e \/ (k \in DOMAIN log /\ log'[k] = log[k])
    BY <1>1, <2>2
  <2>6. OrderedDue'
    BY <2>2, <2>3, <2>4, <2>5 DEF OrderedDue, OrderInv
  <2> QED
    BY <2>2, <2>3, <2>6 DEF OrderInv, OrderedDue
<1>9. ASSUME NEW t \in Threads, Deliver(t) \/ HandlerDone(t)
      PROVE  OrderInv'
  BY <1>5, <1>9 DEF Deliver, HandlerDone
<1>10. ASSUME NEW t \in Threads, Leave(t)
       PROVE  OrderInv'
  <2>1. UNCHANGED <<subs, order, counter, log, after>> /\ frames[t] # <<>>
    BY <1>10 DEF Leave, InPhase
  <2>2. call[t][1] = "publish"
    BY <2>1 DEF CallInv
  <2>3. \/ call' = call
        \/ call' = [call EXCEPT ![t] = <<"none">>]
    BY <1>10 DEF Leave
  <2> QED
    BY <1>1, <1>5, <2>1, <2>2, <2>3
<1>11. CASE UNCHANGED vars
  BY <1>5, <1>11 DEF vars
<1>12. ASSUME NEW t \in Threads, HandlerExits(t)
       PROVE  OrderInv'
  <2>1. /\ UNCHANGED <<subs, order, counter, log, after>> /\ frames[t] # <<>>
        /\ call'[t] = <<"none">> /\ \A u \in Threads \ {t} : call'[u] = call[u]
    BY <1>12, ExitEffect
  <2>2. call[t][1] = "publish" /\ call'[t][1] = "none"
    BY <2>1 DEF CallInv
  <2> QED
    BY <1>5, <2>1, <2>2
<1> QED
  BY <1>2, <1>3, <1>4, <1>6, <1>7, <1>8, <1>9, <1>10, <1>11, <1>12, AllSteps

(* Who had subscribed before another asked to is served before it.          *)
THEOREM EarlierServedFirstHolds == Spec => []EarlierServedFirst
<1>1. Init => CallInv
  BY DEF Init, CallInv
<1>2. StackInv /\ CallInv /\ [Next]_vars => CallInv'
  BY CallStep
<1>3. StackInv /\ CallInv /\ OrderInv /\ [Next]_vars => OrderInv'
  BY OrderStep
<1>4. StackInv /\ OrderInv => EarlierServedFirst
  <2> SUFFICES ASSUME StackInv, OrderInv, NEW e \in DOMAIN log,
                      NEW i \in DOMAIN log[e].due, NEW j \in DOMAIN log[e].due, i < j
               PROVE  log[e].due[j] \notin after[log[e].due[i]]
    BY DEF EarlierServedFirst
  <2> DEFINE a == log[e].due[i]
             b == log[e].due[j]
  <2>1. a \in Made /\ b \in Made /\ order[a] <= order[b]
    BY DEF OrderInv
  <2>2. a \in Subs /\ order[a] \in Int /\ order[b] \in Int
    BY <2>1 DEF Made, StackInv, TypeOK
  <2>3. b \in after[a] => order[b] < order[a]
    BY <2>2 DEF OrderInv
  <2> QED
    BY <2>1, <2>2, <2>3
<1> QED
  BY Init_OrderInv, <1>1, <1>2, <1>3, <1>4, StackInvariant, PTL DEF Spec
=============================================================================
