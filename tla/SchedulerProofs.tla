-------------------------- MODULE SchedulerProofs --------------------------
(***************************************************************************)
(* What the operators of TaskGraph guarantee, for every graph; that they   *)
(* are what the code's two graph algorithms compute, for every finite      *)
(* graph; and that a scheduler never leaves its callers with nothing to do.*)
(***************************************************************************)
EXTENDS Scheduler, FiniteSetTheorems, SequenceTheorems, WellFoundedInduction, TLAPS

(* The search is exact: it misses no live dependent of what it visits ...   *)
LEMMA BlockedIsClosed ==
    ASSUME NEW T, NEW D \in [T -> SUBSET T], NEW st \in [T -> TaskStatus],
           NEW t \in T
    PROVE  ClosedUnderBlocking(D, st, t, Blocked(D, st, t))
<1> SUFFICES ASSUME NEW c \in T, st[c] \notin TerminalStatus,
                    NEW p \in D[c], p = t \/ p \in Blocked(D, st, t),
                    NEW S \in SUBSET T, ClosedUnderBlocking(D, st, t, S)
             PROVE  c \in S
  BY DEF ClosedUnderBlocking, Blocked
<1>1. p = t \/ p \in S
  BY DEF Blocked
<1> QED
  BY <1>1 DEF ClosedUnderBlocking

(* ... and it visits nothing without a reason: a task it reaches is live    *)
(* and depends on the failed task or on another task it reaches.            *)
LEMMA BlockedHasReason ==
    ASSUME NEW T, NEW D \in [T -> SUBSET T], NEW st \in [T -> TaskStatus],
           NEW t \in T, NEW c \in Blocked(D, st, t)
    PROVE  /\ c \in T /\ st[c] \notin TerminalStatus
           /\ \E p \in D[c] : p = t \/ p \in Blocked(D, st, t)
<1> DEFINE B == Blocked(D, st, t)
           Reason(x) == /\ st[x] \notin TerminalStatus
                        /\ \E p \in D[x] : p = t \/ p \in B
           S == {x \in B : Reason(x)}
<1>1. B \subseteq T
  BY DEF Blocked
<1>2. ClosedUnderBlocking(D, st, t, S)
  <2> SUFFICES ASSUME NEW x \in T, st[x] \notin TerminalStatus,
                      NEW p \in D[x], p = t \/ p \in S
               PROVE  x \in S
    BY DEF ClosedUnderBlocking
  <2>1. p = t \/ p \in B
    OBVIOUS
  <2>2. x \in B
    BY <2>1, BlockedIsClosed DEF ClosedUnderBlocking
  <2> QED
    BY <2>1, <2>2
<1>3. c \in S
  BY <1>1, <1>2 DEF Blocked
<1> QED
  BY <1>1, <1>3

(***************************************************************************)
(* The effect of failing a running task, when whatever was started sits on *)
(* completed dependencies and nothing was cancelled yet: the task is       *)
(* FAILED, only pending tasks change besides, they become BLOCKED, never   *)
(* one whose dependencies are all completed, and blocking is exact again.  *)
(***************************************************************************)
LEMMA FailEffect ==
    ASSUME NEW T, NEW D \in [T -> SUBSET T], NEW st \in [T -> TaskStatus],
           NEW t \in T, st[t] = "RUNNING", t \notin D[t],
           \A u \in T : st[u] \notin {"READY", "CANCELLED"},
           \A u \in T : st[u] \in {"RUNNING", "COMPLETED", "FAILED"} =>
                           \A d \in D[u] : st[d] = "COMPLETED",
           BlockedConsistent(D, st)
    PROVE  /\ Fail(D, st, t) \in [T -> TaskStatus]
           /\ Fail(D, st, t)[t] = "FAILED"
           /\ \A u \in T \ {t} :
                 \/ Fail(D, st, t)[u] = st[u]
                 \/ /\ st[u] = "PENDING" /\ Fail(D, st, t)[u] = "BLOCKED"
                    /\ \E d \in D[u] : st[d] # "COMPLETED"
           /\ BlockedConsistent(D, Fail(D, st, t))
<1> DEFINE f   == [st EXCEPT ![t] = "FAILED"]
           hit == Blocked(D, f, t)
           s   == Fail(D, st, t)
<1>1. f \in [T -> TaskStatus] /\ f[t] = "FAILED" /\ \A u \in T \ {t} : f[u] = st[u]
  BY DEF TaskStatus
<1>2. s = [c \in T |-> IF c \in hit THEN "BLOCKED" ELSE f[c]]
  BY DEF Fail
<1> HIDE DEF f, s
<1>3. \A u \in hit : /\ u \in T /\ f[u] \notin TerminalStatus
                     /\ \E p \in D[u] : p = t \/ p \in hit
  BY <1>1, BlockedHasReason
<1>4. ClosedUnderBlocking(D, f, t, hit)
  BY <1>1, BlockedIsClosed
<1> HIDE DEF hit
<1>5. t \notin hit
  BY <1>1, <1>3 DEF TerminalStatus
<1>6. s \in [T -> TaskStatus] /\ s[t] = "FAILED"
  BY <1>1, <1>2, <1>5 DEF TaskStatus
<1>7. ASSUME NEW u \in hit
      PROVE  /\ u \in T \ {t} /\ st[u] = "PENDING"
             /\ \E d \in D[u] : st[d] # "COMPLETED"
  <2>1. u \in T \ {t} /\ f[u] = st[u] /\ st[u] \notin TerminalStatus
    BY <1>1, <1>3, <1>5, <1>7
  <2>2. PICK p \in D[u] : p = t \/ p \in hit
    BY <1>3, <1>7
  <2>3. st[p] # "COMPLETED"
    BY <2>2, <1>1, <1>3, <1>5 DEF TerminalStatus
  <2>4. st[u] # "RUNNING"
    BY <2>1, <2>2, <2>3
  <2> QED
    BY <2>1, <2>2, <2>3, <2>4 DEF TaskStatus, TerminalStatus
<1>8. ASSUME NEW u \in T
      PROVE  s[u] = "BLOCKED" <=> \E d \in D[u] : s[d] \in {"FAILED", "BLOCKED"}
  <2>1. st[u] = "BLOCKED" <=> \E d \in D[u] : st[d] \in {"FAILED", "BLOCKED"}
    BY DEF BlockedConsistent
  <2>2. D[u] \subseteq T
    OBVIOUS
  <2>3. CASE u \in hit
    <3>1. s[u] = "BLOCKED"
      BY <1>2, <2>3
    <3>2. PICK p \in D[u] : p = t \/ p \in hit
      BY <1>3, <2>3
    <3>3. s[p] \in {"FAILED", "BLOCKED"}
      BY <3>2, <2>2, <1>2, <1>6
    <3> QED
      BY <3>1, <3>2, <3>3
  <2>4. CASE u = t
    <3>1. \A d \in D[t] : st[d] = "COMPLETED" /\ d # t
      OBVIOUS
    <3>2. \A d \in D[t] : s[d] = "COMPLETED"
      BY <3>1, <2>2, <2>4, <1>1, <1>2, <1>7
    <3> QED
      BY <2>4, <3>2, <1>6
  <2>5. CASE u \notin hit /\ u # t
    <3>1. s[u] = st[u] /\ f[u] = st[u]
      BY <2>5, <1>1, <1>2
    <3>2. CASE st[u] = "BLOCKED"
      <4>1. PICK d \in D[u] : st[d] \in {"FAILED", "BLOCKED"}
        BY <2>1, <3>2
      <4>2. d \notin hit /\ d # t
        BY <4>1, <1>7
      <4>3. s[d] = st[d]
        BY <4>2, <2>2, <1>1, <1>2
      <4> QED
        BY <3>1, <3>2, <4>1, <4>3
    <3>3. CASE st[u] # "BLOCKED"
      <4> SUFFICES ASSUME NEW d \in D[u], s[d] \in {"FAILED", "BLOCKED"}
                   PROVE  FALSE
        BY <3>1, <3>3
      <4>1. d = t \/ d \in hit
        BY <2>1, <2>2, <3>3, <1>1, <1>2
      <4>2. st[u] \in TerminalStatus
        BY <4>1, <2>5, <3>1, <1>1, <1>4 DEF ClosedUnderBlocking
      <4>3. st[d] # "COMPLETED"
        BY <4>1, <1>7, <2>2
      <4>4. st[u] \notin {"RUNNING", "COMPLETED", "FAILED"}
        BY <4>3
      <4> QED
        BY <4>2, <4>4, <3>3 DEF TerminalStatus
    <3> QED
      BY <3>2, <3>3
  <2> QED
    BY <2>3, <2>4, <2>5
<1>9. BlockedConsistent(D, s)
  BY <1>6, <1>8 DEF BlockedConsistent
<1>10. \A u \in T \ {t} :
          \/ s[u] = st[u]
          \/ st[u] = "PENDING" /\ s[u] = "BLOCKED" /\ \E d \in D[u] : st[d] # "COMPLETED"
  BY <1>1, <1>2, <1>7
<1> QED
  BY <1>6, <1>9, <1>10 DEF s

(* Tasks that have not ended can only wait for one another in a circle: in  *)
(* an acyclic graph where nothing runs, nothing is ready and blocking is    *)
(* exact, every task has ended.                                             *)
LEMMA QuiescentIsDone ==
    ASSUME NEW T, NEW D \in [T -> SUBSET T], NEW st \in [T -> TaskStatus],
           Acyclic(D), BlockedConsistent(D, st),
           \A u \in T : st[u] \notin {"READY", "RUNNING", "CANCELLED"},
           Ready(D, st) = {}
    PROVE  Done(st)
<1> DEFINE W == {u \in T : st[u] = "PENDING"}
<1> SUFFICES ASSUME W # {}
             PROVE  FALSE
  BY DEF Done, TaskStatus, TerminalStatus
<1>1. PICK u \in W : D[u] \cap W = {}
  BY DEF Acyclic
<1>2. \A d \in D[u] : st[d] \in {"COMPLETED", "FAILED", "BLOCKED"}
  BY <1>1 DEF TaskStatus
<1>3. \A d \in D[u] : st[d] \notin {"FAILED", "BLOCKED"}
  BY DEF BlockedConsistent
<1>4. u \in Ready(D, st)
  BY <1>2, <1>3 DEF Ready
<1> QED
  BY <1>4

(* No task of an acyclic graph depends on itself. *)
LEMMA NoSelfDependency ==
    ASSUME NEW T, NEW D \in [T -> SUBSET T], Acyclic(D), NEW t \in T
    PROVE  t \notin D[t]
<1>1. {t} \in SUBSET DOMAIN D /\ {t} # {}
  OBVIOUS
<1> QED
  BY <1>1 DEF Acyclic

-----------------------------------------------------------------------------
(***************************************************************************)
(* Loops.  A loop is a recursive function of the number of turns, and what *)
(* holds of it is proved by counting up, from the least counterexample.    *)
(***************************************************************************)
LEMMA LeastNumber ==
    ASSUME NEW Bad \in SUBSET Nat, Bad # {}
    PROVE  \E n \in Bad : \A m \in Bad : m >= n
<1> DEFINE L == OpToRel(<, Nat)
<1>1. \A m \in Nat, n \in Nat : m < n => <<m, n>> \in L
  BY DEF OpToRel
<1>2. IsWellFoundedOn(L, Nat)
  BY NatLessThanWellFounded
<1> HIDE DEF L
<1>3. PICK n \in Bad : \A m \in Bad : ~(<<m, n>> \in L)
  BY <1>2, WFMin
<1>4. \A m \in Bad : ~(m < n)
  BY <1>1, <1>3
<1> QED
  BY <1>4

LEMMA CountUp ==
    ASSUME NEW N \in Nat, NEW Good, 0 \in Good,
           \A k \in 0 .. N - 1 : k \in Good => k + 1 \in Good
    PROVE  \A k \in 0 .. N : k \in Good
<1> DEFINE Bad == {k \in 0 .. N : k \notin Good}
<1> SUFFICES ASSUME Bad # {}
             PROVE  FALSE
  OBVIOUS
<1>1. PICK n \in Bad : \A m \in Bad : m >= n
  <2>1. Bad \in SUBSET Nat /\ Bad # {}
    OBVIOUS
  <2> HIDE DEF Bad
  <2> QED
    BY <2>1, LeastNumber
<1>2. n # 0 /\ n - 1 \in 0 .. N - 1 /\ n \notin Good
  OBVIOUS
<1>3. n - 1 \in Good
  BY <1>1, <1>2
<1>4. (n - 1) + 1 \in Good
  BY <1>2, <1>3
<1> QED
  BY <1>2, <1>4

(* A loop whose turn keeps to a set of states is a function of the turns.   *)
LoopOf(f, N, S, start, turn) ==
    /\ f \in [0 .. N -> S]
    /\ f[0] = start /\ \A k \in 1 .. N : f[k] = turn[f[k - 1]]

KeepsTo(turn, S) == turn \in [S -> S]

LEMMA LoopExists ==
    ASSUME NEW N, N \in Nat, NEW S, NEW start, start \in S, NEW turn, KeepsTo(turn, S)
    PROVE  \E f : LoopOf(f, N, S, start, turn)
<1> USE DEF LoopOf, KeepsTo
<1> DEFINE Loop(n, f) == f[0] = start /\ \A k \in 1 .. n : f[k] = turn[f[k - 1]]
           Good == {n \in 0 .. N : \E f \in [0 .. n -> S] : Loop(n, f)}
<1>1. 0 \in Good
  <2> DEFINE f == [k \in 0 .. 0 |-> start]
  <2>1. f \in [0 .. 0 -> S] /\ Loop(0, f)
    OBVIOUS
  <2> HIDE DEF f, Loop
  <2> QED
    BY <2>1
<1>2. ASSUME NEW n \in 0 .. N - 1, n \in Good
      PROVE  n + 1 \in Good
  <2>1. PICK f \in [0 .. n -> S] : Loop(n, f)
    BY <1>2
  <2> DEFINE g == [k \in 0 .. n + 1 |-> IF k = n + 1 THEN turn[f[n]] ELSE f[k]]
  <2>2. g \in [0 .. n + 1 -> S] /\ g[0] = start /\ g[n + 1] = turn[f[n]]
        /\ \A k \in 0 .. n : g[k] = f[k]
    BY <2>1
  <2>3. ASSUME NEW k \in 1 .. n + 1
        PROVE  g[k] = turn[g[k - 1]]
    <3>1. k - 1 \in 0 .. n /\ g[k - 1] = f[k - 1]
      BY <2>2
    <3> HIDE DEF g
    <3>2. CASE k = n + 1
      BY <2>2, <3>1, <3>2
    <3>3. CASE k # n + 1
      <4>1. k \in 1 .. n
        BY <3>3
      <4> QED
        BY <2>1, <2>2, <3>1, <4>1
    <3> QED
      BY <3>2, <3>3
  <2> HIDE DEF g
  <2>4. Loop(n + 1, g)
    BY <2>2, <2>3
  <2> QED
    BY <2>2, <2>4
<1>3. N \in Good
  <2> HIDE DEF Good
  <2>1. \A k \in 0 .. N : k \in Good
    BY <1>1, <1>2, CountUp
  <2> QED
    BY <2>1
<1> QED
  BY <1>3

(***************************************************************************)
(* Lists.                                                                  *)
(***************************************************************************)
Distinct(q) == \A i, j \in 1 .. Len(q) : q[i] = q[j] => i = j

LEMMA ListedSet ==
    ASSUME NEW S, IsFiniteSet(S)
    PROVE  /\ SetToSeq(S) \in Seq(S) /\ Len(SetToSeq(S)) = Cardinality(S)
           /\ ToSet(SetToSeq(S)) = S /\ Distinct(SetToSeq(S))
<1> DEFINE n == Cardinality(S)  s == SetToSeq(S)
<1>1. n \in Nat /\ ExistsBijection(1 .. n, S)
  BY FS_CardinalityType
<1>2. PICK b \in Bijection(1 .. n, S) : TRUE
  BY <1>1 DEF ExistsBijection
<1>3. b \in [1 .. n -> S] /\ IsInjective(b)
  BY <1>2 DEF Bijection, Injection, IsInjective
<1>4. s \in [1 .. n -> S] /\ IsInjective(s)
  BY <1>3 DEF SetToSeq
<1> HIDE DEF s
<1>5. s \in Seq(S) /\ Len(s) = n
  BY <1>1, <1>4
<1>6. Distinct(s)
  BY <1>4, <1>5 DEF Distinct, IsInjective
<1>7. s \in Injection(1 .. n, S)
  BY <1>4 DEF Injection, IsInjective
<1>8. IsFiniteSet(1 .. n) /\ Cardinality(1 .. n) = n
  BY <1>1, FS_Interval
<1>9. s \in Surjection(1 .. n, S)
  BY <1>7, <1>8, FS_Injection
<1>10. ToSet(s) = S
  BY <1>4, <1>5, <1>9 DEF Surjection, ToSet
<1> QED
  BY <1>5, <1>6, <1>10 DEF s

LEMMA NonEmptyList ==
    ASSUME NEW T, NEW q \in Seq(T), q # <<>>
    PROVE  \E n \in Nat : Len(q) = n + 1
<1>1. Len(q) \in Nat \ {0}
  BY EmptySeq
<1>2. Len(q) - 1 \in Nat /\ Len(q) = (Len(q) - 1) + 1
  BY <1>1
<1> QED
  BY <1>2

LEMMA EmptyList ==
    ASSUME NEW T, NEW q \in Seq(T)
    PROVE  q = <<>> <=> ToSet(q) = {}
<1>1. ASSUME q # <<>>
      PROVE  ToSet(q) # {}
  <2>1. Len(q) \in Nat \ {0} /\ DOMAIN q = 1 .. Len(q)
    BY <1>1, EmptySeq
  <2>2. q[1] \in ToSet(q)
    BY <2>1 DEF ToSet
  <2> QED
    BY <2>2
<1>2. ASSUME q = <<>>
      PROVE  ToSet(q) = {}
  BY <1>2 DEF ToSet
<1> QED
  BY <1>1, <1>2

(* The last of a list and what is before it, the first and what is behind. *)
LEMMA FrontOf ==
    ASSUME NEW T, NEW q \in Seq(T), q # <<>>
    PROVE  /\ Len(q) \in Nat \ {0} /\ Last(q) \in T /\ Last(q) = q[Len(q)]
           /\ Front(q) \in Seq(T) /\ Len(Front(q)) = Len(q) - 1
           /\ \A i \in 1 .. Len(q) - 1 : Front(q)[i] = q[i]
<1>1. Len(q) \in Nat \ {0}
  BY EmptySeq
<1>2. PICK n \in Nat : Len(q) = n + 1
  BY NonEmptyList
<1>3. /\ SubSeq(q, 1, n) \in Seq(T) /\ Len(SubSeq(q, 1, n)) = n
      /\ \A i \in 1 .. n : SubSeq(q, 1, n)[i] = q[i]
  BY <1>2
<1>4. Last(q) = q[Len(q)] /\ Last(q) \in T
  BY <1>1, ElementOfSeq DEF Last
<1> QED
  BY <1>1, <1>2, <1>3, <1>4 DEF Front

(* Popping the last of the queue.                                           *)
LEMMA FrontOfDistinct ==
    ASSUME NEW T, NEW q \in Seq(T), q # <<>>, Distinct(q)
    PROVE  /\ Last(q) \in ToSet(q) /\ Distinct(Front(q))
           /\ ToSet(Front(q)) = ToSet(q) \ {Last(q)}
<1>1. PICK n \in Nat : Len(q) = n + 1
  BY NonEmptyList
<1>2. /\ DOMAIN q = 1 .. n + 1 /\ DOMAIN Front(q) = 1 .. n /\ Len(Front(q)) = n
      /\ Last(q) = q[n + 1] /\ \A i \in 1 .. n : Front(q)[i] = q[i]
  <2>1. /\ Front(q) \in Seq(T) /\ Len(Front(q)) = Len(q) - 1 /\ Last(q) = q[Len(q)]
        /\ \A i \in 1 .. Len(q) - 1 : Front(q)[i] = q[i]
    BY FrontOf
  <2>2. Len(q) - 1 = n
    BY <1>1
  <2>3. DOMAIN q = 1 .. Len(q) /\ DOMAIN Front(q) = 1 .. Len(Front(q))
    BY <2>1
  <2> QED
    BY <1>1, <2>1, <2>2, <2>3
<1>3. Distinct(Front(q))
  BY <1>1, <1>2 DEF Distinct
<1>4. Last(q) \in ToSet(q)
  BY <1>1, <1>2 DEF ToSet
<1>5. ASSUME NEW x
      PROVE  x \in ToSet(Front(q)) <=> x \in ToSet(q) /\ x # Last(q)
  <2>1. ASSUME x \in ToSet(Front(q))
        PROVE  x \in ToSet(q) /\ x # Last(q)
    <3>1. PICK i \in 1 .. n : x = q[i]
      BY <2>1, <1>2 DEF ToSet
    <3>2. i \in 1 .. n + 1 /\ i # n + 1 /\ n + 1 \in 1 .. n + 1
      OBVIOUS
    <3> QED
      BY <3>1, <3>2, <1>1, <1>2 DEF ToSet, Distinct
  <2>2. ASSUME x \in ToSet(q), x # Last(q)
        PROVE  x \in ToSet(Front(q))
    <3>1. PICK i \in 1 .. n + 1 : x = q[i]
      BY <2>2, <1>2 DEF ToSet
    <3>2. i \in 1 .. n
      BY <3>1, <2>2, <1>2
    <3> QED
      BY <3>1, <3>2, <1>2 DEF ToSet
  <2> QED
    BY <2>1, <2>2
<1> QED
  BY <1>3, <1>4, <1>5

LEMMA HeadOf ==
    ASSUME NEW T, NEW q \in Seq(T), q # <<>>
    PROVE  /\ Len(q) \in Nat \ {0} /\ Head(q) \in T /\ Head(q) \in ToSet(q)
           /\ Tail(q) \in Seq(T) /\ Len(Tail(q)) = Len(q) - 1
           /\ ToSet(q) = {Head(q)} \cup ToSet(Tail(q))
<1>1. PICK n \in Nat : Len(q) = n + 1
  BY NonEmptyList
<1>2. /\ DOMAIN q = 1 .. n + 1 /\ DOMAIN Tail(q) = 1 .. n /\ Len(Tail(q)) = n
      /\ Head(q) = q[1] /\ Tail(q) \in Seq(T) /\ q[1] \in T
      /\ \A i \in 1 .. n : Tail(q)[i] = q[i + 1]
  BY <1>1
<1>3. Head(q) \in ToSet(q)
  BY <1>2 DEF ToSet
<1>4. ToSet(Tail(q)) \subseteq ToSet(q)
  <2> SUFFICES ASSUME NEW i \in 1 .. n
               PROVE  q[i + 1] \in ToSet(q)
    BY <1>2 DEF ToSet
  <2>1. i + 1 \in 1 .. n + 1
    OBVIOUS
  <2> QED
    BY <1>2, <2>1 DEF ToSet
<1>5. ASSUME NEW x \in ToSet(q), x # Head(q)
      PROVE  x \in ToSet(Tail(q))
  <2>1. PICK i \in 1 .. n + 1 : x = q[i]
    BY <1>2 DEF ToSet
  <2>2. i # 1
    BY <1>2, <1>5, <2>1
  <2>3. i - 1 \in 1 .. n /\ (i - 1) + 1 = i
    BY <2>2
  <2>4. Tail(q)[i - 1] = x
    BY <1>2, <2>1, <2>3
  <2> QED
    BY <1>2, <2>3, <2>4 DEF ToSet
<1> QED
  BY <1>1, <1>2, <1>3, <1>4, <1>5

LEMMA ConcatSet ==
    ASSUME NEW T, NEW q \in Seq(T), NEW r \in Seq(T)
    PROVE  /\ q \o r \in Seq(T) /\ Len(q \o r) = Len(q) + Len(r)
           /\ ToSet(q \o r) = ToSet(q) \cup ToSet(r)
<1>1. /\ Len(q) \in Nat /\ Len(r) \in Nat /\ q \o r \in Seq(T) /\ Len(q \o r) = Len(q) + Len(r)
      /\ DOMAIN q = 1 .. Len(q) /\ DOMAIN r = 1 .. Len(r)
      /\ DOMAIN (q \o r) = 1 .. Len(q) + Len(r)
  OBVIOUS
<1>2. \A i \in 1 .. Len(q) + Len(r) :
         (q \o r)[i] = IF i <= Len(q) THEN q[i] ELSE r[i - Len(q)]
  OBVIOUS
<1>3. \A i \in 1 .. Len(q) + Len(r) : i <= Len(q) => i \in 1 .. Len(q) /\ q[i] \in ToSet(q)
  BY <1>1 DEF ToSet
<1>4. \A i \in 1 .. Len(q) + Len(r) :
         ~(i <= Len(q)) => i - Len(q) \in 1 .. Len(r) /\ r[i - Len(q)] \in ToSet(r)
  BY <1>1 DEF ToSet
<1>5. ToSet(q \o r) \subseteq ToSet(q) \cup ToSet(r)
  BY <1>1, <1>2, <1>3, <1>4 DEF ToSet
<1>6. ToSet(q) \subseteq ToSet(q \o r)
  <2> SUFFICES ASSUME NEW i \in 1 .. Len(q)
               PROVE  q[i] \in ToSet(q \o r)
    BY <1>1 DEF ToSet
  <2>1. i \in 1 .. Len(q) + Len(r) /\ (q \o r)[i] = q[i]
    BY <1>1, <1>2
  <2> QED
    BY <2>1, <1>1 DEF ToSet
<1>7. ToSet(r) \subseteq ToSet(q \o r)
  <2> SUFFICES ASSUME NEW i \in 1 .. Len(r)
               PROVE  r[i] \in ToSet(q \o r)
    BY <1>1 DEF ToSet
  <2>1. i + Len(q) \in 1 .. Len(q) + Len(r) /\ ~(i + Len(q) <= Len(q)) /\ (i + Len(q)) - Len(q) = i
    BY <1>1
  <2>2. (q \o r)[i + Len(q)] = r[i]
    BY <2>1, <1>2
  <2> QED
    BY <2>1, <2>2, <1>1 DEF ToSet
<1> QED
  BY <1>1, <1>5, <1>6, <1>7

(* Lists that share nothing make a list without repetitions.                *)
LEMMA JoinedLists ==
    ASSUME NEW T, NEW q \in Seq(T), NEW r \in Seq(T), Distinct(q), Distinct(r),
           ToSet(q) \cap ToSet(r) = {}
    PROVE  Distinct(q \o r)
<1>1. Len(q) \in Nat /\ Len(r) \in Nat /\ Len(q \o r) = Len(q) + Len(r)
  OBVIOUS
<1>2. \A i \in 1 .. Len(q) + Len(r) :
         (q \o r)[i] = IF i <= Len(q) THEN q[i] ELSE r[i - Len(q)]
  OBVIOUS
<1>3. \A i \in 1 .. Len(q) + Len(r) : i <= Len(q) => i \in 1 .. Len(q) /\ q[i] \in ToSet(q)
  BY <1>1 DEF ToSet
<1>4. \A i \in 1 .. Len(q) + Len(r) :
         ~(i <= Len(q)) => i - Len(q) \in 1 .. Len(r) /\ r[i - Len(q)] \in ToSet(r)
  BY <1>1 DEF ToSet
<1> SUFFICES ASSUME NEW i \in 1 .. Len(q) + Len(r), NEW j \in 1 .. Len(q) + Len(r),
                    (q \o r)[i] = (q \o r)[j]
             PROVE  i = j
  BY <1>1 DEF Distinct
<1>5. CASE i <= Len(q) /\ j <= Len(q)
  BY <1>2, <1>3, <1>5 DEF Distinct
<1>6. CASE ~(i <= Len(q)) /\ ~(j <= Len(q))
  <2>1. i - Len(q) = j - Len(q)
    BY <1>2, <1>4, <1>6 DEF Distinct
  <2> QED
    BY <1>1, <2>1
<1>7. ~(i <= Len(q) /\ ~(j <= Len(q))) /\ ~(~(i <= Len(q)) /\ j <= Len(q))
  BY <1>2, <1>3, <1>4
<1> QED
  BY <1>5, <1>6, <1>7

-----------------------------------------------------------------------------
(* Kahn's algorithm. *)

IsGraph(graph, T) == IsFiniteSet(T) /\ graph \in [T -> SUBSET T]

(* The states of Kahn's loop ... *)
KahnStates(T) == [indegree : [T -> Int], visited : Nat, queue : Seq(T)]

LEMMA KahnStartTyped ==
    ASSUME NEW T, NEW graph, IsGraph(graph, T)
    PROVE  KahnStart(graph) \in KahnStates(T)
<1> USE DEF IsGraph
<1>1. \A t \in T : Cardinality(graph[t]) \in Int
  BY FS_Subset, FS_CardinalityType
<1> DEFINE S == {t \in T : Cardinality(graph[t]) = 0}
<1>2. IsFiniteSet(S)
  BY FS_Subset
<1>3. SetToSeq(S) \in Seq(T)
  BY <1>2, ListedSet, SeqMonotonic
<1> QED
  BY <1>1, <1>3 DEF KahnStart, KahnStates

LEMMA KahnTurnTyped ==
    ASSUME NEW T, NEW graph, IsGraph(graph, T), NEW s \in KahnStates(T), s.queue # <<>>
    PROVE  KahnTurn(graph, s) \in KahnStates(T)
<1> DEFINE tid == Last(s.queue)
           left == [u \in T |-> IF tid \in graph[u] THEN s.indegree[u] - 1 ELSE s.indegree[u]]
           S == {u \in T : tid \in graph[u] /\ left[u] = 0}
<1>1. DOMAIN graph = T
  BY DEF IsGraph
<1>2. KahnTurn(graph, s) = [indegree |-> left, visited |-> s.visited + 1,
                            queue |-> Front(s.queue) \o SetToSeq(S)]
  BY <1>1 DEF KahnTurn
<1>3. s.indegree \in [T -> Int] /\ s.visited \in Nat /\ s.queue \in Seq(T)
  BY DEF KahnStates
<1>4. left \in [T -> Int]
  BY <1>3
<1>5. IsFiniteSet(S) /\ S \subseteq T
  BY FS_Subset DEF IsGraph
<1> HIDE DEF S, left
<1>6. SetToSeq(S) \in Seq(T)
  BY <1>5, ListedSet, SeqMonotonic
<1>7. Front(s.queue) \o SetToSeq(S) \in Seq(T)
  BY <1>3, <1>6, FrontOf, ConcatProperties
<1> QED
  BY <1>2, <1>3, <1>4, <1>7 DEF KahnStates

(* ... and the loop as a function of the turns. *)
LEMMA KahnLoopIs ==
    ASSUME NEW T, NEW graph, IsGraph(graph, T),
           NEW N, N = Cardinality(T), NEW loop, loop = KahnLoop(graph)
    PROVE  /\ N \in Nat /\ loop \in [0 .. N -> KahnStates(T)]
           /\ loop[0] = KahnStart(graph)
           /\ \A k \in 1 .. N : loop[k] = IF loop[k - 1].queue = <<>> THEN loop[k - 1]
                                          ELSE KahnTurn(graph, loop[k - 1])
<1> DEFINE Body(f, k) == IF k = 0 THEN KahnStart(graph)
                         ELSE IF f[k - 1].queue = <<>> THEN f[k - 1] ELSE KahnTurn(graph, f[k - 1])
           Eq(f) == f = [k \in 0 .. N |-> Body(f, k)]
<1>1. N \in Nat /\ DOMAIN graph = T
  BY FS_CardinalityType DEF IsGraph
<1>2. loop = CHOOSE f : Eq(f)
  BY <1>1 DEF KahnLoop
<1>3. PICK S : S = KahnStates(T)
  OBVIOUS
<1>4. PICK start \in S : start = KahnStart(graph)
  BY <1>3, KahnStartTyped
<1>5. PICK turn \in [S -> S] :
          \A s \in S : turn[s] = IF s.queue = <<>> THEN s ELSE KahnTurn(graph, s)
  <2> DEFINE turn == [s \in S |-> IF s.queue = <<>> THEN s ELSE KahnTurn(graph, s)]
  <2>1. turn \in [S -> S]
    BY <1>3, KahnTurnTyped
  <2> QED
    BY <2>1
<1>6. PICK f \in [0 .. N -> S] : f[0] = start /\ \A k \in 1 .. N : f[k] = turn[f[k - 1]]
  <2>1. KeepsTo(turn, S)
    BY DEF KeepsTo
  <2>2. \E f : LoopOf(f, N, S, start, turn)
    BY <1>1, <2>1, LoopExists
  <2> QED
    BY <2>2 DEF LoopOf
<1>7. \A k \in 0 .. N : f[k] = Body(f, k)
  BY <1>1, <1>4, <1>5, <1>6
<1>8. Eq(f)
  BY <1>7, <1>6
<1> HIDE DEF Eq
<1>9. Eq(loop)
  BY <1>2, <1>8
<1> USE DEF Eq
<1>10. loop[0] = KahnStart(graph)
      /\ \A k \in 1 .. N : loop[k] = IF loop[k - 1].queue = <<>> THEN loop[k - 1]
                                     ELSE KahnTurn(graph, loop[k - 1])
  BY <1>1, <1>9
<1>11. \A k \in 0 .. N : loop[k] \in S
  <2> DEFINE Good == {k \in 0 .. N : loop[k] \in S}
  <2>1. 0 \in Good
    BY <1>1, <1>4, <1>10
  <2>2. ASSUME NEW k \in 0 .. N - 1, k \in Good
        PROVE  k + 1 \in Good
    <3>1. k + 1 \in 1 .. N /\ (k + 1) - 1 = k /\ loop[k] \in S
      BY <1>1, <2>2
    <3>2. loop[k + 1] = turn[loop[k]]
      BY <1>5, <1>10, <3>1
    <3> QED
      BY <3>1, <3>2
  <2> HIDE DEF Good
  <2>3. \A k \in 0 .. N : k \in Good
    BY <1>1, <2>1, <2>2, CountUp
  <2> QED
    BY <2>3 DEF Good
<1> QED
  BY <1>1, <1>3, <1>9, <1>10, <1>11

(* What the loop holds when it has popped the tasks of P: nothing in a      *)
(* circle has been popped, and the queue lists what waits for P alone.      *)
Popped(graph, T, P, s) ==
    /\ P \subseteq T /\ s.visited = Cardinality(P)
    /\ \A u \in T : s.indegree[u] = Cardinality(graph[u] \ P)
    /\ Distinct(s.queue) /\ ToSet(s.queue) = {u \in T \ P : graph[u] \subseteq P}
    /\ \A u \in P : graph[u] \subseteq P
    /\ \A S \in SUBSET T : (\A u \in S : graph[u] \cap S # {}) => P \cap S = {}

LEMMA NoneLeft ==
    ASSUME NEW S, IsFiniteSet(S)
    PROVE  Cardinality(S) = 0 <=> S = {}
BY FS_EmptySet

LEMMA KahnStartInv ==
    ASSUME NEW T, NEW graph, IsGraph(graph, T)
    PROVE  Popped(graph, T, {}, KahnStart(graph))
<1> USE DEF IsGraph
<1> DEFINE Q == {t \in T : Cardinality(graph[t]) = 0}
<1>1. \A t \in T : IsFiniteSet(graph[t])
  BY FS_Subset
<1>2. Q = {u \in T \ {} : graph[u] \subseteq {}}
  BY <1>1, NoneLeft
<1>3. IsFiniteSet(Q)
  BY FS_Subset
<1> HIDE DEF Q
<1>4. ToSet(SetToSeq(Q)) = Q /\ Distinct(SetToSeq(Q))
  BY <1>3, ListedSet
<1>5. Cardinality({}) = 0
  BY FS_EmptySet
<1>6. KahnStart(graph) = [indegree |-> [t \in T |-> Cardinality(graph[t])], visited |-> 0,
                          queue |-> SetToSeq(Q)]
  BY DEF KahnStart, Q
<1>7. \A u \in T : graph[u] \ {} = graph[u]
  OBVIOUS
<1> DEFINE k == KahnStart(graph)
<1>8. k.visited = 0 /\ k.queue = SetToSeq(Q) /\ k.indegree = [t \in T |-> Cardinality(graph[t])]
  BY <1>6
<1> HIDE DEF k
<1>9. \A u \in T : k.indegree[u] = Cardinality(graph[u] \ {})
  BY <1>7, <1>8
<1>10. Distinct(k.queue) /\ ToSet(k.queue) = {u \in T \ {} : graph[u] \subseteq {}}
  BY <1>2, <1>4, <1>8
<1>11. Popped(graph, T, {}, k)
  BY <1>5, <1>8, <1>9, <1>10 DEF Popped
<1> QED
  BY <1>11 DEF k

LEMMA KahnTurnInv ==
    ASSUME NEW T, NEW graph, IsGraph(graph, T), NEW s \in KahnStates(T), s.queue # <<>>,
           NEW P, Popped(graph, T, P, s)
    PROVE  \E R : Popped(graph, T, R, KahnTurn(graph, s))
<1> DEFINE tid == Last(s.queue)
           R == P \cup {tid}
           left == [u \in T |-> IF tid \in graph[u] THEN s.indegree[u] - 1 ELSE s.indegree[u]]
           S == {u \in T : tid \in graph[u] /\ left[u] = 0}
<1>1. KahnTurn(graph, s) = [indegree |-> left, visited |-> s.visited + 1,
                            queue |-> Front(s.queue) \o SetToSeq(S)]
  BY DEF KahnTurn, IsGraph
<1>2. /\ s.indegree \in [T -> Int] /\ s.queue \in Seq(T)
      /\ P \subseteq T /\ s.visited = Cardinality(P)
      /\ \A u \in T : s.indegree[u] = Cardinality(graph[u] \ P)
      /\ Distinct(s.queue) /\ ToSet(s.queue) = {u \in T \ P : graph[u] \subseteq P}
      /\ \A u \in P : graph[u] \subseteq P
      /\ \A C \in SUBSET T : (\A u \in C : graph[u] \cap C # {}) => P \cap C = {}
  BY DEF Popped, KahnStates
<1>3. /\ tid \in T \ P /\ graph[tid] \subseteq P
      /\ Distinct(Front(s.queue)) /\ Front(s.queue) \in Seq(T)
      /\ ToSet(Front(s.queue)) = {u \in T \ P : graph[u] \subseteq P} \ {tid}
  BY <1>2, FrontOfDistinct, FrontOf
<1> HIDE DEF tid
<1>4. R \subseteq T /\ s.visited + 1 = Cardinality(R)
  <2>1. IsFiniteSet(P)
    BY <1>2, FS_Subset DEF IsGraph
  <2> QED
    BY <1>2, <1>3, <2>1, FS_AddElement
<1>5. ASSUME NEW u \in T
      PROVE  /\ IsFiniteSet(graph[u] \ R) /\ left[u] = Cardinality(graph[u] \ R)
  <2>1. IsFiniteSet(graph[u] \ P) /\ graph[u] \ R = (graph[u] \ P) \ {tid}
    BY FS_Subset DEF IsGraph
  <2>2. tid \in graph[u] <=> tid \in graph[u] \ P
    BY <1>3
  <2> DEFINE A == graph[u] \ P
  <2>3. s.indegree[u] = Cardinality(A) /\ IsFiniteSet(A)
    BY <1>2, <2>1
  <2>4. /\ IsFiniteSet(A \ {tid})
        /\ Cardinality(A \ {tid}) = IF tid \in A THEN Cardinality(A) - 1 ELSE Cardinality(A)
    <3> HIDE DEF A
    <3> QED
      BY <2>3, FS_RemoveElement
  <2>5. left[u] = IF tid \in A THEN Cardinality(A) - 1 ELSE Cardinality(A)
    BY <2>2, <2>3
  <2>6. graph[u] \ R = A \ {tid}
    BY <2>1
  <2> HIDE DEF A, R, left
  <2> QED
    BY <2>4, <2>5, <2>6
<1>6. S = {u \in T : tid \in graph[u] /\ graph[u] \subseteq R}
  <2>1. \A u \in T : left[u] = 0 <=> graph[u] \subseteq R
    BY <1>5, NoneLeft
  <2> QED
    BY <2>1
<1>7. IsFiniteSet(S) /\ S \subseteq T
  BY FS_Subset DEF IsGraph
<1> HIDE DEF S, left
<1>8. SetToSeq(S) \in Seq(T) /\ Distinct(SetToSeq(S)) /\ ToSet(SetToSeq(S)) = S
  BY <1>7, ListedSet, SeqMonotonic
<1>9. ToSet(Front(s.queue)) \cap S = {}
  BY <1>3, <1>6
<1>10. /\ Distinct(Front(s.queue) \o SetToSeq(S))
       /\ ToSet(Front(s.queue) \o SetToSeq(S)) = ToSet(Front(s.queue)) \cup S
  BY <1>3, <1>8, <1>9, ConcatSet, JoinedLists
<1>11. ToSet(Front(s.queue)) \cup S = {u \in T \ R : graph[u] \subseteq R}
  <2>1. \A u \in T : graph[u] \subseteq T
    BY DEF IsGraph
  <2> QED
    BY <1>2, <1>3, <1>6, <2>1
<1>12. \A u \in R : graph[u] \subseteq R
  BY <1>2, <1>3
<1>13. \A C \in SUBSET T : (\A u \in C : graph[u] \cap C # {}) => R \cap C = {}
  BY <1>2, <1>3
<1>14. Popped(graph, T, R, KahnTurn(graph, s))
  <2> DEFINE k == KahnTurn(graph, s)
  <2>1. /\ k.visited = s.visited + 1 /\ k.indegree = left
        /\ k.queue = Front(s.queue) \o SetToSeq(S)
    BY <1>1
  <2> HIDE DEF k, R
  <2>2. \A u \in T : k.indegree[u] = Cardinality(graph[u] \ R)
    BY <1>5, <2>1
  <2>3. Distinct(k.queue) /\ ToSet(k.queue) = {u \in T \ R : graph[u] \subseteq R}
    BY <1>10, <1>11, <2>1
  <2>4. Popped(graph, T, R, k)
    BY <1>4, <1>12, <1>13, <2>1, <2>2, <2>3 DEF Popped
  <2> QED
    BY <2>4 DEF k
<1> QED
  BY <1>14

LEMMA KahnLoopInv ==
    ASSUME NEW T, NEW graph, IsGraph(graph, T), NEW k \in 0 .. Cardinality(T)
    PROVE  LET s == KahnLoop(graph)[k]
           IN  /\ s \in KahnStates(T)
               /\ s.queue = <<>> \/ s.visited = k
               /\ \E P : Popped(graph, T, P, s)
<1> DEFINE N == Cardinality(T)  loop == KahnLoop(graph)
           Good == {i \in 0 .. N : /\ loop[i].queue = <<>> \/ loop[i].visited = i
                                   /\ \E P : Popped(graph, T, P, loop[i])}
<1>1. /\ N \in Nat /\ loop \in [0 .. N -> KahnStates(T)] /\ loop[0] = KahnStart(graph)
      /\ \A i \in 1 .. N : loop[i] = IF loop[i - 1].queue = <<>> THEN loop[i - 1]
                                     ELSE KahnTurn(graph, loop[i - 1])
  BY KahnLoopIs
<1> HIDE DEF N, loop
<1>2. 0 \in Good
  <2>1. loop[0].visited = 0
    BY <1>1 DEF KahnStart
  <2>2. Popped(graph, T, {}, loop[0])
    BY <1>1, KahnStartInv
  <2> QED
    BY <1>1, <2>1, <2>2
<1>3. ASSUME NEW i \in 0 .. N - 1, i \in Good
      PROVE  i + 1 \in Good
  <2>1. i \in 0 .. N /\ i + 1 \in 1 .. N /\ i + 1 \in 0 .. N /\ (i + 1) - 1 = i
    BY <1>1
  <2>2. loop[i] \in KahnStates(T)
    BY <1>1, <2>1
  <2>3. loop[i + 1] = IF loop[i].queue = <<>> THEN loop[i] ELSE KahnTurn(graph, loop[i])
    BY <1>1, <2>1
  <2>4. PICK P : Popped(graph, T, P, loop[i])
    BY <1>3
  <2>5. CASE loop[i].queue = <<>>
    BY <2>1, <2>3, <2>4, <2>5
  <2>6. CASE loop[i].queue # <<>>
    <3>1. loop[i].visited = i
      BY <1>3, <2>6
    <3>2. loop[i + 1].visited = i + 1
      BY <2>3, <2>6, <3>1 DEF KahnTurn
    <3>3. \E R : Popped(graph, T, R, loop[i + 1])
      BY <2>2, <2>3, <2>4, <2>6, KahnTurnInv
    <3> QED
      BY <2>1, <3>2, <3>3
  <2> QED
    BY <2>5, <2>6
<1>4. k \in Good
  <2> HIDE DEF Good
  <2> QED
    BY <1>1, <1>2, <1>3, CountUp DEF N
<1> QED
  BY <1>1, <1>4 DEF N, loop

(* Kahn's algorithm, as the code runs it, always comes to an end and        *)
(* accepts exactly the graphs without a cycle.                              *)
THEOREM KahnAcceptsAcyclic ==
    ASSUME NEW T, NEW graph, IsGraph(graph, T)
    PROVE  /\ KahnLoop(graph)[Cardinality(T)].queue = <<>>
           /\ KahnAccepts(graph) <=> Acyclic(graph)
<1> DEFINE N == Cardinality(T)  end == KahnLoop(graph)[N]
<1>1. N \in Nat /\ N \in 0 .. N /\ DOMAIN graph = T
  BY FS_CardinalityType DEF IsGraph
<1>2. /\ end.queue \in Seq(T)
      /\ end.queue = <<>> \/ end.visited = N
      /\ \E P : Popped(graph, T, P, end)
  BY <1>1, KahnLoopInv DEF KahnStates
<1> HIDE DEF end, N
<1>3. PICK P : Popped(graph, T, P, end)
  BY <1>2
<1>4. /\ P \subseteq T /\ end.visited = Cardinality(P)
      /\ ToSet(end.queue) = {u \in T \ P : graph[u] \subseteq P}
      /\ \A S \in SUBSET T : (\A u \in S : graph[u] \cap S # {}) => P \cap S = {}
  BY <1>3 DEF Popped
<1>5. end.visited = N <=> P = T
  BY <1>4, FS_Subset DEF IsGraph, N
<1>6. end.queue = <<>> <=> ToSet(end.queue) = {}
  <2> DEFINE q == end.queue
  <2>1. q \in Seq(T)
    BY <1>2
  <2> HIDE DEF q
  <2>2. q = <<>> <=> ToSet(q) = {}
    BY <2>1, EmptyList
  <2> QED
    BY <2>2 DEF q
<1>7. end.queue = <<>>
  BY <1>2, <1>4, <1>5, <1>6
<1>8. ASSUME Acyclic(graph)
      PROVE  P = T
  <2> SUFFICES ASSUME T \ P # {}
               PROVE  FALSE
    BY <1>4
  <2>1. PICK u \in T \ P : graph[u] \cap (T \ P) = {}
    BY <1>1, <1>8 DEF Acyclic
  <2>2. graph[u] \subseteq P
    BY <2>1 DEF IsGraph
  <2> QED
    BY <2>1, <2>2, <1>4, <1>6, <1>7
<1>9. ASSUME P = T
      PROVE  Acyclic(graph)
  BY <1>1, <1>4, <1>9 DEF Acyclic
<1>10. KahnAccepts(graph) <=> P = T
  BY <1>1, <1>5, <1>7 DEF KahnAccepts, end, N
<1> QED
  BY <1>7, <1>8, <1>9, <1>10 DEF end, N

-----------------------------------------------------------------------------
(* The cascade of a failure. *)

From(graph, x) == {e \in Edges(graph) : e[1] = x}

(* There is one dependency for each child of a task.                        *)
LEMMA ChildrenOf ==
    ASSUME NEW T, NEW graph, IsGraph(graph, T), NEW x \in T
    PROVE  /\ IsFiniteSet(Edges(graph)) /\ IsFiniteSet(From(graph, x))
           /\ Children(graph, x) \in Seq(T)
           /\ Len(Children(graph, x)) = Cardinality(From(graph, x))
           /\ ToSet(Children(graph, x)) = {u \in T : x \in graph[u]}
<1> DEFINE C == {u \in T : x \in graph[u]}
           F == From(graph, x)
           b == [u \in C |-> <<x, u>>]
<1>1. IsFiniteSet(T) /\ DOMAIN graph = T /\ \A u \in T : graph[u] \subseteq T
  BY DEF IsGraph
<1>2. IsFiniteSet(T \X T) /\ Edges(graph) \in SUBSET (T \X T)
  BY <1>1, FS_Product DEF Edges
<1>3. IsFiniteSet(Edges(graph)) /\ IsFiniteSet(F)
  <2>1. IsFiniteSet(Edges(graph))
    BY <1>2, FS_Subset
  <2>2. F \in SUBSET Edges(graph)
    BY DEF From
  <2> HIDE DEF F
  <2> QED
    BY <2>1, <2>2, FS_Subset
<1>4. C \in SUBSET T /\ IsFiniteSet(C)
  BY <1>1, FS_Subset
<1>5. b \in Bijection(C, F)
  <2>1. b \in [C -> F]
    BY <1>1 DEF From, Edges
  <2>2. \A u, v \in C : b[u] = b[v] => u = v
    OBVIOUS
  <2>3. \A e \in F : \E u \in C : b[u] = e
    <3> SUFFICES ASSUME NEW e \in F
                 PROVE  e[2] \in C /\ b[e[2]] = e
      OBVIOUS
    <3> QED
      BY <1>1 DEF From, Edges
  <2> HIDE DEF b, C, F
  <2> QED
    BY <2>1, <2>2, <2>3 DEF Bijection, Injection, Surjection, IsInjective
<1> HIDE DEF C, F, b
<1>6. Cardinality(C) = Cardinality(F)
  BY <1>4, <1>5, FS_Bijection DEF ExistsBijection
<1>7. Children(graph, x) = SetToSeq(C)
  BY <1>1 DEF Children, C
<1>8. SetToSeq(C) \in Seq(T) /\ Len(SetToSeq(C)) = Cardinality(C) /\ ToSet(SetToSeq(C)) = C
  BY <1>4, ListedSet, SeqMonotonic
<1> QED
  BY <1>3, <1>6, <1>7, <1>8 DEF C, F

(* The states of the depth-first search, and the search as a function of    *)
(* the looks.                                                               *)
WalkStates(T) == [st : [T -> TaskStatus], todo : Seq(T)]

LEMMA LookTyped ==
    ASSUME NEW T, NEW graph, IsGraph(graph, T), NEW s \in WalkStates(T), s.todo # <<>>
    PROVE  Look(graph, s) \in WalkStates(T)
<1> DEFINE child == Head(s.todo)
<1>1. s.st \in [T -> TaskStatus] /\ s.todo \in Seq(T) /\ s = [st |-> s.st, todo |-> s.todo]
  BY DEF WalkStates
<1>2. child \in T /\ Tail(s.todo) \in Seq(T)
  BY <1>1, HeadOf
<1>3. Children(graph, child) \o Tail(s.todo) \in Seq(T)
  BY <1>2, ChildrenOf, ConcatProperties
<1>4. [s.st EXCEPT ![child] = "BLOCKED"] \in [T -> TaskStatus]
  BY <1>1, <1>2 DEF TaskStatus
<1>5. CASE s.st[child] \in TerminalStatus
  <2>1. Look(graph, s) = [s EXCEPT !.todo = Tail(s.todo)]
    BY <1>5 DEF Look
  <2> QED
    BY <1>1, <1>2, <2>1 DEF WalkStates
<1>6. CASE s.st[child] \notin TerminalStatus
  <2>1. Look(graph, s) = [st |-> [s.st EXCEPT ![child] = "BLOCKED"],
                          todo |-> Children(graph, child) \o Tail(s.todo)]
    BY <1>6 DEF Look
  <2> QED
    BY <1>3, <1>4, <2>1 DEF WalkStates
<1> QED
  BY <1>5, <1>6

LEMMA WalkIs ==
    ASSUME NEW T, NEW graph, IsGraph(graph, T), NEW st \in [T -> TaskStatus], NEW t \in T,
           NEW N, N = Cardinality(Edges(graph))
    PROVE  /\ N \in Nat
           /\ \E walk \in [0 .. N -> WalkStates(T)] :
                /\ walk[0] = [st |-> st, todo |-> Children(graph, t)]
                /\ \A k \in 1 .. N : walk[k] = IF walk[k - 1].todo = <<>> THEN walk[k - 1]
                                               ELSE Look(graph, walk[k - 1])
                /\ walk[N] = BlockDependents(graph, st, t)
<1> DEFINE Body(f, k) == IF k = 0 THEN [st |-> st, todo |-> Children(graph, t)]
                         ELSE IF f[k - 1].todo = <<>> THEN f[k - 1] ELSE Look(graph, f[k - 1])
           Eq(f) == f = [k \in 0 .. N |-> Body(f, k)]
<1>1. N \in Nat
  BY ChildrenOf, FS_CardinalityType
<1>2. PICK walk : walk = CHOOSE f : Eq(f)
  OBVIOUS
<1>3. walk[N] = BlockDependents(graph, st, t)
  BY <1>2 DEF BlockDependents
<1>4. PICK S : S = WalkStates(T)
  OBVIOUS
<1>5. PICK start \in S : start = [st |-> st, todo |-> Children(graph, t)]
  BY <1>4, ChildrenOf DEF WalkStates
<1>6. PICK turn \in [S -> S] :
          \A s \in S : turn[s] = IF s.todo = <<>> THEN s ELSE Look(graph, s)
  <2> DEFINE turn == [s \in S |-> IF s.todo = <<>> THEN s ELSE Look(graph, s)]
  <2>1. turn \in [S -> S]
    BY <1>4, LookTyped
  <2> QED
    BY <2>1
<1>7. PICK f \in [0 .. N -> S] : f[0] = start /\ \A k \in 1 .. N : f[k] = turn[f[k - 1]]
  <2>1. KeepsTo(turn, S)
    BY DEF KeepsTo
  <2>2. \E f : LoopOf(f, N, S, start, turn)
    BY <1>1, <2>1, LoopExists
  <2> QED
    BY <2>2 DEF LoopOf
<1>8. \A k \in 0 .. N : f[k] = Body(f, k)
  BY <1>1, <1>5, <1>6, <1>7
<1>9. Eq(f)
  BY <1>7, <1>8
<1> HIDE DEF Eq
<1>10. Eq(walk)
  BY <1>2, <1>9
<1> USE DEF Eq
<1>11. walk[0] = start
       /\ \A k \in 1 .. N : walk[k] = IF walk[k - 1].todo = <<>> THEN walk[k - 1]
                                      ELSE Look(graph, walk[k - 1])
  BY <1>1, <1>5, <1>10
<1>12. \A k \in 0 .. N : walk[k] \in S
  <2> DEFINE Good == {k \in 0 .. N : walk[k] \in S}
  <2>1. 0 \in Good
    BY <1>1, <1>5, <1>11
  <2>2. ASSUME NEW k \in 0 .. N - 1, k \in Good
        PROVE  k + 1 \in Good
    <3>1. k + 1 \in 1 .. N /\ (k + 1) - 1 = k /\ walk[k] \in S
      BY <1>1, <2>2
    <3>2. walk[k + 1] = turn[walk[k]]
      BY <1>6, <1>11, <3>1
    <3> QED
      BY <3>1, <3>2
  <2> HIDE DEF Good
  <2>3. \A k \in 0 .. N : k \in Good
    BY <1>1, <2>1, <2>2, CountUp
  <2> QED
    BY <2>3 DEF Good
<1>13. walk \in [0 .. N -> S]
  BY <1>10, <1>12
<1> HIDE DEF Eq
<1> QED
  BY <1>1, <1>3, <1>4, <1>5, <1>11, <1>13

(* The dependencies on tasks that have not been marked.                     *)
Unfollowed(graph, t, M) == {e \in Edges(graph) : e[1] # t /\ e[1] \notin M}

(* What the search holds when it has marked the tasks of M: all of them are *)
(* to be blocked, every child of a marked task has ended, is marked too or  *)
(* is still to be looked at, and a dependency is followed once.             *)
Marked(graph, T, st, t, M, s) ==
    /\ M \subseteq Blocked(graph, st, t)
    /\ \A c \in T : s.st[c] = IF c \in M THEN "BLOCKED" ELSE st[c]
    /\ ToSet(s.todo) \subseteq {c \in T : \E p \in graph[c] : p = t \/ p \in M}
    /\ \A c \in T : (\E p \in graph[c] : p = t \/ p \in M) =>
                       st[c] \in TerminalStatus \/ c \in M \/ c \in ToSet(s.todo)

Budget(graph, t, M, s, k) ==
    s.todo = <<>> \/ Len(s.todo) + Cardinality(Unfollowed(graph, t, M)) + k
                        <= Cardinality(Edges(graph))

LEMMA UnfollowedSplit ==
    ASSUME NEW T, NEW graph, IsGraph(graph, T), NEW x \in T, NEW R,
           IsFiniteSet(R), From(graph, x) \subseteq R
    PROVE  /\ Cardinality(R \ From(graph, x)) \in Nat
           /\ Cardinality(From(graph, x)) \in Nat
           /\ Cardinality(R) = Cardinality(R \ From(graph, x)) + Cardinality(From(graph, x))
<1> DEFINE F == From(graph, x)
<1>1. IsFiniteSet(F) /\ F \subseteq R
  BY ChildrenOf
<1> HIDE DEF F
<1>2. /\ IsFiniteSet(R \ F)
      /\ Cardinality(R \ F) = Cardinality(R) - Cardinality(R \cap F)
  BY FS_Difference
<1>3. R \cap F = F
  BY <1>1
<1>4. Cardinality(R \ F) \in Nat /\ Cardinality(F) \in Nat /\ Cardinality(R) \in Nat
  BY <1>1, <1>2, FS_CardinalityType
<1>5. Cardinality(R) = Cardinality(R \ F) + Cardinality(F)
  BY <1>2, <1>3, <1>4
<1> QED
  BY <1>4, <1>5 DEF F

LEMMA WalkStartInv ==
    ASSUME NEW T, NEW graph, IsGraph(graph, T), NEW st \in [T -> TaskStatus], NEW t \in T,
           NEW s, s = [st |-> st, todo |-> Children(graph, t)]
    PROVE  Marked(graph, T, st, t, {}, s) /\ Budget(graph, t, {}, s, 0)
<1>1. /\ IsFiniteSet(Edges(graph)) /\ Len(s.todo) = Cardinality(From(graph, t))
      /\ ToSet(s.todo) = {u \in T : t \in graph[u]}
  BY ChildrenOf
<1>2. Marked(graph, T, st, t, {}, s)
  BY <1>1 DEF Marked
<1>3. Unfollowed(graph, t, {}) = Edges(graph) \ From(graph, t)
  BY DEF Unfollowed, From
<1>4. From(graph, t) \subseteq Edges(graph)
  BY DEF From
<1>5. Budget(graph, t, {}, s, 0)
  BY <1>1, <1>3, <1>4, UnfollowedSplit DEF Budget
<1> QED
  BY <1>2, <1>5

LEMMA LookInv ==
    ASSUME NEW T, NEW graph, IsGraph(graph, T), NEW st \in [T -> TaskStatus], NEW t \in T,
           st[t] = "FAILED", NEW s \in WalkStates(T), s.todo # <<>>,
           NEW M, Marked(graph, T, st, t, M, s), NEW k \in Nat, Budget(graph, t, M, s, k)
    PROVE  \E R : /\ Marked(graph, T, st, t, R, Look(graph, s))
                  /\ Budget(graph, t, R, Look(graph, s), k + 1)
<1> DEFINE child == Head(s.todo)  rest == Tail(s.todo)
<1>1. /\ s.st \in [T -> TaskStatus] /\ s.todo \in Seq(T) /\ s = [st |-> s.st, todo |-> s.todo]
  BY DEF WalkStates
<1>2. /\ M \subseteq Blocked(graph, st, t)
      /\ \A c \in T : s.st[c] = IF c \in M THEN "BLOCKED" ELSE st[c]
      /\ ToSet(s.todo) \subseteq {c \in T : \E p \in graph[c] : p = t \/ p \in M}
      /\ \A c \in T : (\E p \in graph[c] : p = t \/ p \in M) =>
                         st[c] \in TerminalStatus \/ c \in M \/ c \in ToSet(s.todo)
      /\ Len(s.todo) + Cardinality(Unfollowed(graph, t, M)) + k <= Cardinality(Edges(graph))
  BY DEF Marked, Budget
<1>3. /\ child \in T /\ child \in ToSet(s.todo) /\ rest \in Seq(T)
      /\ Len(s.todo) \in Nat \ {0} /\ Len(rest) = Len(s.todo) - 1
      /\ ToSet(s.todo) = {child} \cup ToSet(rest)
  <2> DEFINE q == s.todo
  <2>1. q \in Seq(T) /\ q # <<>>
    BY <1>1
  <2> HIDE DEF q
  <2>2. /\ Head(q) \in T /\ Head(q) \in ToSet(q) /\ Tail(q) \in Seq(T)
        /\ Len(q) \in Nat \ {0} /\ Len(Tail(q)) = Len(q) - 1
        /\ ToSet(q) = {Head(q)} \cup ToSet(Tail(q))
    BY <2>1, HeadOf
  <2> QED
    BY <2>2 DEF q
<1> HIDE DEF child, rest
<1>4. /\ IsFiniteSet(Edges(graph)) /\ Cardinality(Edges(graph)) \in Nat
      /\ IsFiniteSet(Unfollowed(graph, t, M)) /\ Cardinality(Unfollowed(graph, t, M)) \in Nat
  <2>1. IsFiniteSet(Edges(graph)) /\ Unfollowed(graph, t, M) \in SUBSET Edges(graph)
    BY <1>3, ChildrenOf DEF Unfollowed
  <2> QED
    BY <2>1, FS_Subset, FS_CardinalityType
<1>5. CASE s.st[child] \in TerminalStatus
  <2> DEFINE n == Look(graph, s)
  <2>1. n.st = s.st /\ n.todo = rest
    BY <1>1, <1>5 DEF Look, child, rest
  <2> HIDE DEF n
  <2>2. st[child] \in TerminalStatus \/ child \in M
    BY <1>2, <1>3, <1>5
  <2>3. Marked(graph, T, st, t, M, n)
    BY <1>2, <1>3, <2>1, <2>2 DEF Marked
  <2>4. Budget(graph, t, M, n, k + 1)
    BY <1>2, <1>3, <1>4, <2>1 DEF Budget
  <2> QED
    BY <2>3, <2>4 DEF n
<1>6. CASE s.st[child] \notin TerminalStatus
  <2> DEFINE n == Look(graph, s)  R == M \cup {child}
  <2>1. n.st = [s.st EXCEPT ![child] = "BLOCKED"] /\ n.todo = Children(graph, child) \o rest
    BY <1>1, <1>6 DEF Look, child, rest
  <2> HIDE DEF n
  <2>2. child \notin M /\ st[child] \notin TerminalStatus /\ child # t
    BY <1>2, <1>3, <1>6 DEF TerminalStatus
  <2>3. child \in Blocked(graph, st, t)
    <3>1. PICK p \in graph[child] : p = t \/ p \in M
      BY <1>2, <1>3
    <3>2. p = t \/ p \in Blocked(graph, st, t)
      BY <3>1, <1>2
    <3>3. ClosedUnderBlocking(graph, st, t, Blocked(graph, st, t))
      BY BlockedIsClosed DEF IsGraph
    <3> QED
      BY <1>3, <2>2, <3>1, <3>2, <3>3 DEF ClosedUnderBlocking
  <2>4. /\ Children(graph, child) \in Seq(T)
        /\ Len(Children(graph, child)) = Cardinality(From(graph, child))
        /\ ToSet(Children(graph, child)) = {u \in T : child \in graph[u]}
    BY <1>3, ChildrenOf
  <2>5. /\ Len(n.todo) = Len(Children(graph, child)) + Len(rest)
        /\ ToSet(n.todo) = ToSet(Children(graph, child)) \cup ToSet(rest)
    <3> DEFINE q == Children(graph, child)
    <3>1. q \in Seq(T) /\ rest \in Seq(T)
      BY <1>3, <2>4
    <3> HIDE DEF q
    <3>2. Len(q \o rest) = Len(q) + Len(rest) /\ ToSet(q \o rest) = ToSet(q) \cup ToSet(rest)
      BY <3>1, ConcatSet
    <3> QED
      BY <2>1, <3>2 DEF q
  <2>6. Marked(graph, T, st, t, R, n)
    <3>1. R \subseteq Blocked(graph, st, t)
      BY <1>2, <2>3
    <3>2. \A c \in T : n.st[c] = IF c \in R THEN "BLOCKED" ELSE st[c]
      BY <1>1, <1>2, <1>3, <2>1
    <3>3. ToSet(n.todo) \subseteq {c \in T : \E p \in graph[c] : p = t \/ p \in R}
      BY <1>2, <1>3, <2>4, <2>5
    <3>4. \A c \in T : (\E p \in graph[c] : p = t \/ p \in R) =>
                         st[c] \in TerminalStatus \/ c \in R \/ c \in ToSet(n.todo)
      BY <1>2, <1>3, <2>4, <2>5
    <3> HIDE DEF R
    <3> QED
      BY <3>1, <3>2, <3>3, <3>4 DEF Marked
  <2>7. Budget(graph, t, R, n, k + 1)
    <3>1. Unfollowed(graph, t, R) = Unfollowed(graph, t, M) \ From(graph, child)
      BY DEF Unfollowed, From
    <3>2. From(graph, child) \subseteq Unfollowed(graph, t, M)
      BY <2>2 DEF Unfollowed, From
    <3>3. /\ Cardinality(Unfollowed(graph, t, R)) \in Nat
          /\ Cardinality(From(graph, child)) \in Nat
          /\ Cardinality(Unfollowed(graph, t, M))
                = Cardinality(Unfollowed(graph, t, R)) + Cardinality(From(graph, child))
      <4>1. PICK U : U = Unfollowed(graph, t, M)
        OBVIOUS
      <4>2. IsFiniteSet(U) /\ From(graph, child) \subseteq U
        BY <1>4, <3>2, <4>1
      <4>3. /\ Cardinality(U \ From(graph, child)) \in Nat
            /\ Cardinality(From(graph, child)) \in Nat
            /\ Cardinality(U) = Cardinality(U \ From(graph, child)) + Cardinality(From(graph, child))
        BY <1>3, <4>2, UnfollowedSplit
      <4> QED
        BY <3>1, <4>1, <4>3
    <3> HIDE DEF R
    <3>4. Len(n.todo) = Cardinality(From(graph, child)) + (Len(s.todo) - 1)
      BY <1>3, <2>4, <2>5
    <3>5. Len(n.todo) + Cardinality(Unfollowed(graph, t, R)) + (k + 1) <= Cardinality(Edges(graph))
      <4>1. Len(s.todo) + Cardinality(Unfollowed(graph, t, M)) + k <= Cardinality(Edges(graph))
        BY <1>2
      <4>2. Len(s.todo) \in Nat /\ Cardinality(Edges(graph)) \in Nat
        BY <1>3, <1>4
      <4> QED
        BY <4>1, <4>2, <3>3, <3>4
    <3> QED
      BY <3>5 DEF Budget
  <2> HIDE DEF R
  <2> QED
    BY <2>6, <2>7 DEF n
<1> QED
  BY <1>5, <1>6

(* The depth-first search of the code, from a task that has just failed:    *)
(* it always comes to an end, and its effect is Fail.                       *)
THEOREM BlockDependentsIsFail ==
    ASSUME NEW T, NEW graph, IsGraph(graph, T), NEW st \in [T -> TaskStatus], NEW t \in T
    PROVE  BlockDependents(graph, [st EXCEPT ![t] = "FAILED"], t)
               = [st |-> Fail(graph, st, t), todo |-> <<>>]
<1>1. PICK f : f = [st EXCEPT ![t] = "FAILED"]
  OBVIOUS
<1>2. f \in [T -> TaskStatus] /\ f[t] = "FAILED"
  BY <1>1 DEF TaskStatus
<1>3. PICK N : N = Cardinality(Edges(graph))
  OBVIOUS
<1>4. /\ N \in Nat
      /\ \E walk \in [0 .. N -> WalkStates(T)] :
            /\ walk[0] = [st |-> f, todo |-> Children(graph, t)]
            /\ \A k \in 1 .. N : walk[k] = IF walk[k - 1].todo = <<>> THEN walk[k - 1]
                                           ELSE Look(graph, walk[k - 1])
            /\ walk[N] = BlockDependents(graph, f, t)
  BY <1>2, <1>3, WalkIs
<1>5. PICK walk \in [0 .. N -> WalkStates(T)] :
            /\ walk[0] = [st |-> f, todo |-> Children(graph, t)]
            /\ \A k \in 1 .. N : walk[k] = IF walk[k - 1].todo = <<>> THEN walk[k - 1]
                                           ELSE Look(graph, walk[k - 1])
            /\ walk[N] = BlockDependents(graph, f, t)
  BY <1>4
<1> DEFINE Inv(M, s, k) == Marked(graph, T, f, t, M, s) /\ Budget(graph, t, M, s, k)
           Good == {k \in 0 .. N : \E M : Inv(M, walk[k], k)}
<1>6. 0 \in Good
  <2>1. Inv({}, walk[0], 0)
    BY <1>2, <1>5, WalkStartInv
  <2> QED
    BY <1>4, <2>1
<1>7. ASSUME NEW k \in 0 .. N - 1, k \in Good
      PROVE  k + 1 \in Good
  <2>1. k \in Nat /\ k \in 0 .. N /\ k + 1 \in 1 .. N /\ k + 1 \in 0 .. N /\ (k + 1) - 1 = k
    BY <1>4
  <2>2. walk[k] \in WalkStates(T)
        /\ walk[k + 1] = IF walk[k].todo = <<>> THEN walk[k] ELSE Look(graph, walk[k])
    BY <1>5, <2>1
  <2>3. PICK M : Inv(M, walk[k], k)
    BY <1>7
  <2>4. CASE walk[k].todo = <<>>
    <3>1. Inv(M, walk[k + 1], k + 1)
      BY <2>2, <2>3, <2>4 DEF Budget
    <3> QED
      BY <2>1, <3>1
  <2>5. CASE walk[k].todo # <<>>
    <3>1. \E R : /\ Marked(graph, T, f, t, R, Look(graph, walk[k]))
                 /\ Budget(graph, t, R, Look(graph, walk[k]), k + 1)
      BY <1>2, <2>1, <2>2, <2>3, <2>5, LookInv
    <3> QED
      BY <2>1, <2>2, <2>5, <3>1
  <2> QED
    BY <2>4, <2>5
<1>8. N \in Good
  <2> HIDE DEF Good
  <2>1. \A k \in 0 .. N : k \in Good
    BY <1>4, <1>6, <1>7, CountUp
  <2> QED
    BY <1>4, <2>1
<1>9. PICK M : Inv(M, walk[N], N)
  BY <1>8
<1>10. PICK s \in WalkStates(T) : s = walk[N]
  BY <1>4, <1>5
<1>11. s.todo \in Seq(T) /\ s.st \in [T -> TaskStatus] /\ s = [st |-> s.st, todo |-> s.todo]
  BY <1>10 DEF WalkStates
<1>12. s.todo = <<>>
  <2> SUFFICES ASSUME s.todo # <<>>
               PROVE  FALSE
    OBVIOUS
  <2>1. Len(s.todo) \in Nat \ {0}
    BY <1>11, EmptySeq
  <2>2. IsFiniteSet(Unfollowed(graph, t, M))
    <3>1. IsFiniteSet(Edges(graph)) /\ Unfollowed(graph, t, M) \in SUBSET Edges(graph)
      BY ChildrenOf DEF Unfollowed
    <3> QED
      BY <3>1, FS_Subset
  <2>3. Cardinality(Unfollowed(graph, t, M)) \in Nat
    BY <2>2, FS_CardinalityType
  <2>4. Len(s.todo) + Cardinality(Unfollowed(graph, t, M)) + N <= N
    BY <1>3, <1>9, <1>10 DEF Budget
  <2> QED
    BY <1>4, <2>1, <2>3, <2>4
<1>13. /\ M \subseteq Blocked(graph, f, t)
       /\ \A c \in T : s.st[c] = IF c \in M THEN "BLOCKED" ELSE f[c]
       /\ \A c \in T : (\E p \in graph[c] : p = t \/ p \in M) =>
                         f[c] \in TerminalStatus \/ c \in M
  <2>1. ToSet(s.todo) = {}
    BY <1>12 DEF ToSet
  <2> QED
    BY <1>9, <1>10, <2>1 DEF Marked
<1>14. M = Blocked(graph, f, t)
  <2>1. M \in SUBSET T
    BY <1>2, <1>13 DEF Blocked
  <2>2. ClosedUnderBlocking(graph, f, t, M)
    BY <1>2, <1>13 DEF ClosedUnderBlocking
  <2>3. Blocked(graph, f, t) \subseteq M
    BY <1>2, <2>1, <2>2 DEF Blocked
  <2> QED
    BY <1>13, <2>3
<1>15. s.st = Fail(graph, st, t)
  <2>1. Fail(graph, st, t) = [c \in T |-> IF c \in M THEN "BLOCKED" ELSE f[c]]
    BY <1>1, <1>14 DEF Fail
  <2> QED
    BY <1>11, <1>13, <2>1
<1> QED
  BY <1>1, <1>5, <1>10, <1>11, <1>12, <1>15

-----------------------------------------------------------------------------
(* The invariant of the scheduler. *)

SchedulerTypeOK ==
    /\ Known \subseteq Ids
    /\ deps \in [Known -> SUBSET Known]
    /\ status \in [Known -> TaskStatus \ {"READY"}]

(* Once a task is cancelled, or submitted behind a failure, it stays behind *)
(* whatever it depends on; until then the cascade leaves no gap.            *)
Untroubled == late = {} /\ \A t \in Known : status[t] # "CANCELLED"

StartedOnCompleted ==
    \A t \in Known : status[t] \in {"RUNNING", "COMPLETED", "FAILED"} =>
                       \A d \in deps[t] : status[d] = "COMPLETED"

GraphInv ==
    /\ SchedulerTypeOK
    /\ Acyclic(deps)
    /\ Untroubled => StartedOnCompleted /\ BlockedConsistent(deps, status)

(* Failing a running task, whatever state the others are in.                *)
LEMMA FailTyped ==
    ASSUME NEW T, NEW d \in [T -> SUBSET T], NEW st \in [T -> TaskStatus \ {"READY"}],
           NEW t \in T, st[t] = "RUNNING"
    PROVE  /\ Fail(d, st, t) \in [T -> TaskStatus \ {"READY"}]
           /\ \A u \in T : st[u] = "CANCELLED" => Fail(d, st, t)[u] = "CANCELLED"
<1> DEFINE f   == [st EXCEPT ![t] = "FAILED"]
           hit == Blocked(d, f, t)
           s   == Fail(d, st, t)
<1>1. f \in [T -> TaskStatus \ {"READY"}] /\ \A u \in T \ {t} : f[u] = st[u]
  BY DEF TaskStatus
<1>2. s = [c \in T |-> IF c \in hit THEN "BLOCKED" ELSE f[c]]
  BY DEF Fail
<1>3. \A u \in hit : u \in T /\ f[u] \notin TerminalStatus
  BY <1>1, BlockedHasReason DEF TaskStatus
<1> HIDE DEF f, hit, s
<1>4. s \in [T -> TaskStatus \ {"READY"}]
  BY <1>1, <1>2 DEF TaskStatus
<1>5. ASSUME NEW u \in T, st[u] = "CANCELLED"
      PROVE  s[u] = "CANCELLED"
  BY <1>1, <1>2, <1>3, <1>5 DEF TerminalStatus
<1> QED
  BY <1>4, <1>5 DEF s

LEMMA GraphInit == Init => GraphInv
<1> SUFFICES ASSUME Init
             PROVE  GraphInv
  OBVIOUS
<1>1. deps = <<>> /\ status = <<>> /\ Known = {}
  BY DEF Init, Known
<1>2. SchedulerTypeOK
  BY <1>1 DEF SchedulerTypeOK, Known
<1>3. Acyclic(deps)
  BY <1>1 DEF Acyclic
<1>4. StartedOnCompleted /\ BlockedConsistent(deps, status)
  BY <1>1 DEF StartedOnCompleted, BlockedConsistent, Known
<1> QED
  BY <1>2, <1>3, <1>4 DEF GraphInv

LEMMA GraphStep == GraphInv /\ [Next]_vars => GraphInv'
<1> SUFFICES ASSUME GraphInv, [Next]_vars
             PROVE  GraphInv'
  OBVIOUS
<1> USE DEF GraphInv, SchedulerTypeOK, Known
<1>1. ASSUME NEW batch \in Batches, Submit(batch)
      PROVE  GraphInv'
  <2> DEFINE K == DOMAIN status  B == DOMAIN batch
  <2>1. /\ B \cap K = {} /\ \A t \in B : batch[t] \subseteq K \cup B
        /\ deps' = Combined(batch) /\ Acyclic(deps')
        /\ status' = [t \in K \cup B |-> IF t \in K THEN status[t] ELSE "PENDING"]
        /\ late' = late \cup BehindFailure(batch)
    BY <1>1 DEF Submit, Acceptable
  <2>2. deps' = [t \in K \cup B |-> IF t \in K THEN deps[t] ELSE batch[t]]
    BY <2>1 DEF Combined
  <2>3. SchedulerTypeOK'
    <3>1. B \subseteq Ids
      BY DEF Batches
    <3>2. (K \cup B) \subseteq Ids
      BY <3>1
    <3>3. deps' \in [K \cup B -> SUBSET (K \cup B)]
      BY <2>1, <2>2
    <3>4. status' \in [K \cup B -> TaskStatus \ {"READY"}]
      BY <2>1 DEF TaskStatus
    <3> QED
      BY <3>2, <3>3, <3>4
  <2>4. ASSUME Untroubled'
        PROVE  StartedOnCompleted' /\ BlockedConsistent(deps, status)'
    <3>1. Untroubled
      BY <2>1, <2>4 DEF Untroubled
    <3>2. \A t \in B : \A d \in batch[t] \cap K : status[d] \notin {"FAILED", "BLOCKED"}
      BY <2>1, <2>4 DEF Untroubled, BehindFailure
    <3>3. StartedOnCompleted'
      BY <2>1, <2>2, <3>1 DEF StartedOnCompleted
    <3>4. BlockedConsistent(deps, status)'
      BY <2>1, <2>2, <3>1, <3>2 DEF BlockedConsistent
    <3> QED
      BY <3>3, <3>4
  <2> QED
    BY <2>1, <2>3, <2>4
<1>2. ASSUME NEW t \in Known, Start(t)
      PROVE  GraphInv'
  <2>1. /\ status[t] = "PENDING" /\ \A d \in deps[t] : status[d] = "COMPLETED"
        /\ status' = [status EXCEPT ![t] = "RUNNING"] /\ deps' = deps /\ late' = late
    BY <1>2 DEF Start, Ready
  <2>2. SchedulerTypeOK' /\ Acyclic(deps')
    BY <2>1 DEF TaskStatus
  <2>3. Untroubled' => Untroubled
    BY <2>1 DEF Untroubled
  <2>4. Untroubled' => StartedOnCompleted'
    BY <2>1, <2>3 DEF StartedOnCompleted
  <2>5. Untroubled' => BlockedConsistent(deps, status)'
    BY <2>1, <2>3 DEF BlockedConsistent
  <2> QED
    BY <2>2, <2>4, <2>5
<1>3. ASSUME NEW t \in Known, Complete(t)
      PROVE  GraphInv'
  <2>1. /\ status[t] = "RUNNING"
        /\ status' = [status EXCEPT ![t] = "COMPLETED"] /\ deps' = deps /\ late' = late
    BY <1>3 DEF Complete
  <2>2. SchedulerTypeOK' /\ Acyclic(deps')
    BY <2>1 DEF TaskStatus
  <2>3. Untroubled' => Untroubled
    BY <2>1 DEF Untroubled
  <2>4. Untroubled' => StartedOnCompleted'
    BY <2>1, <2>3 DEF StartedOnCompleted
  <2>5. Untroubled' => BlockedConsistent(deps, status)'
    BY <2>1, <2>3 DEF BlockedConsistent
  <2> QED
    BY <2>2, <2>4, <2>5
<1>4. ASSUME NEW t \in Known, FailTask(t)
      PROVE  GraphInv'
  <2>1. /\ status[t] = "RUNNING" /\ status' = Fail(deps, status, t)
        /\ deps' = deps /\ late' = late
    BY <1>4 DEF FailTask
  <2>2. /\ status' \in [Known -> TaskStatus \ {"READY"}]
        /\ \A u \in Known : status[u] = "CANCELLED" => status'[u] = "CANCELLED"
    BY <2>1, FailTyped
  <2>3. SchedulerTypeOK' /\ Acyclic(deps')
    BY <2>1, <2>2
  <2>4. ASSUME Untroubled'
        PROVE  StartedOnCompleted' /\ BlockedConsistent(deps, status)'
    <3>1. Untroubled
      BY <2>1, <2>2, <2>4 DEF Untroubled
    <3>2. t \notin deps[t]
      BY NoSelfDependency
    <3>3. StartedOnCompleted /\ BlockedConsistent(deps, status)
      BY <3>1
    <3>4. /\ status'[t] = "FAILED"
          /\ \A u \in Known \ {t} :
                \/ status'[u] = status[u]
                \/ status[u] = "PENDING" /\ status'[u] = "BLOCKED"
          /\ BlockedConsistent(deps, status')
      <4>1. \A u \in Known : status[u] \notin {"READY", "CANCELLED"}
        BY <3>1 DEF Untroubled, TaskStatus
      <4>2. status \in [Known -> TaskStatus]
        OBVIOUS
      <4> QED
        BY <2>1, <3>2, <3>3, <4>1, <4>2, FailEffect DEF StartedOnCompleted
    <3>5. StartedOnCompleted'
      BY <2>1, <2>2, <3>3, <3>4 DEF StartedOnCompleted
    <3> QED
      BY <2>1, <3>4, <3>5
  <2> QED
    BY <2>3, <2>4
<1>5. ASSUME NEW t \in Known, Cancel(t)
      PROVE  GraphInv'
  <2>1. status' = [status EXCEPT ![t] = "CANCELLED"] /\ deps' = deps
    BY <1>5 DEF Cancel
  <2>2. SchedulerTypeOK' /\ Acyclic(deps')
    BY <2>1 DEF TaskStatus
  <2>3. ~Untroubled'
    BY <2>1 DEF Untroubled
  <2> QED
    BY <2>2, <2>3
<1>6. CASE UNCHANGED vars
  BY <1>6 DEF vars, Untroubled, StartedOnCompleted, BlockedConsistent, Acyclic
<1> QED
  BY <1>1, <1>2, <1>3, <1>4, <1>5, <1>6 DEF Next

(* The invariant holds of every scheduler, whatever is submitted to it and  *)
(* in whatever order its tasks start, end and are cancelled.                *)
THEOREM SchedulerGraphInv == Spec => []GraphInv
<1> QED
  BY GraphInit, GraphStep, PTL DEF Spec

(* A scheduler whose tasks all end makes progress (scheduler.py:72-112): as *)
(* long as no task was cancelled or submitted behind a failure, it is done, *)
(* or a task runs, or one is ready.                                         *)
THEOREM SchedulerNeverStuck == Spec => []NeverStuck
<1>1. GraphInv => NeverStuck
  <2> SUFFICES ASSUME GraphInv, late = {}, Ready(deps, status) = {},
                      \A t \in Known : status[t] \notin {"RUNNING", "CANCELLED"}
               PROVE  Done(status)
    BY DEF NeverStuck
  <2>1. BlockedConsistent(deps, status)
    BY DEF GraphInv, Untroubled
  <2>2. \A t \in Known : status[t] \notin {"READY", "RUNNING", "CANCELLED"}
    BY DEF GraphInv, SchedulerTypeOK, TaskStatus
  <2>3. deps \in [Known -> SUBSET Known] /\ status \in [Known -> TaskStatus] /\ Acyclic(deps)
    BY DEF GraphInv, SchedulerTypeOK
  <2> QED
    BY <2>1, <2>2, <2>3, QuiescentIsDone
<1> QED
  BY <1>1, SchedulerGraphInv, PTL

(* The cascade of the model is the depth-first search of the code           *)
(* (scheduler.py:107-112) in every state in which a running task can fail.  *)
THEOREM SchedulerCascade == Spec => []CascadeIsDepthFirst
<1>1. GraphInv => CascadeIsDepthFirst
  <2> SUFFICES ASSUME GraphInv, NEW t \in Known
               PROVE  BlockDependents(deps, [status EXCEPT ![t] = "FAILED"], t)
                          = [st |-> Fail(deps, status, t), todo |-> <<>>]
    BY DEF CascadeIsDepthFirst
  <2>1. IsGraph(deps, Known) /\ status \in [Known -> TaskStatus]
    BY IdsAssumption, FS_Subset DEF GraphInv, SchedulerTypeOK, IsGraph
  <2> QED
    BY <2>1, BlockDependentsIsFail
<1> QED
  BY <1>1, SchedulerGraphInv, PTL

(* The cycle test of the model is Kahn's algorithm as the code runs it      *)
(* (scheduler.py:44-63), on every graph that can be submitted.              *)
THEOREM SchedulerCycleTest == Spec => []CycleTestIsKahn
<1>1. GraphInv => CycleTestIsKahn
  <2> SUFFICES ASSUME GraphInv, NEW batch \in Batches,
                      \A t \in DOMAIN batch : batch[t] \subseteq Known \cup DOMAIN batch
               PROVE  Acyclic(Combined(batch)) <=> KahnAccepts(Combined(batch))
    BY DEF CycleTestIsKahn
  <2> DEFINE T == Known \cup DOMAIN batch
  <2>1. T \in SUBSET Ids
    BY DEF GraphInv, SchedulerTypeOK, Batches
  <2>2. Combined(batch) \in [T -> SUBSET T]
    BY DEF GraphInv, SchedulerTypeOK, Combined
  <2> HIDE DEF T
  <2>3. IsGraph(Combined(batch), T)
    BY <2>1, <2>2, IdsAssumption, FS_Subset DEF IsGraph
  <2> QED
    BY <2>3, KahnAcceptsAcyclic
<1> QED
  BY <1>1, SchedulerGraphInv, PTL
=============================================================================
