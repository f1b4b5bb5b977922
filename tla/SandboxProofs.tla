---------------------------- MODULE SandboxProofs ----------------------------
(***************************************************************************)
(* Proofs about Sandbox, for any number of calls made at the same time.    *)
(* One inductive invariant says, of a single call, how far parent, child   *)
(* and pipe are, and what a message and a verdict stand for; another says  *)
(* who can hold a pipe open.                                               *)
(***************************************************************************)
EXTENDS Sandbox, TLAPS

USE SandboxAssumption

Where    == {"new", "open", "forked", "joining", "terminated", "killed", "expired",
             "ended", "done"}
Life     == {"none", "running", "sending", "stuck", "sent", "exited"}
Endings  == {"none", "status", "SIGXCPU", "SIGKILL", "SIGTERM", "other"}
Contents == {"empty", "part"} \cup Outcomes
Reasons  == {"none", "cpu", "crash", "timeout", "raised"} \cup Contents

TypeOK ==
    /\ parent \in [Calls -> Where] /\ child \in [Calls -> Life]
    /\ exit \in [Calls -> Endings] /\ pipe \in [Calls -> Contents]
    /\ writers \in [Calls -> SUBSET (Calls \cup {Main})]
    /\ outcome \in [Calls -> Outcomes \cup {"none"}]
    /\ verdict \in [Calls -> Reasons]

(* Nothing is in the pipe before the function has come to something, and a  *)
(* whole message is what it came to.                                        *)
MessageInv(c) ==
    /\ parent[c] \in {"new", "open"} => child[c] = "none"
    /\ child[c] \in {"none", "running", "sending"} => pipe[c] = "empty"
    /\ child[c] = "sending" => outcome[c] \in Outcomes
    /\ pipe[c] \in Outcomes => outcome[c] = pipe[c]

(* A verdict on what the child did is given after it ended.                 *)
VerdictInv(c) ==
    /\ parent[c] \in {"ended", "done"} => child[c] = "exited"
    /\ verdict[c] # "none" => parent[c] \in {"expired", "done"}
    /\ verdict[c] \in Outcomes => pipe[c] = verdict[c]
    /\ verdict[c] \in {"cpu", "crash"} => parent[c] = "done" /\ pipe[c] \notin Outcomes
    /\ verdict[c] \in Outcomes => parent[c] = "done"

CallInv == \A c \in Calls : MessageInv(c) /\ VerdictInv(c)

LEMMA InitInv == Init => TypeOK /\ CallInv
BY DEF Init, Each, TypeOK, CallInv, MessageInv, VerdictInv, Where, Life, Endings, Contents,
       Outcomes, Reasons

(* A child comes to its end from any moment of its life.                    *)
LEMMA EndsInv ==
    ASSUME TypeOK, CallInv, NEW c \in Calls, Alive(c), NEW how \in Endings, Ends(c, how),
           UNCHANGED <<parent, pipe, outcome, verdict>>
    PROVE  TypeOK' /\ CallInv'
<1> USE DEF TypeOK, Ends
<1>1. TypeOK'
  BY DEF Life
<1>2. ASSUME NEW d \in Calls
      PROVE  MessageInv(d)' /\ VerdictInv(d)'
  <2>1. MessageInv(d) /\ VerdictInv(d)
    BY DEF CallInv
  <2>2. CASE d = c
    BY <2>1, <2>2 DEF MessageInv, VerdictInv, Alive
  <2>3. CASE d # c
    BY <2>1, <2>3 DEF MessageInv, VerdictInv
  <2> QED
    BY <2>2, <2>3
<1> QED
  BY <1>1, <1>2 DEF CallInv

LEMMA ChildInv ==
    ASSUME TypeOK, CallInv, NEW c \in Calls, Child(c)
    PROVE  TypeOK' /\ CallInv'
<1>1. CASE Finish(c)
  <2>1. TypeOK'
    BY <1>1 DEF TypeOK, Finish, Life
  <2> QED
    BY <1>1, <2>1 DEF TypeOK, CallInv, MessageInv, VerdictInv, Finish, Outcomes
<1>2. CASE SendSmall(c)
  <2>1. outcome[c] \in Outcomes
    BY <1>2 DEF SendSmall, CallInv, MessageInv
  <2>2. TypeOK'
    BY <1>2, <2>1 DEF TypeOK, SendSmall, Life, Contents
  <2> QED
    BY <1>2, <2>1, <2>2 DEF TypeOK, CallInv, MessageInv, VerdictInv, SendSmall, Outcomes
<1>3. CASE SendLarge(c)
  <2>1. TypeOK'
    BY <1>3 DEF TypeOK, SendLarge, Life, Contents
  <2> QED
    BY <1>3, <2>1 DEF TypeOK, CallInv, MessageInv, VerdictInv, SendLarge, Outcomes
<1>4. CASE Exit(c) \/ Dies(c) \/ DiesOfTerminate(c) \/ DiesOfKill(c)
  <2>1. /\ Alive(c) /\ UNCHANGED <<parent, pipe, outcome, verdict>>
        /\ \E how \in Endings : Ends(c, how)
    BY <1>4 DEF Exit, Dies, DiesOfTerminate, DiesOfKill, Alive, Endings
  <2> QED
    BY <2>1, EndsInv
<1> QED
  BY <1>1, <1>2, <1>3, <1>4 DEF Child

LEMMA ParentType ==
    ASSUME TypeOK, NEW c \in Calls, Parent(c)
    PROVE  TypeOK'
<1> USE DEF TypeOK, Goto, Decide, Where
<1>1. CASE Open(c) \/ Fork(c) \/ CloseOwnEnd(c)
  BY <1>1 DEF Open, Fork, CloseOwnEnd, Life
<1>2. CASE Join(c) \/ JoinExpires(c) \/ AfterTerminate(c) \/ AfterKill(c)
  BY <1>2 DEF Join, JoinExpires, AfterTerminate, AfterKill, Kill, Reasons
<1>3. CASE Read(c) \/ ReadPart(c)
  <2>1. Classify(c) \in Reasons
    BY DEF Classify, ByExit, Reasons
  <2> QED
    BY <1>3, <2>1 DEF Read, ReadPart, Reasons
<1> QED
  BY <1>1, <1>2, <1>3 DEF Parent

LEMMA ParentInv ==
    ASSUME TypeOK, CallInv, NEW c \in Calls, Parent(c)
    PROVE  CallInv'
<1> USE DEF TypeOK, CallInv, MessageInv, VerdictInv, Goto, Decide
<1>1. CASE Open(c) \/ Fork(c) \/ CloseOwnEnd(c) \/ Join(c) \/ JoinExpires(c)
  BY <1>1 DEF Open, Fork, CloseOwnEnd, Join, JoinExpires
<1>2. CASE AfterTerminate(c) \/ AfterKill(c)
  BY <1>2 DEF AfterTerminate, AfterKill, Kill, Outcomes
<1>3. CASE Read(c)
  BY <1>3 DEF Read, Classify, ByExit, Contents, Outcomes
<1>4. CASE ReadPart(c)
  BY <1>4 DEF ReadPart, Outcomes
<1> QED
  BY <1>1, <1>2, <1>3, <1>4 DEF Parent

LEMMA CallInvariant == Spec => [](TypeOK /\ CallInv)
<1>1. Init => TypeOK /\ CallInv
  BY InitInv
<1>2. TypeOK /\ CallInv /\ [Next]_vars => TypeOK' /\ CallInv'
  <2> SUFFICES ASSUME TypeOK, CallInv, [Next]_vars PROVE TypeOK' /\ CallInv'
    OBVIOUS
  <2>1. ASSUME NEW c \in Calls, Parent(c) \/ Child(c)
        PROVE  TypeOK' /\ CallInv'
    BY <2>1, ParentType, ParentInv, ChildInv
  <2>2. CASE UNCHANGED vars
    BY <2>2 DEF vars, TypeOK, CallInv, MessageInv, VerdictInv
  <2> QED
    BY <2>1, <2>2 DEF Next
<1> QED
  BY <1>1, <1>2, PTL DEF Spec

(* A verdict of ok, memory or error is the truth about the function, and a  *)
(* child is said to have crashed or been killed only if no whole message of *)
(* it was there to read: however the children of concurrent calls end, and  *)
(* whatever signals cross (run_sandboxed).                                  *)
THEOREM VerdictIsTrueHolds == Spec => []VerdictIsTrue
<1>1. TypeOK /\ CallInv => VerdictIsTrue
  BY DEF CallInv, MessageInv, VerdictInv, VerdictIsTrue
<1> QED
  BY <1>1, CallInvariant, PTL

-----------------------------------------------------------------------------
(***************************************************************************)
(* Who holds a pipe.                                                       *)
(***************************************************************************)

(* The parent holds the write end of a call's pipe only until it has forked *)
(* the call's child, and any other holder is a child that lives; so, once   *)
(* the call waits, the pipe ends when the last of those children does.      *)
HoldersLive ==
    \A c \in Calls :
        /\ Main \in writers[c] => parent[c] \in {"open", "forked"}
        /\ \A d \in writers[c] : d \in Calls => Alive(d)

(* A fork adds the new child to the pipes the parent holds at that moment.  *)
LEMMA HoldersStep ==
    ASSUME TypeOK, HoldersLive, [Next]_vars
    PROVE  HoldersLive'
<1> USE DEF TypeOK, Alive
<1>1. CASE UNCHANGED vars
  BY <1>1 DEF vars, HoldersLive
<1>2. ASSUME NEW c \in Calls, NEW how, Ends(c, how), parent' = parent
      PROVE  HoldersLive'
  BY <1>2 DEF Ends, HoldersLive
<1>3. ASSUME NEW c \in Calls, Finish(c) \/ SendSmall(c) \/ SendLarge(c)
      PROVE  HoldersLive'
  BY <1>3 DEF Finish, SendSmall, SendLarge, HoldersLive
<1>4. ASSUME NEW c \in Calls, Exit(c) \/ Dies(c) \/ DiesOfTerminate(c) \/ DiesOfKill(c)
      PROVE  HoldersLive'
  <2>1. parent' = parent /\ \E how : Ends(c, how)
    BY <1>4 DEF Exit, Dies, DiesOfTerminate, DiesOfKill
  <2> QED
    BY <1>2, <2>1
<1>5. ASSUME NEW c \in Calls, Open(c) \/ Fork(c) \/ CloseOwnEnd(c)
      PROVE  HoldersLive'
  BY <1>5 DEF Open, Fork, CloseOwnEnd, Goto, HoldersLive
<1>6. ASSUME NEW c \in Calls, \/ Join(c) \/ JoinExpires(c) \/ AfterTerminate(c)
                              \/ AfterKill(c) \/ Read(c) \/ ReadPart(c)
      PROVE  HoldersLive'
  BY <1>6 DEF Join, JoinExpires, AfterTerminate, AfterKill, Kill, Read, ReadPart, Goto,
              HoldersLive
<1> QED
  BY <1>1, <1>3, <1>4, <1>5, <1>6 DEF Next, Parent, Child

(* Only a live process keeps a call waiting in recv: no pipe is held by the *)
(* parent itself, or by a child that is gone (Process.start duplicates the  *)
(* write end into the child; w.close() in the parent).                      *)
THEOREM PipesHeldByTheLiving == Spec => []HoldersLive
<1>1. Init => HoldersLive
  BY DEF Init, Each, HoldersLive
<1>2. TypeOK /\ HoldersLive /\ [Next]_vars => HoldersLive'
  BY HoldersStep
<1> QED
  BY <1>1, <1>2, CallInvariant, PTL DEF Spec
=============================================================================
